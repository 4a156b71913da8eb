-------------------------- MODULE WebServiceProofs --------------------------
(***************************************************************************)
(* Proofs about module WebService: what the bridge is told of a channel,   *)
(* and what the browser gets of it, for any sockets and channels, any      *)
(* number of messages, and all that may go wrong with a socket.            *)
(***************************************************************************)
EXTENDS WebService, SequenceTheorems, NaturalsInduction, WellFoundedInduction, TLAPS

\* Every set of numbers that is not empty has a least element.
LEMMA Least ==
  ASSUME NEW N \in SUBSET Nat, N # {}
  PROVE  \E n \in N : \A k \in N : n <= k
<1>1. PICK n \in N : \A k \in N : ~(<<k, n>> \in OpToRel(<, Nat))
  BY WFMin, NatLessThanWellFounded
<1>2. \A k \in N : ~(k < n)
  BY <1>1 DEF OpToRel
<1> QED BY <1>2
-----------------------------------------------------------------------------
(* Of() is recursive: g[i] is what is of the channel in the first i messages. *)

Talk(c) == {Msg("data", c), Msg("close", c)}

Sifts(c, s, n, g) ==
  g = [i \in 0..n |-> IF i = 0 THEN <<>>
                      ELSE IF s[i] \in Talk(c) THEN Append(g[i - 1], s[i]) ELSE g[i - 1]]

\* The equation of Of() has one solution,
LEMMA SiftsUnique ==
  ASSUME NEW c, NEW s, NEW n \in Nat, NEW g, NEW h, Sifts(c, s, n, g), Sifts(c, s, n, h)
  PROVE  g = h
<1> DEFINE N == {i \in 0..n : g[i] # h[i]}
<1>1. N = {}
  <2> SUFFICES ASSUME N # {} PROVE FALSE
    OBVIOUS
  <2>1. N \in SUBSET Nat
    OBVIOUS
  <2>2. PICK i \in N : \A k \in N : i <= k
    <3> HIDE DEF N
    <3> QED BY <2>1, Least
  <2>3. CASE i = 0
    BY <2>3 DEF Sifts
  <2>4. CASE i # 0
    <3>1. i - 1 \in 0..n /\ ~(i <= i - 1)
      BY <2>4
    <3>2. g[i - 1] = h[i - 1]
      BY <2>2, <3>1
    <3> QED BY <2>4, <3>2 DEF Sifts
  <2> QED BY <2>3, <2>4
<1>2. \A i \in 0..n : g[i] = h[i]
  BY <1>1
<1>3. g = [i \in 0..n |-> g[i]] /\ h = [i \in 0..n |-> h[i]]
  BY DEF Sifts
<1> QED BY <1>2, <1>3

\* and it has one,
LEMMA SiftsExists ==
  ASSUME NEW c, NEW s, NEW n \in Nat
  PROVE  \E g : Sifts(c, s, n, g)
<1> DEFINE N == {k \in Nat : ~\E g : Sifts(c, s, k, g)}
<1> SUFFICES ASSUME N # {} PROVE FALSE
  OBVIOUS
<1>1. PICK m \in N : \A k \in N : m <= k
  BY Least
<1>2. CASE m = 0
  <2>1. Sifts(c, s, m, [i \in 0..m |-> <<>>])
    BY <1>2 DEF Sifts
  <2> QED BY <1>1, <2>1
<1>3. CASE m # 0
  <2>1. m - 1 \in Nat /\ ~(m <= m - 1)
    BY <1>3
  <2>2. PICK g : Sifts(c, s, m - 1, g)
    BY <1>1, <2>1
  <2> DEFINE h == [i \in 0..m |-> IF i < m THEN g[i]
                                  ELSE IF s[m] \in Talk(c) THEN Append(g[m - 1], s[m]) ELSE g[m - 1]]
  <2>3. \A i \in 0..(m - 1) : h[i] = g[i]
    BY <2>1
  <2>4. \A i \in 0..(m - 1) : g[i] = IF i = 0 THEN <<>>
                        ELSE IF s[i] \in Talk(c) THEN Append(g[i - 1], s[i]) ELSE g[i - 1]
    BY <2>2 DEF Sifts
  <2>5. h[m] = IF s[m] \in Talk(c) THEN Append(g[m - 1], s[m]) ELSE g[m - 1]
    OBVIOUS
  <2>6. h = [i \in 0..m |-> h[i]]
    OBVIOUS
  <2> HIDE DEF h
  <2>7. ASSUME NEW i \in 0..m
        PROVE  h[i] = IF i = 0 THEN <<>>
                      ELSE IF s[i] \in Talk(c) THEN Append(h[i - 1], s[i]) ELSE h[i - 1]
    <3>1. CASE i = m
      BY <1>3, <2>3, <2>5, <3>1
    <3>2. CASE i # m
      <4>1. i \in 0..(m - 1) /\ (i # 0 => i - 1 \in 0..(m - 1))
        BY <3>2
      <4> QED BY <2>3, <2>4, <4>1
    <3> QED BY <3>1, <3>2
  <2>8. Sifts(c, s, m, h)
    BY <2>6, <2>7 DEF Sifts
  <2> QED BY <1>1, <2>8
<1> QED BY <1>2, <1>3

\* which is what Of() takes.
LEMMA OfValue ==
  ASSUME NEW c, NEW s, Len(s) \in Nat, NEW g, Sifts(c, s, Len(s), g)
  PROVE  Of(c, s) = g[Len(s)]
<1> DEFINE G == CHOOSE h : h = [i \in 0..Len(s) |->
                  IF i = 0 THEN <<>>
                  ELSE IF s[i] \in {Msg("data", c), Msg("close", c)} THEN Append(h[i - 1], s[i])
                  ELSE h[i - 1]]
<1>1. Of(c, s) = G[Len(s)]
  BY Zenon DEF Of
<1>2. Sifts(c, s, Len(s), G)
  BY DEF Sifts, Talk
<1>3. G = g
  BY <1>2, SiftsUnique
<1> QED BY <1>1, <1>3

\* No message, nothing of the channel.
LEMMA OfEmpty ==
  ASSUME NEW c
  PROVE  Of(c, <<>>) = <<>>
<1>1. Len(<<>>) = 0 /\ Len(<<>>) \in Nat
  OBVIOUS
<1>2. PICK g : Sifts(c, <<>>, Len(<<>>), g)
  BY <1>1, SiftsExists
<1>3. g[0] = <<>>
  BY <1>1, <1>2 DEF Sifts
<1> QED BY <1>1, <1>2, <1>3, OfValue

\* One message more.
LEMMA OfAppend ==
  ASSUME NEW S, NEW s \in Seq(S), NEW x \in S, NEW c
  PROVE  Of(c, Append(s, x)) = IF x \in Talk(c) THEN Append(Of(c, s), x) ELSE Of(c, s)
<1> DEFINE t == Append(s, x)
           n == Len(s)
<1>1. n \in Nat /\ Len(t) = n + 1 /\ Len(t) \in Nat /\ t[n + 1] = x /\ \A i \in 1..n : t[i] = s[i]
  OBVIOUS
<1> HIDE DEF t, n
<1>2. PICK g : Sifts(c, t, n + 1, g)
  BY <1>1, SiftsExists
<1>3. \A i \in 0..(n + 1) : g[i] = IF i = 0 THEN <<>>
                        ELSE IF t[i] \in Talk(c) THEN Append(g[i - 1], t[i]) ELSE g[i - 1]
  BY <1>2 DEF Sifts
<1> DEFINE h == [i \in 0..n |-> g[i]]
<1>4. ASSUME NEW i \in 0..n
      PROVE  h[i] = IF i = 0 THEN <<>> ELSE IF s[i] \in Talk(c) THEN Append(h[i - 1], s[i]) ELSE h[i - 1]
  <2>1. CASE i = 0
    BY <1>1, <1>3, <2>1
  <2>2. CASE i # 0
    <3>1. i \in 1..n /\ i \in 0..(n + 1) /\ i - 1 \in 0..n
      BY <1>1, <2>2
    <3>2. h[i] = g[i] /\ h[i - 1] = g[i - 1] /\ t[i] = s[i]
      BY <1>1, <3>1
    <3> QED BY <1>3, <2>2, <3>1, <3>2
  <2> QED BY <2>1, <2>2
<1>5. Sifts(c, s, n, h)
  BY <1>4 DEF Sifts
<1>6. Of(c, s) = g[n]
  BY <1>1, <1>5, OfValue DEF n
<1>7. Of(c, t) = g[n + 1]
  BY <1>1, <1>2, OfValue
<1>8. g[n + 1] = IF x \in Talk(c) THEN Append(g[n], x) ELSE g[n]
  BY <1>1, <1>3
<1> QED BY <1>6, <1>7, <1>8 DEF t

\* Of() returns messages of the sequence.
LEMMA OfType ==
  ASSUME NEW S, NEW s \in Seq(S), NEW c
  PROVE  Of(c, s) \in Seq(S)
<1> DEFINE n == Len(s)
<1>1. n \in Nat
  OBVIOUS
<1> HIDE DEF n
<1>2. PICK g : Sifts(c, s, n, g)
  BY <1>1, SiftsExists
<1>3. \A i \in 0..n : g[i] = IF i = 0 THEN <<>>
                        ELSE IF s[i] \in Talk(c) THEN Append(g[i - 1], s[i]) ELSE g[i - 1]
  BY <1>2 DEF Sifts
<1> DEFINE N == {i \in 0..n : g[i] \notin Seq(S)}
<1>4. N = {}
  <2> SUFFICES ASSUME N # {} PROVE FALSE
    OBVIOUS
  <2>1. N \in SUBSET Nat
    BY <1>1
  <2>2. PICK i \in N : \A k \in N : i <= k
    <3> HIDE DEF N
    <3> QED BY <2>1, Least
  <2>3. i # 0
    <3>1. g[0] = <<>> /\ <<>> \in Seq(S)
      BY <1>1, <1>3
    <3> QED BY <3>1
  <2>4. i - 1 \in 0..n /\ ~(i <= i - 1) /\ i \in 1..n
    BY <1>1, <2>3
  <2>5. g[i - 1] \in Seq(S) /\ s[i] \in S
    BY <2>2, <2>4 DEF n
  <2>6. g[i] \in Seq(S)
    <3>1. g[i] = IF s[i] \in Talk(c) THEN Append(g[i - 1], s[i]) ELSE g[i - 1]
      BY <1>3, <2>3
    <3>2. Append(g[i - 1], s[i]) \in Seq(S)
      BY <2>5
    <3> QED BY <2>5, <3>1, <3>2
  <2> QED BY <2>6
<1>5. Of(c, s) = g[n]
  BY <1>1, <1>2, OfValue DEF n
<1> QED BY <1>1, <1>4, <1>5

\* Names, which the provers do not rewrite.
Cat(u, v) == u \o v
App(u, y) == Append(u, y)

\* Appending to the second part is appending to the whole.
LEMMA CatApp ==
  ASSUME NEW S, NEW u \in Seq(S), NEW v \in Seq(S), NEW y \in S
  PROVE  Cat(u, v) \in Seq(S) /\ App(Cat(u, v), y) = Cat(u, App(v, y))
BY DEF Cat, App

\* The step of OfConcat.
LEMMA OfConcatOne ==
  ASSUME NEW S, NEW a \in Seq(S), NEW e \in Seq(S), NEW x \in S, NEW c,
         Of(c, Cat(a, e)) = Cat(Of(c, a), Of(c, e))
  PROVE  Of(c, Cat(a, App(e, x))) = Cat(Of(c, a), Of(c, App(e, x)))
<1>1. PICK u \in Seq(S), v \in Seq(S) : u = Of(c, a) /\ v = Of(c, e)
  BY OfType
<1>2. /\ Append(u \o v, x) = u \o Append(v, x)
      /\ Append(a \o e, x) = a \o Append(e, x)
  <2>1. App(Cat(u, v), x) = Cat(u, App(v, x)) /\ App(Cat(a, e), x) = Cat(a, App(e, x))
    BY CatApp
  <2> QED BY <2>1 DEF Cat, App
<1>3. PICK w \in Seq(S) : w = a \o e
  BY ConcatProperties
<1>4. Of(c, Append(w, x)) = IF x \in Talk(c) THEN Append(Of(c, w), x) ELSE Of(c, w)
  BY OfAppend
<1>5. Of(c, Append(e, x)) = IF x \in Talk(c) THEN Append(v, x) ELSE v
  BY <1>1, OfAppend
<1> QED BY <1>1, <1>2, <1>3, <1>4, <1>5 DEF Cat, App

\* What is of a channel in two parts, one after the other.
LEMMA OfConcat ==
  ASSUME NEW S, NEW a \in Seq(S), NEW b \in Seq(S), NEW c
  PROVE  Of(c, a \o b) = Of(c, a) \o Of(c, b)
<1> DEFINE N == {n \in Nat : \E d \in Seq(S) : Len(d) = n /\ Of(c, a \o d) # Of(c, a) \o Of(c, d)}
<1> SUFFICES N = {}
  OBVIOUS
<1> SUFFICES ASSUME N # {} PROVE FALSE
  OBVIOUS
<1>1. PICK n \in N : \A k \in N : n <= k
  <2>1. N \in SUBSET Nat
    OBVIOUS
  <2> HIDE DEF N
  <2> QED BY <2>1, Least
<1>2. PICK d \in Seq(S) : Len(d) = n /\ Of(c, a \o d) # Of(c, a) \o Of(c, d)
  BY <1>1
<1>3. Of(c, a) \in Seq(S)
  BY OfType
<1>4. CASE n = 0
  <2>1. d = <<>>
    BY <1>2, <1>4, EmptySeq
  <2>2. a \o d = a /\ Of(c, a) \o <<>> = Of(c, a)
    BY <1>3, <2>1, ConcatEmptySeq
  <2> QED BY <1>2, <2>1, <2>2, OfEmpty
<1>5. CASE n # 0
  <2>0. d # <<>>
    BY <1>2, <1>5
  <2>1. PICK e \in Seq(S), x \in S : d = Append(e, x)
    BY <2>0, SequenceEmptyOrAppend
  <2> HIDE DEF N
  <2>2. n - 1 \in Nat /\ ~(n <= n - 1)
    BY <1>5 DEF N
  <2>3. Of(c, a \o e) = Of(c, a) \o Of(c, e)
    <3>1. Len(e) = n - 1
      BY <1>2, <2>1
    <3> QED BY <1>1, <2>2, <3>1 DEF N
  <2>4. Of(c, Cat(a, e)) = Cat(Of(c, a), Of(c, e))
    BY <2>3 DEF Cat
  <2>5. Of(c, Cat(a, App(e, x))) = Cat(Of(c, a), Of(c, App(e, x)))
    BY <2>4, OfConcatOne
  <2> QED BY <1>2, <2>1, <2>5 DEF Cat, App
<1> QED BY <1>4, <1>5

\* One message.
LEMMA OfOne ==
  ASSUME NEW x, NEW c
  PROVE  Of(c, <<x>>) = IF x \in Talk(c) THEN <<x>> ELSE <<>>
<1>1. <<>> \in Seq({x}) /\ Append(<<>>, x) = <<x>> /\ x \in {x}
  OBVIOUS
<1>2. Of(c, Append(<<>>, x)) = IF x \in Talk(c) THEN Append(Of(c, <<>>), x) ELSE Of(c, <<>>)
  BY <1>1, OfAppend
<1> QED BY <1>1, <1>2, OfEmpty
-----------------------------------------------------------------------------
(* Prefixes. *)

\* A prefix agrees as far as it goes.
LEMMA PrefixPointwise ==
  ASSUME NEW S, NEW a \in Seq(S), NEW t \in Seq(S)
  PROVE  IsPrefix(a, t) <=> Len(a) <= Len(t) /\ \A i \in 1..Len(a) : a[i] = t[i]
<1>1. SubSeq(a, 1, Len(a)) = a
  BY SubSeqFull
<1>2. CASE Len(a) <= Len(t)
  <2>1. \A i \in 1..Len(a) : t[i] \in S
    BY <1>2
  <2> DEFINE u == SubSeq(t, 1, Len(a))
  <2>2. u \in Seq(S) /\ Len(u) = Len(a) /\ \A i \in 1..Len(a) : u[i] = t[i]
    BY <2>1, SubSeqProperties
  <2> HIDE DEF u
  <2>3. a = u <=> \A i \in 1..Len(a) : a[i] = t[i]
    BY <2>2, SeqEqual
  <2> QED BY <1>1, <1>2, <2>3 DEF u, IsPrefix
<1>3. CASE ~(Len(a) <= Len(t))
  BY <1>3 DEF IsPrefix
<1> QED BY <1>2, <1>3

\* A sequence is a prefix of itself.
LEMMA PrefixSelf ==
  ASSUME NEW S, NEW a \in Seq(S)
  PROVE  IsPrefix(a, a)
BY PrefixPointwise

\* The empty sequence has no other prefix.
LEMMA PrefixEmpty ==
  ASSUME NEW S, NEW a \in Seq(S), IsPrefix(a, <<>>)
  PROVE  a = <<>>
<1>1. <<>> \in Seq(S)
  OBVIOUS
<1>2. Len(a) <= Len(<<>>)
  BY <1>1, PrefixPointwise
<1> QED BY <1>2, EmptySeq

\* A prefix stays one when the sequence grows.
LEMMA PrefixLonger ==
  ASSUME NEW S, NEW a \in Seq(S), NEW t \in Seq(S), NEW x \in S, IsPrefix(a, t)
  PROVE  IsPrefix(a, Append(t, x))
<1>1. Append(t, x) \in Seq(S) /\ Len(Append(t, x)) = Len(t) + 1 /\ \A i \in 1..Len(t) : Append(t, x)[i] = t[i]
  OBVIOUS
<1>2. Len(a) <= Len(t) /\ \A i \in 1..Len(a) : a[i] = t[i]
  BY PrefixPointwise
<1>3. Len(a) <= Len(Append(t, x)) /\ \A i \in 1..Len(a) : a[i] = Append(t, x)[i]
  BY <1>1, <1>2
<1> QED BY <1>1, <1>3, PrefixPointwise

\* A prefix of a prefix.
LEMMA PrefixShorter ==
  ASSUME NEW S, NEW a \in Seq(S), NEW b \in Seq(S), NEW t \in Seq(S), IsPrefix(a \o b, t)
  PROVE  IsPrefix(a, t)
<1>1. a \o b \in Seq(S) /\ Len(a \o b) = Len(a) + Len(b) /\ \A i \in 1..Len(a) : (a \o b)[i] = a[i]
  OBVIOUS
<1>2. Len(a \o b) <= Len(t) /\ \A i \in 1..Len(a \o b) : (a \o b)[i] = t[i]
  BY <1>1, PrefixPointwise, ZenonT(40)
<1>3. Len(a) <= Len(t) /\ \A i \in 1..Len(a) : a[i] = t[i]
  BY <1>1, <1>2
<1> QED BY <1>3, PrefixPointwise
-----------------------------------------------------------------------------
(* The frames of a browser on one channel. *)

Frame == [type : {"init", "logout", "hangup", "malformed", "invalid"}] \cup Message

Words(c) == {Msg("open", c), Msg("data", c), Msg("close", c)}

\* Of the frames F that wait, those on channel c continue what the bridge has
\* been told, t, when the browser has sent n of them: the open is first and the
\* close is last.  As long as the socket is live nothing of that is lost, and
\* when its browser is sane the bridge hears nothing after a close.  known: the
\* channel is in by_channel; talks: the browser can still send.
Stream(F, c, n, t, known, live, sane, talks) ==
  /\ n = 0 => t = <<>> /\ ~known /\ \A i \in DOMAIN F : F[i] \notin Words(c)
  /\ \A i \in DOMAIN F : F[i] = Msg("open", c) =>
       /\ t = <<>> /\ ~known
       /\ \A j \in DOMAIN F : F[j] \in Words(c) => j >= i /\ (F[j] = Msg("open", c) => j = i)
  /\ \A i \in DOMAIN F : F[i] = Msg("close", c) =>
       /\ n = MaxData + 2
       /\ \A j \in DOMAIN F : F[j] \in Words(c) => j <= i
  /\ live =>
       /\ \A i \in DOMAIN F : F[i] \in Words(c) /\ F[i] # Msg("open", c) =>
            t # <<>> \/ \E j \in 1..(i - 1) : F[j] = Msg("open", c)
       /\ talks /\ n # 0 => t # <<>> \/ \E j \in DOMAIN F : F[j] = Msg("open", c)
       /\ sane /\ Has(t, "close") => n = MaxData + 2 /\ \A i \in DOMAIN F : F[i] \notin Words(c)

\* The three kinds of frames of a channel are different.
LEMMA WordsApart ==
  ASSUME NEW c \in Channels
  PROVE  /\ Words(c) \subseteq Message /\ Words(c) \subseteq Frame
         /\ Msg("open", c) # Msg("data", c) /\ Msg("open", c) # Msg("close", c)
         /\ Msg("data", c) # Msg("close", c)
         /\ Msg("open", c).type = "open" /\ Msg("data", c).type = "data" /\ Msg("close", c).type = "close"
         /\ \A m : m \in Words(c) => m.channel = c /\ m.type \in {"open", "data", "close"}
BY DEF Words, Msg, Message, Frame

\* What is left without the first element.
LEMMA Tails ==
  ASSUME NEW S, NEW F \in Seq(S), F # <<>>
  PROVE  /\ Head(F) \in S /\ Head(F) = F[1] /\ Tail(F) \in Seq(S) /\ Len(F) \in Nat /\ Len(F) >= 1
         /\ DOMAIN F = 1..Len(F) /\ DOMAIN Tail(F) = 1..(Len(F) - 1)
         /\ \A i \in 1..(Len(F) - 1) : Tail(F)[i] = F[i + 1]
<1>1. Len(F) \in Nat \ {0}
  BY EmptySeq
<1> QED BY <1>1, HeadTailProperties

\* What one element more makes of a sequence.
LEMMA Appends ==
  ASSUME NEW S, NEW F \in Seq(S), NEW x \in S
  PROVE  /\ Append(F, x) \in Seq(S) /\ Len(F) \in Nat /\ Append(F, x) # <<>>
         /\ DOMAIN F = 1..Len(F) /\ DOMAIN Append(F, x) = 1..(Len(F) + 1)
         /\ \A i \in 1..Len(F) : Append(F, x)[i] = F[i]
         /\ Append(F, x)[Len(F) + 1] = x
OBVIOUS

\* What kinds there are, with one element more.
LEMMA HasAppend ==
  ASSUME NEW S, NEW F \in Seq(S), NEW x \in S, NEW type
  PROVE  Has(Append(F, x), type) <=> Has(F, type) \/ x.type = type
<1>1. PICK G : G = Append(F, x)
  OBVIOUS
<1>2. /\ Len(F) \in Nat /\ DOMAIN F = 1..Len(F) /\ DOMAIN G = 1..(Len(F) + 1)
      /\ \A i \in 1..Len(F) : G[i] = F[i]
      /\ G[Len(F) + 1] = x
  BY <1>1, Appends
<1>3. Has(G, type) <=> Has(F, type) \/ x.type = type
  BY <1>2 DEF Has
<1> QED BY <1>1, <1>3

\* To ask less of a stream.
LEMMA StreamWeaken ==
  ASSUME NEW F, NEW c, NEW n, NEW t, NEW known, NEW live, NEW sane, NEW talks,
         NEW k2, NEW l2, NEW s2, NEW t2,
         Stream(F, c, n, t, known, live, sane, talks),
         k2 => known, l2 => live, s2 => sane, t2 => talks
  PROVE  Stream(F, c, n, t, k2, l2, s2, t2)
BY DEF Stream

\* The last frames are lost with the connection.
LEMMA StreamCut ==
  ASSUME NEW F \in Seq(Frame), NEW c, NEW n, NEW t, NEW known, NEW live, NEW sane, NEW talks,
         NEW m \in 0..Len(F), Stream(F, c, n, t, known, live, sane, talks)
  PROVE  Stream(SubSeq(F, 1, m), c, n, t, known, live, sane, FALSE)
<1>1. PICK G : G = SubSeq(F, 1, m)
  OBVIOUS
<1>2. m \in Nat /\ Len(F) \in Nat /\ m <= Len(F) /\ DOMAIN F = 1..Len(F) /\ \A i \in 1..m : F[i] \in Frame
  OBVIOUS
<1>3. DOMAIN G = 1..m /\ \A i \in 1..m : G[i] = F[i] /\ i \in DOMAIN F
  <2>1. /\ SubSeq(F, 1, m) \in Seq(Frame)
        /\ Len(SubSeq(F, 1, m)) = IF 1 <= m THEN m - 1 + 1 ELSE 0
        /\ \A i \in 1..(m - 1 + 1) : SubSeq(F, 1, m)[i] = F[1 + i - 1]
    BY <1>2, SubSeqProperties
  <2> QED BY <1>1, <1>2, <2>1
<1>4. Stream(G, c, n, t, known, live, sane, FALSE)
  BY <1>2, <1>3 DEF Stream
<1> QED BY <1>1, <1>4

\* All frames are lost when the stream is closed.
LEMMA StreamEmpty ==
  ASSUME NEW F, NEW c, NEW n, NEW t, NEW known, NEW live, NEW sane, NEW talks,
         Stream(F, c, n, t, known, live, sane, talks)
  PROVE  Stream(<<>>, c, n, t, known, live, sane, FALSE)
<1>1. DOMAIN <<>> = {}
  OBVIOUS
<1> QED BY <1>1 DEF Stream

\* The browser sends a frame that is not of this channel.
LEMMA StreamQuiet ==
  ASSUME NEW F \in Seq(Frame), NEW c, NEW n, NEW t, NEW known, NEW live, NEW sane, NEW talks,
         NEW x \in Frame, x \notin Words(c), Stream(F, c, n, t, known, live, sane, talks)
  PROVE  Stream(Append(F, x), c, n, t, known, live, sane, talks)
<1>1. PICK G : G = Append(F, x)
  OBVIOUS
<1>2. /\ Len(F) \in Nat /\ DOMAIN F = 1..Len(F) /\ DOMAIN G = 1..(Len(F) + 1)
      /\ \A i \in 1..Len(F) : G[i] = F[i]
      /\ G[Len(F) + 1] = x
  BY <1>1, Appends
<1>3. \A i \in DOMAIN G : G[i] \in Words(c) => i \in DOMAIN F /\ G[i] = F[i]
  BY <1>2
<1>4. \A i \in DOMAIN F : i \in DOMAIN G /\ G[i] = F[i]
  BY <1>2
<1>5. Msg("open", c) \in Words(c) /\ Msg("close", c) \in Words(c)
  BY DEF Words
<1>6. \A i \in DOMAIN F : \A j \in 1..(i - 1) : j \in DOMAIN F
  BY <1>2
<1>7. Stream(G, c, n, t, known, live, sane, talks)
  BY <1>3, <1>4, <1>5, <1>6 DEF Stream
<1> QED BY <1>1, <1>7

\* A frame that is not of this channel, or that nobody heeds, is taken.
LEMMA StreamSkip ==
  ASSUME NEW F \in Seq(Frame), F # <<>>,
         NEW c, NEW n, NEW t, NEW known, NEW live, NEW sane, NEW talks,
         Head(F) \notin Words(c) \/ ~live, Stream(F, c, n, t, known, live, sane, talks)
  PROVE  Stream(Tail(F), c, n, t, known, live, sane, talks)
<1>1. PICK G : G = Tail(F)
  OBVIOUS
<1>2. /\ Head(F) = F[1] /\ Len(F) \in Nat /\ Len(F) >= 1
      /\ DOMAIN F = 1..Len(F) /\ DOMAIN G = 1..(Len(F) - 1)
      /\ \A i \in 1..(Len(F) - 1) : G[i] = F[i + 1]
  BY <1>1, Tails
<1>3. Msg("open", c) \in Words(c) /\ Msg("close", c) \in Words(c)
  BY DEF Words
<1>4. \A i \in DOMAIN G : i \in Nat /\ i + 1 \in DOMAIN F /\ G[i] = F[i + 1]
  BY <1>2
<1>5. /\ n = 0 => t = <<>> /\ ~known /\ \A i \in DOMAIN G : G[i] \notin Words(c)
      /\ \A i \in DOMAIN G : G[i] = Msg("open", c) =>
           /\ t = <<>> /\ ~known
           /\ \A j \in DOMAIN G : G[j] \in Words(c) => j >= i /\ (G[j] = Msg("open", c) => j = i)
      /\ \A i \in DOMAIN G : G[i] = Msg("close", c) =>
           /\ n = MaxData + 2
           /\ \A j \in DOMAIN G : G[j] \in Words(c) => j <= i
  BY <1>4 DEF Stream
<1>6. ASSUME live
      PROVE  /\ \A i \in DOMAIN G : G[i] \in Words(c) /\ G[i] # Msg("open", c) =>
                  t # <<>> \/ \E j \in 1..(i - 1) : G[j] = Msg("open", c)
             /\ talks /\ n # 0 => t # <<>> \/ \E j \in DOMAIN G : G[j] = Msg("open", c)
             /\ sane /\ Has(t, "close") => n = MaxData + 2 /\ \A i \in DOMAIN G : G[i] \notin Words(c)
  <2>1. ASSUME NEW i \in DOMAIN G, G[i] \in Words(c), G[i] # Msg("open", c), t = <<>>
        PROVE  \E j \in 1..(i - 1) : G[j] = Msg("open", c)
    <3>1. PICK j \in 1..i : F[j] = Msg("open", c)
      BY <1>4, <1>6, <2>1 DEF Stream
    <3>2. j # 1
      BY <1>2, <1>3, <1>6, <3>1
    <3>3. j - 1 \in 1..(i - 1) /\ G[j - 1] = F[j]
      BY <1>2, <3>1, <3>2
    <3> QED BY <3>1, <3>3
  <2>2. ASSUME talks, n # 0, t = <<>>
        PROVE  \E j \in DOMAIN G : G[j] = Msg("open", c)
    <3>1. PICK j \in DOMAIN F : F[j] = Msg("open", c)
      BY <1>6, <2>2 DEF Stream
    <3>2. j # 1
      BY <1>2, <1>3, <1>6, <3>1
    <3>3. j - 1 \in DOMAIN G /\ G[j - 1] = F[j]
      BY <1>2, <3>1, <3>2
    <3> QED BY <3>1, <3>3
  <2>3. sane /\ Has(t, "close") => n = MaxData + 2 /\ \A i \in DOMAIN G : G[i] \notin Words(c)
    BY <1>4, <1>6 DEF Stream
  <2> QED BY <2>1, <2>2, <2>3
<1>7. Stream(G, c, n, t, known, live, sane, talks)
  BY <1>5, <1>6 DEF Stream
<1> QED BY <1>1, <1>7

\* The bridge is told the open, a message, the close.
LEMMA StreamOpens ==
  ASSUME NEW F \in Seq(Frame), F # <<>>, NEW c \in Channels, Head(F) = Msg("open", c),
         NEW n, NEW t \in Seq(Message), NEW known, NEW live, NEW sane, NEW talks,
         Stream(F, c, n, t, known, live, sane, talks)
  PROVE  t = <<>> /\ ~known /\ Stream(Tail(F), c, n, Append(t, Msg("open", c)), TRUE, live, sane, talks)
<1>1. PICK G, u : G = Tail(F) /\ u = Append(t, Msg("open", c))
  OBVIOUS
<1>2. /\ Head(F) = F[1] /\ Len(F) \in Nat /\ Len(F) >= 1
      /\ DOMAIN F = 1..Len(F) /\ DOMAIN G = 1..(Len(F) - 1)
      /\ \A i \in 1..(Len(F) - 1) : G[i] = F[i + 1]
  BY <1>1, Tails
<1>3. Msg("open", c) \in Words(c) /\ Msg("open", c) \in Message
  BY WordsApart DEF Words
<1>4. \A i \in DOMAIN G : i \in Nat /\ i + 1 \in DOMAIN F /\ G[i] = F[i + 1] /\ i + 1 # 1
  BY <1>2
<1>5. 1 \in DOMAIN F /\ F[1] = Msg("open", c)
  BY <1>2
<1>6. t = <<>> /\ ~known /\ n # 0 /\ \A i \in DOMAIN G : G[i] # Msg("open", c)
  BY <1>3, <1>4, <1>5 DEF Stream
<1>7. u # <<>> /\ ~Has(u, "close")
  <2>1. u = <<Msg("open", c)>>
    BY <1>1, <1>6
  <2>2. DOMAIN u = {1} /\ u[1].type = "open"
    BY <2>1, WordsApart
  <2> QED BY <2>1, <2>2 DEF Has
<1>8. \A i \in DOMAIN G : G[i] = Msg("close", c) =>
           n = MaxData + 2 /\ \A j \in DOMAIN G : G[j] \in Words(c) => j <= i
  BY <1>4 DEF Stream
<1>9. Stream(G, c, n, u, TRUE, live, sane, talks)
  BY <1>6, <1>7, <1>8 DEF Stream
<1> QED BY <1>1, <1>6, <1>9

\* A message of the browser is taken and told.
LEMMA StreamSays ==
  ASSUME NEW F \in Seq(Frame), F # <<>>, NEW c \in Channels, Head(F) = Msg("data", c),
         NEW n, NEW t \in Seq(Message), NEW known, NEW live, NEW sane, NEW talks,
         Stream(F, c, n, t, known, live, sane, talks)
  PROVE  /\ live => t # <<>>
         /\ live /\ sane => ~Has(t, "close")
         /\ Stream(Tail(F), c, n, Append(t, Msg("data", c)), known, live, sane, talks)
<1>1. PICK G, u : G = Tail(F) /\ u = Append(t, Msg("data", c))
  OBVIOUS
<1>2. /\ Head(F) = F[1] /\ Len(F) \in Nat /\ Len(F) >= 1
      /\ DOMAIN F = 1..Len(F) /\ DOMAIN G = 1..(Len(F) - 1)
      /\ \A i \in 1..(Len(F) - 1) : G[i] = F[i + 1]
  BY <1>1, Tails
<1>3. Msg("data", c) \in Words(c) /\ Msg("data", c) \in Message /\ Msg("data", c) # Msg("open", c)
  BY WordsApart DEF Words
<1>4. \A i \in DOMAIN G : i \in Nat /\ i + 1 \in DOMAIN F /\ G[i] = F[i + 1] /\ ~(1 >= i + 1)
  BY <1>2
<1>5. 1 \in DOMAIN F /\ F[1] = Msg("data", c) /\ \A j \in 1..(1 - 1) : FALSE
  BY <1>2
<1>6. n # 0 /\ \A i \in DOMAIN G : G[i] # Msg("open", c)
  BY <1>3, <1>4, <1>5 DEF Stream
<1>7. (live => t # <<>>) /\ (live /\ sane => ~Has(t, "close"))
  BY <1>3, <1>5 DEF Stream
<1>8. u # <<>> /\ (Has(u, "close") <=> Has(t, "close"))
  BY <1>1, <1>3, HasAppend, Appends, WordsApart
<1>9. \A i \in DOMAIN G : G[i] = Msg("close", c) =>
           n = MaxData + 2 /\ \A j \in DOMAIN G : G[j] \in Words(c) => j <= i
  BY <1>4 DEF Stream
<1>10. Stream(G, c, n, u, known, live, sane, talks)
  BY <1>6, <1>7, <1>8, <1>9 DEF Stream
<1> QED BY <1>1, <1>7, <1>10

\* A close of the browser is taken and told.
LEMMA StreamCloses ==
  ASSUME NEW F \in Seq(Frame), F # <<>>, NEW c \in Channels, Head(F) = Msg("close", c),
         NEW n, NEW t \in Seq(Message), NEW known, NEW live, NEW sane, NEW talks,
         Stream(F, c, n, t, known, live, sane, talks)
  PROVE  /\ live => t # <<>>
         /\ live /\ sane => ~Has(t, "close")
         /\ Stream(Tail(F), c, n, Append(t, Msg("close", c)), FALSE, live, sane, talks)
<1>1. PICK G, u : G = Tail(F) /\ u = Append(t, Msg("close", c))
  OBVIOUS
<1>2. /\ Head(F) = F[1] /\ Len(F) \in Nat /\ Len(F) >= 1
      /\ DOMAIN F = 1..Len(F) /\ DOMAIN G = 1..(Len(F) - 1)
      /\ \A i \in 1..(Len(F) - 1) : G[i] = F[i + 1]
  BY <1>1, Tails
<1>3. /\ Msg("close", c) \in Words(c) /\ Msg("close", c) \in Message /\ Msg("close", c) # Msg("open", c)
      /\ Msg("open", c) \in Words(c)
  BY WordsApart DEF Words
<1>4. \A i \in DOMAIN G : i \in Nat /\ i + 1 \in DOMAIN F /\ G[i] = F[i + 1] /\ ~(i + 1 <= 1)
  BY <1>2
<1>5. 1 \in DOMAIN F /\ F[1] = Msg("close", c) /\ \A j \in 1..(1 - 1) : FALSE
  BY <1>2
<1>6. n # 0 /\ n = MaxData + 2 /\ \A i \in DOMAIN G : G[i] \notin Words(c)
  BY <1>3, <1>4, <1>5 DEF Stream
<1>7. (live => t # <<>>) /\ (live /\ sane => ~Has(t, "close"))
  BY <1>3, <1>5 DEF Stream
<1>8. u # <<>>
  BY <1>1, <1>3, Appends
<1>9. Stream(G, c, n, u, FALSE, live, sane, talks)
  BY <1>3, <1>6, <1>8 DEF Stream
<1> QED BY <1>1, <1>7, <1>9

\* on_web_socket_closing() closes a channel of which more may come.
LEMMA StreamEnds ==
  ASSUME NEW F, NEW c \in Channels, NEW n, NEW t \in Seq(Message),
         NEW live, NEW sane, NEW talks, ~live \/ ~sane,
         Stream(F, c, n, t, TRUE, live, sane, talks)
  PROVE  Stream(F, c, n, Append(t, Msg("close", c)), TRUE, live, sane, talks)
<1>1. PICK u : u = Append(t, Msg("close", c))
  OBVIOUS
<1>2. u # <<>>
  BY <1>1, WordsApart, Appends DEF Words
<1>3. Stream(F, c, n, u, TRUE, live, sane, talks)
  BY <1>2 DEF Stream
<1> QED BY <1>1, <1>3

\* The browser sends one more.
LEMMA StreamAsks ==
  ASSUME NEW F \in Seq(Frame), NEW c \in Channels, NEW t, NEW known, NEW live, NEW sane, NEW talks,
         Stream(F, c, 0, t, known, live, sane, talks)
  PROVE  Stream(Append(F, Msg("open", c)), c, 1, t, known, live, sane, talks)
<1>1. PICK G : G = Append(F, Msg("open", c))
  OBVIOUS
<1>2. /\ Len(F) \in Nat /\ DOMAIN F = 1..Len(F) /\ DOMAIN G = 1..(Len(F) + 1)
      /\ \A i \in 1..Len(F) : G[i] = F[i]
      /\ G[Len(F) + 1] = Msg("open", c)
  BY <1>1, Appends, WordsApart DEF Words
<1>3. t = <<>> /\ ~known /\ \A i \in DOMAIN F : F[i] \notin Words(c)
  BY DEF Stream
<1>4. \A i \in DOMAIN G : i \in Nat /\ (G[i] \in Words(c) => i = Len(F) + 1 /\ G[i] = Msg("open", c))
  BY <1>2, <1>3
<1>5. /\ Msg("open", c) \in Words(c) /\ Msg("close", c) \in Words(c) /\ Msg("close", c) # Msg("open", c)
      /\ Len(F) + 1 \in DOMAIN G
  BY <1>2, WordsApart DEF Words
<1>6. ~Has(t, "close")
  BY <1>3 DEF Has
<1>7. Stream(G, c, 1, t, known, live, sane, talks)
  BY <1>2, <1>3, <1>4, <1>5, <1>6 DEF Stream
<1> QED BY <1>1, <1>7

\* The browser sends a message or a close on an open channel.
LEMMA StreamSends ==
  ASSUME NEW F \in Seq(Frame), NEW c \in Channels, NEW t, NEW known, NEW live, NEW sane,
         NEW n \in 1..(MaxData + 1), Stream(F, c, n, t, known, live, sane, TRUE),
         NEW m \in Nat, NEW x, (x = Msg("data", c) /\ m # 0) \/ (x = Msg("close", c) /\ m = MaxData + 2)
  PROVE  Stream(Append(F, x), c, m, t, known, live, sane, TRUE)
<1>1. PICK G : G = Append(F, x)
  OBVIOUS
<1>2. /\ Len(F) \in Nat /\ DOMAIN F = 1..Len(F) /\ DOMAIN G = 1..(Len(F) + 1)
      /\ \A i \in 1..Len(F) : G[i] = F[i]
      /\ G[Len(F) + 1] = x
  BY <1>1, Appends, WordsApart DEF Words
<1>3. /\ \A i \in DOMAIN F : F[i] # Msg("close", c)
      /\ live /\ sane => ~Has(t, "close")
  BY WebServiceAssumption DEF Stream
<1>4. x \in Words(c) /\ x # Msg("open", c) /\ m # 0
  BY WordsApart, WebServiceAssumption DEF Words
<1>5. \A i \in DOMAIN G : G[i] = Msg("open", c) => i \in DOMAIN F /\ F[i] = Msg("open", c)
  BY <1>2, <1>4
<1>6. ASSUME NEW i \in DOMAIN G, G[i] = Msg("open", c)
      PROVE  /\ t = <<>> /\ ~known
             /\ \A j \in DOMAIN G : G[j] \in Words(c) => j >= i /\ (G[j] = Msg("open", c) => j = i)
  <2>1. i \in DOMAIN F /\ F[i] = Msg("open", c)
    BY <1>5, <1>6
  <2>2. t = <<>> /\ ~known /\ \A j \in DOMAIN F : F[j] \in Words(c) => j >= i /\ (F[j] = Msg("open", c) => j = i)
    BY <2>1 DEF Stream
  <2> QED BY <1>2, <1>5, <2>1, <2>2
<1>7. \A i \in DOMAIN G : G[i] = Msg("close", c) =>
        m = MaxData + 2 /\ \A j \in DOMAIN G : G[j] \in Words(c) => j <= i
  <2>1. \A i \in DOMAIN G : G[i] = Msg("close", c) => i = Len(F) + 1 /\ x = Msg("close", c)
    BY <1>2, <1>3
  <2>2. x = Msg("close", c) => m = MaxData + 2
    BY WordsApart
  <2> QED BY <1>2, <2>1, <2>2
<1>8. ASSUME live, t = <<>>
      PROVE  \E j \in 1..Len(F) : G[j] = Msg("open", c)
  <2>1. PICK j \in DOMAIN F : F[j] = Msg("open", c)
    BY <1>8 DEF Stream
  <2> QED BY <1>2, <2>1
<1>9. ASSUME live, t = <<>>, NEW i \in DOMAIN G, G[i] \in Words(c), G[i] # Msg("open", c)
      PROVE  \E j \in 1..(i - 1) : G[j] = Msg("open", c)
  <2>1. CASE i = Len(F) + 1
    BY <1>2, <1>8, <1>9, <2>1
  <2>2. CASE i # Len(F) + 1
    <3>1. i \in DOMAIN F /\ G[i] = F[i]
      BY <1>2, <2>2
    <3>2. PICK j \in 1..(i - 1) : F[j] = Msg("open", c)
      BY <1>9, <3>1 DEF Stream
    <3> QED BY <1>2, <3>1, <3>2
  <2> QED BY <2>1, <2>2
<1>10. Stream(G, c, m, t, known, live, sane, TRUE)
  <2>1. \A j \in 1..Len(F) : j \in DOMAIN G
    BY <1>2
  <2> QED BY <1>3, <1>4, <1>6, <1>7, <1>8, <1>9, <2>1 DEF Stream
<1> QED BY <1>1, <1>10
-----------------------------------------------------------------------------
(* The invariant. *)

Answer == [type : {"init", "problem"}] \cup [type : {"hangup", "refusal"}, last : BOOLEAN] \cup Message
FromUp == [type : {"init", "unsupported"}] \cup [type : {"data", "close"}, channel : Channels]

SocketType ==
  [tracked : BOOLEAN, channels : SUBSET Channels, init : BOOLEAN, starting : BOOLEAN,
   handshake : BOOLEAN, close_sent : BOOLEAN, close_received : BOOLEAN, timeout : BOOLEAN,
   io : {"none", "open", "closing", "closed"}, incoming : Seq(Frame), outgoing : Seq(Answer)]

BrowserType ==
  [sent : [Channels -> Nat], seen : Seq(Answer), hung : BOOLEAN, gone : BOOLEAN,
   fault : {"none", "abrupt", "frame", "command"}]

WebTypes ==
  /\ service \in [closing : BOOLEAN, sent_done : BOOLEAN, init_received : BOOLEAN, callers : Int]
  /\ service.closing = service.sent_done
  /\ by_channel \in [Channels -> Sockets \cup {NoSocket}]
  /\ socket \in [Sockets -> SocketType] /\ browser \in [Sockets -> BrowserType]
  /\ up \in Seq(FromUp)
  /\ told \in [Channels -> Seq(Message)] /\ came \in [Channels -> Seq(Message)]

\* The frames that wait at a socket k with browser b: an init is before what
\* needs it, a hangup comes once, and an error is one that the browser made.
Waiting(k, b) ==
  /\ \A i \in DOMAIN k.incoming : k.incoming[i] \in Message =>
       k.close_received \/ k.init \/ \E j \in 1..(i - 1) : k.incoming[j] = [type |-> "init"]
  /\ k.io = "open" /\ ~b.gone /\ Has(b.seen, "init") =>
       k.close_received \/ k.init \/ \E j \in DOMAIN k.incoming : k.incoming[j] = [type |-> "init"]
  /\ \A i \in DOMAIN k.incoming : k.incoming[i].type = "invalid" => b.fault = "command"
  /\ \A i \in DOMAIN k.incoming : k.incoming[i].type = "malformed" => b.fault = "frame"
  /\ \A i \in DOMAIN k.incoming : k.incoming[i].type = "hangup" =>
       b.hung /\ ~k.close_received /\ \A j \in DOMAIN k.incoming : k.incoming[j].type = "hangup" => j = i
  /\ k.close_received => b.hung

\* The connection of socket k: as long as nothing goes wrong, only the browser
\* makes it close.
Line(k, b, done) ==
  /\ b.gone => b.fault = "abrupt"
  /\ k.timeout => k.close_sent
  /\ k.starting => ~k.handshake /\ ~k.close_sent /\ k.outgoing = <<>> /\ (k.io = "open" \/ done)
  /\ k.io = "none" => ~k.handshake /\ ~k.starting /\ b.seen = <<>> /\ \A c \in Channels : b.sent[c] = 0
  /\ k.io = "open" => k.tracked
  /\ done => k.io # "open" \/ k.close_sent
  /\ \A i \in DOMAIN k.outgoing : k.outgoing[i].type = "refusal" => ~k.handshake \/ done
  /\ b.fault = "none" /\ ~done /\ k.handshake =>
       /\ k.close_sent \/ k.io \in {"closing", "closed"} => k.close_received
       /\ \A i \in DOMAIN k.outgoing : k.outgoing[i].type = "hangup" => k.close_received

\* What the bridge has been told is of the form ToldOnce says.
Formed(t) == \A i \in DOMAIN t : /\ t[i].type = "open" <=> i = 1
                                 /\ t[i].type = "close" => i = Len(t)

\* What is told, t, and has come, r, of a channel agrees with the table of its socket.
Account(c, k, b, done, t, r) ==
  /\ ~k.close_received /\ ~done /\ c \in k.channels /\ b.fault # "command" => t # <<>> /\ ~Has(t, "close")
  /\ b.fault # "command" => Formed(t)
  /\ t # <<>> => k.handshake
  /\ b.fault = "none" /\ k.close_received /\ ~done => t = <<>> \/ Has(t, "close") \/ Has(r, "close")
  /\ t # <<>> /\ ~Has(t, "close") /\ ~Has(r, "close") /\ ~done /\ k.io # "closed" => c \in k.channels
  /\ r # <<>> => t # <<>>

\* What the browser of a channel has got of it, or will.
View(c, seen, outgoing) == Of(c, seen \o outgoing)

Shown(c, k, b, known, t, r) ==
  /\ IsPrefix(View(c, b.seen, k.outgoing), r)
  /\ State(k) = "OPEN" /\ (known \/ ~Has(t, "close")) => View(c, b.seen, k.outgoing) = r

StreamOf(c, k, b, done, known, t) ==
  Stream(k.incoming, c, b.sent[c], t, known, ~k.close_received /\ ~done, b.fault # "command",
         k.io = "open" /\ ~b.gone)

Chan(c, k, b, done, known, t, r) ==
  /\ StreamOf(c, k, b, done, known, t)
  /\ Account(c, k, b, done, t, r)
  /\ Shown(c, k, b, known, t, r)
  /\ c \in k.channels => known

\* A socket has nothing to do with the channels of others.
Foreign(c, k, b) ==
  /\ b.sent[c] = 0 /\ c \notin k.channels
  /\ \A i \in DOMAIN k.incoming : k.incoming[i] \notin Words(c)

\* What is under way from the bridge, on one channel.
Upward(c, t, r) ==
  /\ \A i \in DOMAIN up : up[i] \in Words(c) => t # <<>>
  /\ \A i \in DOMAIN up : up[i] = Msg("close", c) => \A j \in DOMAIN up : up[j] \in Words(c) => j <= i
  /\ Has(r, "close") => \A i \in DOMAIN up : up[i] \notin Words(c)
  /\ \A i \in DOMAIN r : r[i] \in Talk(c)

Sock(k, b, done) == Waiting(k, b) /\ Line(k, b, done)

WebInv ==
  /\ WebTypes
  /\ \A s \in Sockets : Sock(socket[s], browser[s], service.sent_done)
  /\ \A s \in Sockets, c \in Channels : Owner[c] # s => Foreign(c, socket[s], browser[s])
  /\ \A c \in Channels : by_channel[c] \in {NoSocket, Owner[c]}
  /\ \A c \in Channels : Chan(c, socket[Owner[c]], browser[Owner[c]], service.sent_done,
                              by_channel[c] # NoSocket, told[c], came[c])
  /\ \A c \in Channels : Upward(c, told[c], came[c])
-----------------------------------------------------------------------------
(* The operators on a socket keep its type and the invariant. *)

\* What a step of the connection leaves alone.
Same(k, q) ==
  /\ q.tracked = k.tracked /\ q.channels = k.channels /\ q.init = k.init /\ q.starting = k.starting
  /\ q.handshake = k.handshake /\ q.close_received = k.close_received

\* close_io_stream() changes the stream and nothing else.
LEMMA IoClosedIs ==
  ASSUME NEW k \in SocketType
  PROVE  /\ IoClosed(k) \in SocketType /\ Same(k, IoClosed(k)) /\ IoClosed(k).close_sent = k.close_sent
         /\ k.io # "open" => IoClosed(k) = k
         /\ k.io = "open" => /\ IoClosed(k).io = "closing" /\ ~IoClosed(k).timeout
                             /\ IoClosed(k).incoming = <<>> /\ IoClosed(k).outgoing = <<>>
<1>1. <<>> \in Seq(Frame) /\ <<>> \in Seq(Answer)
  OBVIOUS
<1> QED BY <1>1 DEF IoClosed, SocketType, Same

\* send_close_rfc6455() queues a close frame.
LEMMA CloseSentIs ==
  ASSUME NEW k \in SocketType, NEW last \in BOOLEAN
  PROVE  /\ CloseSent(k, last) \in SocketType /\ Same(k, CloseSent(k, last))
         /\ CloseSent(k, last).io = k.io /\ CloseSent(k, last).incoming = k.incoming
         /\ CloseSent(k, last).outgoing = Append(k.outgoing, Hangup(last))
         /\ CloseSent(k, last).close_sent /\ CloseSent(k, last).timeout = k.timeout
         /\ Hangup(last) \in Answer
<1>1. Hangup(last) \in Answer
  BY DEF Hangup, Answer
<1>2. k.outgoing \in Seq(Answer)
  BY DEF SocketType
<1>3. Append(k.outgoing, Hangup(last)) \in Seq(Answer)
  BY <1>1, <1>2, AppendProperties
<1> QED BY <1>1, <1>3 DEF CloseSent, SocketType, Same

\* web_socket_connection_close() queues a close frame with a timeout, or closes a stream without
\* handshake.
LEMMA OrderlyIs ==
  ASSUME NEW k \in SocketType
  PROVE  /\ ~k.handshake => Orderly(k) = IoClosed(k)
         /\ k.handshake =>
              /\ Orderly(k) \in SocketType /\ Same(k, Orderly(k))
              /\ Orderly(k).io = k.io /\ Orderly(k).incoming = k.incoming
              /\ Orderly(k).outgoing = Append(k.outgoing, Hangup(k.close_received))
              /\ Orderly(k).close_sent /\ Orderly(k).timeout
              /\ Hangup(k.close_received) \in Answer
<1>1. CASE ~k.handshake
  BY <1>1 DEF Orderly
<1>2. CASE k.handshake
  <2>1. k.close_received \in BOOLEAN
    BY DEF SocketType
  <2>2. PICK q : q = CloseSent(k, k.close_received)
    OBVIOUS
  <2>3. /\ q \in SocketType /\ Same(k, q) /\ q.io = k.io /\ q.incoming = k.incoming
        /\ q.outgoing = Append(k.outgoing, Hangup(k.close_received)) /\ q.close_sent
        /\ Hangup(k.close_received) \in Answer
    BY <2>1, <2>2, CloseSentIs
  <2>4. Orderly(k) = [q EXCEPT !.timeout = TRUE]
    BY <1>2, <2>2 DEF Orderly
  <2>5. PICK p : p = [q EXCEPT !.timeout = TRUE]
    OBVIOUS
  <2>6. /\ p \in SocketType /\ Same(q, p) /\ p.io = q.io /\ p.incoming = q.incoming
        /\ p.outgoing = q.outgoing /\ p.close_sent = q.close_sent /\ p.timeout
    BY <2>3, <2>5 DEF SocketType, Same
  <2>7. Same(k, p)
    BY <2>3, <2>6 DEF Same
  <2> QED BY <1>2, <2>3, <2>4, <2>5, <2>6, <2>7
<1> QED BY <1>1, <1>2

\* web_socket_connection_send() queues a frame if the socket is open.
LEMMA SentIs ==
  ASSUME NEW k \in SocketType, NEW m \in Answer
  PROVE  /\ State(k) # "OPEN" => Sent(k, m) = k
         /\ State(k) = "OPEN" =>
              /\ Sent(k, m) \in SocketType /\ Same(k, Sent(k, m)) /\ Sent(k, m).io = k.io
              /\ Sent(k, m).incoming = k.incoming /\ Sent(k, m).outgoing = Append(k.outgoing, m)
              /\ Sent(k, m).close_sent = k.close_sent /\ Sent(k, m).timeout = k.timeout
<1>1. k.outgoing \in Seq(Answer)
  BY DEF SocketType
<1>2. Append(k.outgoing, m) \in Seq(Answer)
  BY <1>1, AppendProperties
<1> QED BY <1>2 DEF Sent, SocketType, Same

\* What the states say of the connection.
LEMMA StateIs ==
  ASSUME NEW k \in SocketType
  PROVE  /\ State(k) = "OPEN" <=> k.io \notin {"closed", "closing"} /\ ~k.close_sent /\ k.handshake
         /\ State(k) = "CONNECTING" <=> k.io \notin {"closed", "closing"} /\ ~k.close_sent /\ ~k.handshake
         /\ State(k) \in {"CLOSED", "CLOSING", "OPEN", "CONNECTING"}
BY DEF State, SocketType

\* A step of one socket and its browser.
LEMMA OneSocket ==
  ASSUME WebInv, NEW s \in Sockets, NEW q \in SocketType, NEW d \in BrowserType,
         socket' = [socket EXCEPT ![s] = q], browser' = [browser EXCEPT ![s] = d],
         service' \in [closing : BOOLEAN, sent_done : BOOLEAN, init_received : BOOLEAN, callers : Int],
         service'.closing = service.closing, service'.sent_done = service.sent_done,
         UNCHANGED <<up, came>>,
         told' \in [Channels -> Seq(Message)], by_channel' \in [Channels -> Sockets \cup {NoSocket}],
         Sock(q, d, service.sent_done),
         \A c \in Channels : Owner[c] # s =>
           told'[c] = told[c] /\ by_channel'[c] = by_channel[c] /\ Foreign(c, q, d),
         \A c \in Channels : Owner[c] = s =>
           /\ by_channel'[c] \in {NoSocket, s}
           /\ told[c] # <<>> => told'[c] # <<>>
           /\ Chan(c, q, d, service.sent_done, by_channel'[c] # NoSocket, told'[c], came[c])
  PROVE  WebInv'
<1>1. socket \in [Sockets -> SocketType] /\ browser \in [Sockets -> BrowserType]
  BY DEF WebInv, WebTypes
<1>2. /\ socket' \in [Sockets -> SocketType] /\ browser' \in [Sockets -> BrowserType]
      /\ socket'[s] = q /\ browser'[s] = d
      /\ \A r \in Sockets : r # s => socket'[r] = socket[r] /\ browser'[r] = browser[r]
  BY <1>1
<1>3. WebTypes'
  BY <1>2 DEF WebInv, WebTypes
<1>4. \A r \in Sockets : Sock(socket'[r], browser'[r], service'.sent_done)
  BY <1>2 DEF WebInv
<1>5. \A r \in Sockets, c \in Channels : Owner[c] # r => Foreign(c, socket'[r], browser'[r])
  BY <1>2 DEF WebInv
<1>6. \A c \in Channels : by_channel'[c] \in {NoSocket, Owner[c]}
  BY DEF WebInv
<1>7. ASSUME NEW c \in Channels
      PROVE  Chan(c, socket'[Owner[c]], browser'[Owner[c]], service'.sent_done,
                  by_channel'[c] # NoSocket, told'[c], came'[c])
  <2>1. CASE Owner[c] = s
    BY <1>2, <2>1
  <2>2. CASE Owner[c] # s
    <3>1. Owner[c] \in Sockets
      BY WebServiceAssumption
    <3> QED BY <1>2, <2>2, <3>1 DEF WebInv
  <2> QED BY <2>1, <2>2
<1>8. \A c \in Channels : Upward(c, told[c], came[c])' 
  BY DEF WebInv, Upward
<1> QED BY <1>3, <1>4, <1>5, <1>6, <1>7, <1>8 DEF WebInv
-----------------------------------------------------------------------------
(* What a browser gets. *)

\* What has been seen, and what is queued.
LEMMA ViewIs ==
  ASSUME NEW a \in Seq(Answer), NEW o \in Seq(Answer), NEW c
  PROVE  View(c, a, o) = Cat(Of(c, a), Of(c, o)) /\ Of(c, a) \in Seq(Answer) /\ Of(c, o) \in Seq(Answer)
BY OfConcat, OfType DEF View, Cat

\* A view is made of frames for the browser.
LEMMA ViewType ==
  ASSUME NEW a \in Seq(Answer), NEW o \in Seq(Answer), NEW c
  PROVE  View(c, a, o) \in Seq(Answer)
<1>1. a \o o \in Seq(Answer)
  OBVIOUS
<1> QED BY <1>1, OfType DEF View

\* A frame is queued.
LEMMA ViewAppend ==
  ASSUME NEW a \in Seq(Answer), NEW o \in Seq(Answer), NEW m \in Answer, NEW c
  PROVE  View(c, a, Append(o, m)) = IF m \in Talk(c) THEN Append(View(c, a, o), m) ELSE View(c, a, o)
<1>1. App(Cat(a, o), m) = Cat(a, App(o, m)) /\ Cat(a, o) \in Seq(Answer)
  BY CatApp
<1>2. PICK w \in Seq(Answer) : w = Cat(a, o)
  BY <1>1
<1>3. Of(c, Append(w, m)) = IF m \in Talk(c) THEN Append(Of(c, w), m) ELSE Of(c, w)
  BY OfAppend
<1>4. View(c, a, Append(o, m)) = Of(c, Append(w, m))
  BY <1>1, <1>2 DEF View, Cat, App
<1>5. View(c, a, o) = Of(c, w)
  BY <1>2 DEF View, Cat
<1> QED BY <1>3, <1>4, <1>5

\* A message of the channel is queued.
LEMMA ViewTalk ==
  ASSUME NEW a \in Seq(Answer), NEW o \in Seq(Answer), NEW m \in Answer, NEW c, m \in Talk(c)
  PROVE  View(c, a, App(o, m)) = App(View(c, a, o), m)
<1>1. View(c, a, Append(o, m)) = Append(View(c, a, o), m)
  BY ViewAppend
<1> QED BY <1>1 DEF App

\* Writing a frame only moves it from the queue to the browser.
LEMMA ViewMove ==
  ASSUME NEW a \in Seq(Answer), NEW o \in Seq(Answer), o # <<>>, NEW c
  PROVE  View(c, Append(a, Head(o)), Tail(o)) = View(c, a, o)
<1>1. Append(a, Head(o)) \o Tail(o) = a \o o
  OBVIOUS
<1> QED BY <1>1 DEF View

\* When the queue is lost the browser has a prefix.
LEMMA ViewCut ==
  ASSUME NEW a \in Seq(Answer), NEW o \in Seq(Answer), NEW c, NEW r \in Seq(Message),
         IsPrefix(View(c, a, o), r)
  PROVE  IsPrefix(View(c, a, <<>>), r)
<1>1. r \in Seq(Answer)
  <2>1. Message \subseteq Answer
    BY DEF Answer
  <2> QED BY <2>1, SeqMonotonic
<1>2. PICK u \in Seq(Answer), v \in Seq(Answer) : u = Of(c, a) /\ v = Of(c, o) /\ View(c, a, o) = Cat(u, v)
  BY ViewIs
<1>3. IsPrefix(u \o v, r)
  BY <1>2 DEF Cat
<1>4. IsPrefix(u, r)
  BY <1>1, <1>3, PrefixShorter
<1>5. a \o <<>> = a
  BY ConcatEmptySeq
<1> QED BY <1>2, <1>4, <1>5 DEF View

\* A frame of no channel, before the others.
LEMMA ViewFront ==
  ASSUME NEW a \in Seq(Answer), NEW o \in Seq(Answer), NEW m \in Answer, NEW c, m \notin Talk(c),
         NEW w, w = Cat(<<m>>, o)
  PROVE  View(c, a, w) = View(c, a, o)
<1>0. w = <<m>> \o o
  BY DEF Cat
<1>1. <<m>> \in Seq(Answer) /\ <<m>> \o o \in Seq(Answer)
  OBVIOUS
<1>2. Of(c, <<m>> \o o) = Of(c, <<m>>) \o Of(c, o)
  BY <1>1, OfConcat
<1>3. Of(c, <<m>>) = <<>> /\ Of(c, o) \in Seq(Answer)
  BY OfOne, OfType
<1>4. Of(c, <<m>> \o o) = Of(c, o)
  BY <1>2, <1>3, ConcatEmptySeq
<1>5. w \in Seq(Answer)
  BY <1>0, <1>1
<1>6. View(c, a, w) = Cat(Of(c, a), Of(c, w)) /\ View(c, a, o) = Cat(Of(c, a), Of(c, o))
  BY <1>5, ViewIs
<1> QED BY <1>0, <1>4, <1>6
-----------------------------------------------------------------------------
\* Closing the stream keeps what holds of a channel,
LEMMA IoClosedChan ==
  ASSUME NEW k \in SocketType, NEW b \in BrowserType, NEW c \in Channels, NEW done, NEW known,
         NEW t \in Seq(Message), NEW r \in Seq(Message), Chan(c, k, b, done, known, t, r)
  PROVE  Chan(c, IoClosed(k), b, done, known, t, r)
<1>1. PICK q : q = IoClosed(k)
  OBVIOUS
<1>2. CASE k.io # "open"
  BY <1>2, IoClosedIs
<1>3. CASE k.io = "open"
  <2>1. /\ q \in SocketType /\ Same(k, q) /\ q.close_sent = k.close_sent
        /\ q.io = "closing" /\ q.incoming = <<>> /\ q.outgoing = <<>>
    BY <1>1, <1>3, IoClosedIs
  <2>2. StreamOf(c, q, b, done, known, t)
    <3>1. Stream(<<>>, c, b.sent[c], t, known, ~k.close_received /\ ~done, b.fault # "command", FALSE)
      BY StreamEmpty DEF Chan, StreamOf
    <3> QED BY <2>1, <3>1, StreamWeaken DEF StreamOf, Same
  <2>3. Account(c, q, b, done, t, r)
    BY <1>3, <2>1 DEF Chan, Account, Same
  <2>4. Shown(c, q, b, known, t, r)
    <3>1. b.seen \in Seq(Answer) /\ k.outgoing \in Seq(Answer)
      BY DEF BrowserType, SocketType
    <3>2. IsPrefix(View(c, b.seen, <<>>), r)
      BY <3>1, ViewCut DEF Chan, Shown
    <3>3. State(q) # "OPEN"
      BY <2>1, StateIs
    <3> QED BY <2>1, <3>2, <3>3 DEF Shown
  <2>5. c \in q.channels => known
    BY <2>1 DEF Chan, Same
  <2> QED BY <1>1, <2>2, <2>3, <2>4, <2>5 DEF Chan
<1> QED BY <1>2, <1>3

\* of a socket,
LEMMA IoClosedSock ==
  ASSUME NEW k \in SocketType, NEW b \in BrowserType, NEW done, Sock(k, b, done),
         ~k.starting \/ done, b.fault = "none" /\ ~done /\ k.handshake => k.close_received
  PROVE  Sock(IoClosed(k), b, done)
<1>1. PICK q : q = IoClosed(k)
  OBVIOUS
<1>2. CASE k.io # "open"
  BY <1>2, IoClosedIs
<1>3. CASE k.io = "open"
  <2>1. /\ q \in SocketType /\ Same(k, q) /\ q.close_sent = k.close_sent /\ ~q.timeout
        /\ q.io = "closing" /\ q.incoming = <<>> /\ q.outgoing = <<>>
    BY <1>1, <1>3, IoClosedIs
  <2>2. DOMAIN q.incoming = {} /\ DOMAIN q.outgoing = {}
    BY <2>1
  <2>3. Waiting(q, b)
    BY <2>1, <2>2 DEF Sock, Waiting, Same
  <2>4. Line(q, b, done)
    BY <2>1, <2>2 DEF Sock, Line, Same
  <2> QED BY <1>1, <2>3, <2>4 DEF Sock
<1> QED BY <1>2, <1>3

\* and of the channels of other sockets.
LEMMA IoClosedForeign ==
  ASSUME NEW k \in SocketType, NEW b, NEW c, Foreign(c, k, b)
  PROVE  Foreign(c, IoClosed(k), b)
<1>1. PICK q : q = IoClosed(k)
  OBVIOUS
<1>2. CASE k.io # "open"
  BY <1>2, IoClosedIs
<1>3. CASE k.io = "open"
  <2>1. Same(k, q) /\ q.incoming = <<>>
    BY <1>1, <1>3, IoClosedIs
  <2>2. DOMAIN q.incoming = {}
    BY <2>1
  <2> QED BY <1>1, <2>1, <2>2 DEF Foreign, Same
<1> QED BY <1>2, <1>3

\* A frame more to send, that is not of this channel.
LEMMA OutChan ==
  ASSUME NEW k \in SocketType, NEW q \in SocketType, NEW b \in BrowserType, NEW c \in Channels,
         NEW done, NEW known, NEW t \in Seq(Message), NEW r \in Seq(Message), Chan(c, k, b, done, known, t, r),
         NEW m \in Answer, m \notin Talk(c), Same(k, q), q.io = k.io, q.incoming = k.incoming,
         q.outgoing = Append(k.outgoing, m), k.close_sent => q.close_sent
  PROVE  Chan(c, q, b, done, known, t, r)
<1>1. StreamOf(c, q, b, done, known, t)
  BY DEF Chan, StreamOf, Same
<1>2. Account(c, q, b, done, t, r)
  BY DEF Chan, Account, Same
<1>3. View(c, b.seen, q.outgoing) = View(c, b.seen, k.outgoing)
  <2>1. b.seen \in Seq(Answer) /\ k.outgoing \in Seq(Answer)
    BY DEF BrowserType, SocketType
  <2> QED BY <2>1, ViewAppend
<1>4. State(q) = "OPEN" => State(k) = "OPEN"
  BY StateIs DEF Same
<1>5. Shown(c, q, b, known, t, r)
  BY <1>3, <1>4 DEF Chan, Shown
<1> QED BY <1>1, <1>2, <1>5 DEF Chan, Same

\* A frame more to send has nothing to do with other channels,
LEMMA OutForeign ==
  ASSUME NEW k, NEW q, NEW b, NEW c, Foreign(c, k, b), Same(k, q), q.incoming = k.incoming
  PROVE  Foreign(c, q, b)
BY DEF Foreign, Same

\* and keeps what holds of a socket, if a close frame is sent for a reason.
LEMMA OutSock ==
  ASSUME NEW k \in SocketType, NEW q \in SocketType, NEW b \in BrowserType, NEW done, Sock(k, b, done),
         NEW m \in Answer, Same(k, q), q.io = k.io, q.incoming = k.incoming,
         q.outgoing = Append(k.outgoing, m), q.timeout => q.close_sent, ~k.starting,
         k.close_sent => q.close_sent, m.type # "refusal",
         (q.close_sent = k.close_sent /\ m.type # "hangup")
           \/ (b.fault = "none" /\ ~done /\ k.handshake => k.close_received)
  PROVE  Sock(q, b, done)
<1>1. Waiting(q, b)
  BY DEF Sock, Waiting, Same
<1>2. k.outgoing \in Seq(Answer)
  BY DEF SocketType
<1>3. \A i \in DOMAIN q.outgoing : (i \in DOMAIN k.outgoing /\ q.outgoing[i] = k.outgoing[i]) \/ q.outgoing[i] = m
  <2>1. PICK o : o = Append(k.outgoing, m)
    OBVIOUS
  <2>2. /\ Len(k.outgoing) \in Nat /\ DOMAIN k.outgoing = 1..Len(k.outgoing)
        /\ DOMAIN o = 1..(Len(k.outgoing) + 1)
        /\ \A i \in 1..Len(k.outgoing) : o[i] = k.outgoing[i]
        /\ o[Len(k.outgoing) + 1] = m
    BY <1>2, <2>1, Appends
  <2> QED BY <2>1, <2>2
<1>4. Line(q, b, done)
  BY <1>3 DEF Sock, Line, Same
<1> QED BY <1>1, <1>4 DEF Sock

\* What waits does not depend on the rest of the socket.
LEMMA WaitingSame ==
  ASSUME NEW p, NEW q, NEW b, Waiting(p, b), q.io = p.io, q.incoming = p.incoming,
         q.close_received = p.close_received, q.init = p.init
  PROVE  Waiting(q, b)
BY DEF Waiting

\* A close frame is of no channel.
LEMMA HangupQuiet ==
  ASSUME NEW last \in BOOLEAN, NEW c \in Channels
  PROVE  Hangup(last) \in Answer /\ Hangup(last).type = "hangup" /\ Hangup(last) \notin Talk(c)
<1>1. Hangup(last).type = "hangup" /\ Hangup(last) \in Answer
  BY DEF Hangup, Answer
<1>2. \A m \in Talk(c) : m.type # "hangup"
  BY WordsApart DEF Talk
<1> QED BY <1>1, <1>2

\* An orderly close keeps what holds of a channel,
LEMMA OrderlyChan ==
  ASSUME NEW k \in SocketType, NEW b \in BrowserType, NEW c \in Channels, NEW done, NEW known,
         NEW t \in Seq(Message), NEW r \in Seq(Message), Chan(c, k, b, done, known, t, r)
  PROVE  Chan(c, Orderly(k), b, done, known, t, r)
<1>1. CASE ~k.handshake
  BY <1>1, OrderlyIs, IoClosedChan
<1>2. CASE k.handshake
  <2>1. PICK q : q = Orderly(k)
    OBVIOUS
  <2>2. /\ q \in SocketType /\ Same(k, q) /\ q.io = k.io /\ q.incoming = k.incoming
        /\ q.outgoing = Append(k.outgoing, Hangup(k.close_received)) /\ q.close_sent
    BY <1>2, <2>1, OrderlyIs
  <2>3. Hangup(k.close_received) \in Answer /\ Hangup(k.close_received) \notin Talk(c)
    BY HangupQuiet DEF SocketType
  <2>4. Chan(c, q, b, done, known, t, r)
    BY <2>2, <2>3, OutChan
  <2> QED BY <2>1, <2>4
<1> QED BY <1>1, <1>2

\* the type,
LEMMA OrderlyType ==
  ASSUME NEW k \in SocketType
  PROVE  Orderly(k) \in SocketType /\ Same(k, Orderly(k)) /\ (Orderly(k).io # "open" \/ Orderly(k).close_sent)
<1>1. CASE ~k.handshake
  BY <1>1, OrderlyIs, IoClosedIs
<1>2. CASE k.handshake
  BY <1>2, OrderlyIs
<1> QED BY <1>1, <1>2

\* what holds of a socket, when the browser has asked for it or something went wrong,
LEMMA OrderlySock ==
  ASSUME NEW k \in SocketType, NEW b \in BrowserType, NEW done, Sock(k, b, done),
         ~k.starting \/ done, b.fault = "none" /\ ~done /\ k.handshake => k.close_received
  PROVE  Sock(Orderly(k), b, done)
<1>1. CASE ~k.handshake
  BY <1>1, OrderlyIs, IoClosedSock
<1>2. CASE k.handshake
  <2>1. PICK q : q = Orderly(k)
    OBVIOUS
  <2>2. /\ q \in SocketType /\ Same(k, q) /\ q.io = k.io /\ q.incoming = k.incoming
        /\ q.outgoing = Append(k.outgoing, Hangup(k.close_received)) /\ q.close_sent
    BY <1>2, <2>1, OrderlyIs
  <2>3. Hangup(k.close_received) \in Answer /\ Hangup(k.close_received).type # "refusal"
    BY DEF SocketType, Hangup, Answer
  <2>4. Sock(q, b, done)
    BY <1>2, <2>2, <2>3, OutSock DEF Sock, Line
  <2> QED BY <2>1, <2>4
<1> QED BY <1>1, <1>2

\* and of the channels of other sockets.
LEMMA OrderlyForeign ==
  ASSUME NEW k \in SocketType, NEW b, NEW c, Foreign(c, k, b)
  PROVE  Foreign(c, Orderly(k), b)
<1>1. CASE ~k.handshake
  BY <1>1, OrderlyIs, IoClosedForeign
<1>2. CASE k.handshake
  BY <1>2, OrderlyIs, OutForeign
<1> QED BY <1>1, <1>2

\* The next frame is taken.
Drop(k) == [k EXCEPT !.incoming = Tail(@)]

\* Taking a frame changes nothing else.
LEMMA DropIs ==
  ASSUME NEW k \in SocketType, k.incoming # <<>>
  PROVE  /\ Drop(k) \in SocketType /\ Same(k, Drop(k)) /\ Drop(k).io = k.io
         /\ Drop(k).close_sent = k.close_sent /\ Drop(k).timeout = k.timeout
         /\ Drop(k).outgoing = k.outgoing /\ Drop(k).incoming = Tail(k.incoming)
         /\ Head(k.incoming) \in Frame
<1>1. k.incoming \in Seq(Frame)
  BY DEF SocketType
<1>2. Tail(k.incoming) \in Seq(Frame) /\ Head(k.incoming) \in Frame
  BY <1>1, HeadTailProperties
<1> QED BY <1>2 DEF Drop, SocketType, Same

\* The frames that are left, and where they were.
LEMMA DropTail ==
  ASSUME NEW k \in SocketType, k.incoming # <<>>
  PROVE  /\ Head(k.incoming) = k.incoming[1] /\ 1 \in DOMAIN k.incoming
         /\ \A i \in DOMAIN Drop(k).incoming :
              /\ i \in Nat \ {0} /\ i + 1 \in DOMAIN k.incoming /\ i + 1 # 1
              /\ Drop(k).incoming[i] = k.incoming[i + 1]
         /\ \A i \in DOMAIN k.incoming : i # 1 =>
              i - 1 \in DOMAIN Drop(k).incoming /\ Drop(k).incoming[i - 1] = k.incoming[i]
<1>1. k.incoming \in Seq(Frame)
  BY DEF SocketType
<1>2. PICK F, G : F = k.incoming /\ G = Tail(k.incoming)
  OBVIOUS
<1>3. /\ Head(F) = F[1] /\ Len(F) \in Nat /\ Len(F) >= 1
      /\ DOMAIN F = 1..Len(F) /\ DOMAIN G = 1..(Len(F) - 1)
      /\ \A i \in 1..(Len(F) - 1) : G[i] = F[i + 1]
  BY <1>1, <1>2, Tails
<1>4. Drop(k).incoming = G
  BY <1>2, DropIs
<1>5. \A i \in DOMAIN G : i \in Nat \ {0} /\ i + 1 \in DOMAIN F /\ i + 1 # 1 /\ G[i] = F[i + 1]
  BY <1>3
<1>6. \A i \in DOMAIN F : i # 1 => i - 1 \in DOMAIN G /\ G[i - 1] = F[i]
  BY <1>3
<1> QED BY <1>2, <1>3, <1>4, <1>5, <1>6

\* A frame that is taken is of no channel of other sockets.
LEMMA DropForeign ==
  ASSUME NEW k \in SocketType, k.incoming # <<>>, NEW b, NEW c, Foreign(c, k, b)
  PROVE  Foreign(c, Drop(k), b) /\ Head(k.incoming) \notin Words(c)
<1>1. Same(k, Drop(k))
  BY DropIs
<1> QED BY <1>1, DropTail DEF Foreign, Same

\* Taking a frame that is not of the channel, or that nobody heeds, keeps what holds of the channel.
LEMMA DropChan ==
  ASSUME NEW k \in SocketType, k.incoming # <<>>, NEW b \in BrowserType, NEW c \in Channels,
         NEW done \in BOOLEAN, NEW known, NEW t \in Seq(Message), NEW r \in Seq(Message),
         Chan(c, k, b, done, known, t, r), Head(k.incoming) \notin Words(c) \/ k.close_received \/ done
  PROVE  Chan(c, Drop(k), b, done, known, t, r)
<1>1. PICK q : q = Drop(k)
  OBVIOUS
<1>2. /\ q \in SocketType /\ Same(k, q) /\ q.io = k.io /\ q.close_sent = k.close_sent
      /\ q.outgoing = k.outgoing /\ q.incoming = Tail(k.incoming)
  BY <1>1, DropIs
<1>3. StreamOf(c, q, b, done, known, t)
  <2>1. k.incoming \in Seq(Frame)
    BY DEF SocketType
  <2>2. Stream(Tail(k.incoming), c, b.sent[c], t, known, ~k.close_received /\ ~done, b.fault # "command",
               k.io = "open" /\ ~b.gone)
    BY <2>1, StreamSkip DEF Chan, StreamOf
  <2> QED BY <1>2, <2>2 DEF StreamOf, Same
<1>4. Account(c, q, b, done, t, r)
  BY <1>2 DEF Chan, Account, Same
<1>5. Shown(c, q, b, known, t, r)
  <2>1. State(q) = State(k)
    BY <1>2 DEF State, Same
  <2> QED BY <1>2, <2>1 DEF Chan, Shown
<1> QED BY <1>1, <1>2, <1>3, <1>4, <1>5 DEF Chan, Same

\* q has its frames from k, but for the first.
LEMMA DropSock ==
  ASSUME NEW k \in SocketType, k.incoming # <<>>, NEW b \in BrowserType, NEW done, Sock(k, b, done),
         Head(k.incoming) # [type |-> "init"] \/ k.close_received \/ k.init
  PROVE  Sock(Drop(k), b, done)
<1>1. PICK q : q = Drop(k)
  OBVIOUS
<1>2. /\ Same(k, q) /\ q.io = k.io /\ q.close_sent = k.close_sent /\ q.timeout = k.timeout
      /\ q.outgoing = k.outgoing
  BY <1>1, DropIs
<1>3. /\ Head(k.incoming) = k.incoming[1]
      /\ \A i \in DOMAIN q.incoming :
              /\ i \in Nat \ {0} /\ i + 1 \in DOMAIN k.incoming /\ i + 1 # 1
              /\ q.incoming[i] = k.incoming[i + 1]
      /\ \A i \in DOMAIN k.incoming : i # 1 =>
              i - 1 \in DOMAIN q.incoming /\ q.incoming[i - 1] = k.incoming[i]
  BY <1>1, DropTail
<1>4. Line(q, b, done)
  BY <1>2 DEF Sock, Line, Same
<1>5. ASSUME NEW i \in DOMAIN q.incoming, q.incoming[i] \in Message, ~k.close_received, ~k.init
      PROVE  \E j \in 1..(i - 1) : q.incoming[j] = [type |-> "init"]
  <2>1. k.incoming[i + 1] \in Message /\ i + 1 \in DOMAIN k.incoming
    BY <1>3, <1>5
  <2>2. PICK j \in 1..i : k.incoming[j] = [type |-> "init"]
    <3>1. \A x \in DOMAIN k.incoming : k.incoming[x] \in Message =>
            \E j \in 1..(x - 1) : k.incoming[j] = [type |-> "init"]
      BY <1>5 DEF Sock, Waiting
    <3>2. PICK x : x = i + 1
      OBVIOUS
    <3>3. \E j \in 1..(x - 1) : k.incoming[j] = [type |-> "init"]
      BY <2>1, <3>1, <3>2
    <3>4. x - 1 = i
      BY <1>3, <3>2
    <3> QED BY <3>3, <3>4
  <2>3. j # 1
    BY <1>3, <1>5, <2>2
  <2>4. j \in DOMAIN k.incoming /\ j - 1 \in 1..(i - 1)
    <3>1. k.incoming \in Seq(Frame)
      BY DEF SocketType
    <3>2. DOMAIN k.incoming = 1..Len(k.incoming)
      BY <3>1
    <3> QED BY <1>3, <2>1, <2>2, <2>3, <3>1, <3>2
  <2> QED BY <1>3, <2>2, <2>3, <2>4
<1>6. k.io = "open" /\ ~b.gone /\ Has(b.seen, "init") /\ ~k.close_received /\ ~k.init =>
        \E j \in DOMAIN q.incoming : q.incoming[j] = [type |-> "init"]
  BY <1>3 DEF Sock, Waiting
<1>7. \A i \in DOMAIN q.incoming :
        /\ q.incoming[i].type = "invalid" => b.fault = "command"
        /\ q.incoming[i].type = "malformed" => b.fault = "frame"
        /\ q.incoming[i].type = "hangup" =>
             b.hung /\ ~k.close_received /\ \A j \in DOMAIN q.incoming : q.incoming[j].type = "hangup" => j = i
  BY <1>3 DEF Sock, Waiting
<1>8. k.close_received => b.hung
  BY DEF Sock, Waiting
<1>9. Waiting(q, b)
  BY <1>2, <1>5, <1>6, <1>7, <1>8 DEF Waiting, Same
<1> QED BY <1>1, <1>4, <1>9 DEF Sock
-----------------------------------------------------------------------------
(* The actions. *)

\* The parts of the invariant that are about one socket.
LEMMA Pieces ==
  ASSUME WebInv, NEW s \in Sockets
  PROVE  /\ socket[s] \in SocketType /\ browser[s] \in BrowserType
         /\ service.closing = service.sent_done /\ service.sent_done \in BOOLEAN
         /\ service \in [closing : BOOLEAN, sent_done : BOOLEAN, init_received : BOOLEAN, callers : Int]
         /\ Sock(socket[s], browser[s], service.sent_done)
         /\ told \in [Channels -> Seq(Message)] /\ by_channel \in [Channels -> Sockets \cup {NoSocket}]
         /\ \A c \in Channels : Owner[c] # s => Foreign(c, socket[s], browser[s])
         /\ \A c \in Channels : Owner[c] = s =>
              /\ by_channel[c] \in {NoSocket, s} /\ told[c] \in Seq(Message) /\ came[c] \in Seq(Message)
              /\ Chan(c, socket[s], browser[s], service.sent_done, by_channel[c] # NoSocket, told[c], came[c])
BY DEF WebInv, WebTypes

\* Counting callers changes nothing else.
LEMMA CallersOnly ==
  ASSUME NEW v \in [closing : BOOLEAN, sent_done : BOOLEAN, init_received : BOOLEAN, callers : Int], NEW n \in Int
  PROVE  /\ [v EXCEPT !.callers = n]
              \in [closing : BOOLEAN, sent_done : BOOLEAN, init_received : BOOLEAN, callers : Int]
         /\ [v EXCEPT !.callers = n].closing = v.closing /\ [v EXCEPT !.callers = n].sent_done = v.sent_done
OBVIOUS

\* A step that tells the bridge nothing.
LEMMA QuietStep ==
  ASSUME WebInv, NEW s \in Sockets, NEW q \in SocketType, NEW d \in BrowserType,
         socket' = [socket EXCEPT ![s] = q], browser' = [browser EXCEPT ![s] = d],
         service' \in [closing : BOOLEAN, sent_done : BOOLEAN, init_received : BOOLEAN, callers : Int],
         service'.closing = service.closing, service'.sent_done = service.sent_done,
         UNCHANGED <<by_channel, up, told, came>>,
         Sock(q, d, service.sent_done),
         \A c \in Channels : Owner[c] # s => Foreign(c, q, d),
         \A c \in Channels : Owner[c] = s =>
           Chan(c, q, d, service.sent_done, by_channel[c] # NoSocket, told[c], came[c])
  PROVE  WebInv'
<1>1. told' \in [Channels -> Seq(Message)] /\ by_channel' \in [Channels -> Sockets \cup {NoSocket}]
  BY Pieces
<1>2. \A c \in Channels : Owner[c] # s =>
           told'[c] = told[c] /\ by_channel'[c] = by_channel[c] /\ Foreign(c, q, d)
  OBVIOUS
<1>3. \A c \in Channels : Owner[c] = s =>
           /\ by_channel'[c] \in {NoSocket, s}
           /\ told[c] # <<>> => told'[c] # <<>>
           /\ Chan(c, q, d, service.sent_done, by_channel'[c] # NoSocket, told'[c], came[c])
  BY Pieces
<1> QED BY <1>1, <1>2, <1>3, OneSocket

\* A step that changes no more than one socket.
LEMMA SocketOnly ==
  ASSUME WebInv, NEW s \in Sockets, NEW q \in SocketType,
         socket' = [socket EXCEPT ![s] = q], UNCHANGED <<service, by_channel, browser, up, told, came>>,
         Sock(q, browser[s], service.sent_done),
         \A c \in Channels : Owner[c] # s => Foreign(c, q, browser[s]),
         \A c \in Channels : Owner[c] = s =>
           Chan(c, q, browser[s], service.sent_done, by_channel[c] # NoSocket, told[c], came[c])
  PROVE  WebInv'
<1>1. browser' = [browser EXCEPT ![s] = browser[s]]
  BY DEF WebInv, WebTypes
<1>2. PICK d \in BrowserType : d = browser[s]
  BY Pieces
<1>3. /\ service' \in [closing : BOOLEAN, sent_done : BOOLEAN, init_received : BOOLEAN, callers : Int]
      /\ service'.closing = service.closing /\ service'.sent_done = service.sent_done
  BY Pieces
<1> QED BY <1>1, <1>2, <1>3, QuietStep

\* At the start nothing is told and nothing has come.
LEMMA WebInitInv ==
  ASSUME WebServiceInit
  PROVE  WebInv
<1>1. NewSocket \in SocketType
  BY DEF NewSocket, SocketType
<1>2. NewBrowser \in BrowserType
  BY DEF NewBrowser, BrowserType
<1>3. WebTypes
  BY <1>1, <1>2, WebServiceAssumption DEF WebServiceInit, WebTypes
<1>4. DOMAIN NewSocket.incoming = {} /\ DOMAIN NewSocket.outgoing = {} /\ NewSocket.outgoing = <<>> /\ NewSocket.io = "none"
      /\ NewSocket.channels = {}
      /\ ~NewSocket.close_received /\ ~NewSocket.timeout /\ ~NewSocket.handshake /\ ~NewSocket.starting
  BY DEF NewSocket
<1>5. NewBrowser.seen = <<>> /\ NewBrowser.sent = [c \in Channels |-> 0] /\ ~NewBrowser.gone /\ NewBrowser.fault = "none"
  BY DEF NewBrowser
<1>6. Sock(NewSocket, NewBrowser, FALSE)
  BY <1>4, <1>5 DEF Sock, Waiting, Line
<1>7. ASSUME NEW c \in Channels
      PROVE  Foreign(c, NewSocket, NewBrowser) /\ Chan(c, NewSocket, NewBrowser, FALSE, FALSE, <<>>, <<>>)
  <2>1. NewBrowser.sent[c] = 0
    BY <1>5
  <2>2. ~Has(<<>>, "close")
    BY DEF Has
  <2>3. StreamOf(c, NewSocket, NewBrowser, FALSE, FALSE, <<>>)
    BY <1>4, <2>1, <2>2 DEF StreamOf, Stream
  <2>4. Account(c, NewSocket, NewBrowser, FALSE, <<>>, <<>>)
    BY <1>4, <2>2 DEF Account, Formed
  <2>5. View(c, <<>>, <<>>) = <<>>
    <3>1. <<>> \o <<>> = <<>>
      OBVIOUS
    <3> QED BY <3>1, OfEmpty DEF View
  <2>6. IsPrefix(<<>>, <<>>)
    <3>1. <<>> \in Seq(Message)
      OBVIOUS
    <3> QED BY <3>1, PrefixSelf
  <2>7. Shown(c, NewSocket, NewBrowser, FALSE, <<>>, <<>>)
    BY <1>4, <1>5, <2>5, <2>6 DEF Shown
  <2> QED BY <1>4, <2>1, <2>3, <2>4, <2>7 DEF Foreign, Chan
<1>8. \A c \in Channels : told[c] = <<>> /\ came[c] = <<>> /\ by_channel[c] = NoSocket /\ Owner[c] \in Sockets
  BY WebServiceAssumption DEF WebServiceInit
<1>9. \A s \in Sockets : socket[s] = NewSocket /\ browser[s] = NewBrowser
  BY DEF WebServiceInit
<1>10. service.sent_done = FALSE /\ up = <<>>
  BY DEF WebServiceInit
<1>11. \A c \in Channels : Upward(c, told[c], came[c])
  BY <1>8, <1>10 DEF Upward, Has
<1> QED BY <1>3, <1>6, <1>7, <1>8, <1>9, <1>10, <1>11 DEF WebInv

\* A new socket has nothing yet (cockpit_web_service_socket).
LEMMA ConnectInv ==
  ASSUME WebInv, NEW s \in Sockets, Connect(s)
  PROVE  WebInv'
<1> DEFINE k == socket[s]
           b == browser[s]
<1>1. PICK q : q = [k EXCEPT !.tracked = TRUE, !.starting = TRUE, !.io = "open"]
  OBVIOUS
<1>2. /\ k = NewSocket /\ ~service.closing /\ socket' = [socket EXCEPT ![s] = q]
      /\ service' = [service EXCEPT !.callers = @ + 1]
      /\ UNCHANGED <<by_channel, browser, up, told, came>>
  BY <1>1 DEF Connect
<1>3. /\ k \in SocketType /\ b \in BrowserType /\ Sock(k, b, service.sent_done) /\ ~service.sent_done
      /\ service \in [closing : BOOLEAN, sent_done : BOOLEAN, init_received : BOOLEAN, callers : Int]
  BY <1>2, Pieces
<1>4. /\ k.incoming = <<>> /\ k.outgoing = <<>> /\ k.io = "none" /\ k.channels = {} /\ ~k.handshake
      /\ ~k.close_sent /\ ~k.close_received /\ ~k.init /\ ~k.timeout
  BY <1>2 DEF NewSocket
<1>5. /\ q \in SocketType /\ q.tracked /\ q.starting /\ q.io = "open" /\ q.channels = {} /\ ~q.handshake
      /\ ~q.close_sent /\ ~q.close_received /\ ~q.init /\ ~q.timeout
      /\ q.incoming = <<>> /\ q.outgoing = <<>>
  BY <1>1, <1>3, <1>4 DEF SocketType
<1>6. DOMAIN q.incoming = {} /\ DOMAIN q.outgoing = {}
  BY <1>5
<1>7. b.seen = <<>> /\ (\A c \in Channels : b.sent[c] = 0) /\ (b.gone => b.fault = "abrupt")
  BY <1>3, <1>4 DEF Sock, Line
<1>8. Sock(q, b, service.sent_done)
  BY <1>3, <1>5, <1>6, <1>7 DEF Sock, Line, Waiting, Has
<1>9. /\ browser' = [browser EXCEPT ![s] = b]
      /\ service' \in [closing : BOOLEAN, sent_done : BOOLEAN, init_received : BOOLEAN, callers : Int]
      /\ service'.closing = service.closing /\ service'.sent_done = service.sent_done
  <2>1. browser' = [browser EXCEPT ![s] = b]
    BY <1>2 DEF WebInv, WebTypes
  <2>2. service.callers + 1 \in Int
    BY <1>3
  <2> QED BY <1>2, <1>3, <2>1, <2>2, CallersOnly
<1>10. ASSUME NEW c \in Channels, Owner[c] # s PROVE Foreign(c, q, b)
  BY <1>5, <1>6, <1>7 DEF Foreign
<1>11. ASSUME NEW c \in Channels, Owner[c] = s
       PROVE  Chan(c, q, b, service.sent_done, by_channel[c] # NoSocket, told[c], came[c])
  <2>1. Chan(c, k, b, service.sent_done, by_channel[c] # NoSocket, told[c], came[c])
    BY <1>11, Pieces
  <2>2. told[c] = <<>> /\ ~Has(told[c], "close")
    BY <1>4, <2>1 DEF Chan, Account, Has
  <2>3. StreamOf(c, q, b, service.sent_done, by_channel[c] # NoSocket, told[c])
    BY <1>4, <1>5, <1>6, <1>7, <2>1, <2>2 DEF Chan, StreamOf, Stream
  <2>4. Account(c, q, b, service.sent_done, told[c], came[c])
    BY <1>4, <1>5, <2>1, <2>2 DEF Chan, Account
  <2>5. Shown(c, q, b, by_channel[c] # NoSocket, told[c], came[c])
    <3>1. State(q) # "OPEN"
      BY <1>5, StateIs
    <3> QED BY <1>4, <1>5, <2>1, <3>1 DEF Chan, Shown
  <2> QED BY <1>5, <2>3, <2>4, <2>5 DEF Chan
<1> HIDE DEF k, b
<1> QED BY <1>2, <1>3, <1>5, <1>8, <1>9, <1>10, <1>11, QuietStep

\* The stream ends, by the timeout after a close or because it is lost.
LEMMA IoTimeoutInv ==
  ASSUME WebInv, NEW s \in Sockets, IoTimeout(s) \/ Lost(s)
  PROVE  WebInv'
<1>1. PICK q : q = IoClosed(socket[s])
  OBVIOUS
<1>2. socket' = [socket EXCEPT ![s] = q] /\ UNCHANGED <<service, by_channel, browser, up, told, came>>
  BY <1>1 DEF IoTimeout, Lost
<1>3. Sock(socket[s], browser[s], service.sent_done) /\ socket[s] \in SocketType /\ browser[s] \in BrowserType
  BY Pieces
<1>4. /\ ~socket[s].starting
      /\ browser[s].fault = "none" /\ ~service.sent_done /\ socket[s].handshake => socket[s].close_received
  BY <1>3 DEF IoTimeout, Lost, Sock, Line
<1>5. q \in SocketType /\ Sock(q, browser[s], service.sent_done)
  BY <1>1, <1>3, <1>4, IoClosedIs, IoClosedSock
<1>6. \A c \in Channels : Owner[c] # s => Foreign(c, q, browser[s])
  BY <1>1, <1>3, Pieces, IoClosedForeign
<1>7. \A c \in Channels : Owner[c] = s =>
           Chan(c, q, browser[s], service.sent_done, by_channel[c] # NoSocket, told[c], came[c])
  BY <1>1, <1>3, Pieces, IoClosedChan
<1> QED BY <1>2, <1>5, <1>6, <1>7, SocketOnly

\* Sending keeps what holds of a socket,
LEMMA SentKeeps ==
  ASSUME NEW k \in SocketType, NEW b \in BrowserType, NEW done, Sock(k, b, done),
         NEW m \in Answer, m.type \notin {"hangup", "refusal"}
  PROVE  Sent(k, m) \in SocketType /\ Same(k, Sent(k, m)) /\ Sock(Sent(k, m), b, done)
<1>1. CASE State(k) # "OPEN"
  BY <1>1, SentIs DEF Same
<1>2. CASE State(k) = "OPEN"
  <2>1. PICK q : q = Sent(k, m)
    OBVIOUS
  <2>2. /\ q \in SocketType /\ Same(k, q) /\ q.io = k.io /\ q.incoming = k.incoming
        /\ q.outgoing = Append(k.outgoing, m) /\ q.close_sent = k.close_sent /\ q.timeout = k.timeout
    BY <1>2, <2>1, SentIs
  <2>3. ~k.starting /\ (k.timeout => k.close_sent)
    BY <1>2, StateIs DEF Sock, Line
  <2>4. Sock(q, b, done)
    BY <2>2, <2>3, OutSock
  <2> QED BY <2>1, <2>2, <2>4
<1> QED BY <1>1, <1>2

\* of the channels that the message is not of,
LEMMA SentChan ==
  ASSUME NEW k \in SocketType, NEW b \in BrowserType, NEW c \in Channels, NEW done, NEW known,
         NEW t \in Seq(Message), NEW r \in Seq(Message), Chan(c, k, b, done, known, t, r),
         NEW m \in Answer, m \notin Talk(c)
  PROVE  Chan(c, Sent(k, m), b, done, known, t, r)
<1>1. CASE State(k) # "OPEN"
  BY <1>1, SentIs
<1>2. CASE State(k) = "OPEN"
  <2>1. PICK q : q = Sent(k, m)
    OBVIOUS
  <2>2. /\ q \in SocketType /\ Same(k, q) /\ q.io = k.io /\ q.incoming = k.incoming
        /\ q.outgoing = Append(k.outgoing, m) /\ q.close_sent = k.close_sent
    BY <1>2, <2>1, SentIs
  <2>3. Chan(c, q, b, done, known, t, r)
    BY <2>2, OutChan
  <2> QED BY <2>1, <2>3
<1> QED BY <1>1, <1>2

\* and of the channels of other sockets.
LEMMA SentForeign ==
  ASSUME NEW k \in SocketType, NEW b, NEW c, NEW m \in Answer, Foreign(c, k, b)
  PROVE  Foreign(c, Sent(k, m), b)
<1>1. CASE State(k) # "OPEN"
  BY <1>1, SentIs
<1>2. CASE State(k) = "OPEN"
  BY <1>2, SentIs, OutForeign
<1> QED BY <1>1, <1>2

\* The handshake, with the init that follows it or the refusal (on_idle_start_input).
LEMMA StartInv ==
  ASSUME WebInv, NEW s \in Sockets, NEW ok \in BOOLEAN, Start(s, ok)
  PROVE  WebInv'
<1>1. PICK k, b, done : k = socket[s] /\ b = browser[s] /\ done = service.sent_done
  OBVIOUS
<1>2. PICK p, m : /\ p = [k EXCEPT !.starting = FALSE, !.handshake = ok]
                  /\ m = [Hangup(TRUE) EXCEPT !.type = "refusal"]
  OBVIOUS
<1>3. PICK q : q = IF ok THEN Sent(p, [type |-> "init"]) ELSE [p EXCEPT !.outgoing = <<m>>]
  OBVIOUS
<1>4. k.starting /\ socket' = [socket EXCEPT ![s] = q] /\ UNCHANGED <<service, by_channel, browser, up, told, came>>
  BY <1>1, <1>2, <1>3 DEF Start
<1>5. /\ k \in SocketType /\ b \in BrowserType /\ done \in BOOLEAN /\ Sock(k, b, done)
      /\ \A c \in Channels : Owner[c] # s => Foreign(c, k, b)
      /\ \A c \in Channels : Owner[c] = s =>
           /\ told[c] \in Seq(Message) /\ came[c] \in Seq(Message)
           /\ Chan(c, k, b, done, by_channel[c] # NoSocket, told[c], came[c])
  BY <1>1, Pieces
<1>6. ~k.handshake /\ ~k.close_sent /\ k.outgoing = <<>> /\ (k.io = "open" \/ done) /\ k.io # "none"
  BY <1>4, <1>5 DEF Sock, Line
<1>7. /\ p \in SocketType /\ ~p.starting /\ p.handshake = ok /\ p.tracked = k.tracked /\ p.channels = k.channels
      /\ p.init = k.init /\ p.close_sent = k.close_sent /\ p.close_received = k.close_received
      /\ p.timeout = k.timeout /\ p.io = k.io /\ p.incoming = k.incoming /\ p.outgoing = k.outgoing
  BY <1>2, <1>5 DEF SocketType
<1>8. DOMAIN p.outgoing = {}
  BY <1>6, <1>7
<1>9. Sock(p, b, done)
  BY <1>5, <1>6, <1>7, <1>8 DEF Sock, Waiting, Line
<1>10. \A c \in Channels : Owner[c] # s => Foreign(c, p, b)
  BY <1>5, <1>7 DEF Foreign
<1>11. ASSUME NEW c \in Channels, Owner[c] = s
       PROVE  Chan(c, p, b, done, by_channel[c] # NoSocket, told[c], came[c])
  <2>1. /\ told[c] \in Seq(Message) /\ came[c] \in Seq(Message)
        /\ Chan(c, k, b, done, by_channel[c] # NoSocket, told[c], came[c])
    BY <1>5, <1>11
  <2>2. told[c] = <<>> /\ came[c] = <<>>
    BY <1>6, <2>1 DEF Chan, Account
  <2>3. StreamOf(c, p, b, done, by_channel[c] # NoSocket, told[c])
    BY <1>7, <2>1 DEF Chan, StreamOf
  <2>4. Account(c, p, b, done, told[c], came[c])
    BY <1>7, <2>1, <2>2 DEF Chan, Account
  <2>5. View(c, b.seen, k.outgoing) = <<>>
    <3>1. b.seen \in Seq(Answer) /\ k.outgoing \in Seq(Answer)
      BY <1>5 DEF BrowserType, SocketType
    <3>2. View(c, b.seen, k.outgoing) \in Seq(Answer)
      BY <3>1, ViewType
    <3> QED BY <2>1, <2>2, <3>2, PrefixEmpty DEF Chan, Shown
  <2>6. Shown(c, p, b, by_channel[c] # NoSocket, told[c], came[c])
    BY <1>7, <2>1, <2>2, <2>5 DEF Chan, Shown
  <2> QED BY <1>7, <2>1, <2>3, <2>4, <2>6 DEF Chan
<1>12. CASE ok
  <2>1. PICK i : i = [type |-> "init"]
    OBVIOUS
  <2>2. i \in Answer /\ i.type \notin {"hangup", "refusal"} /\ \A c \in Channels : i \notin Talk(c)
    BY <2>1 DEF Answer, Talk, Msg
  <2>3. q = Sent(p, i)
    BY <1>3, <1>12, <2>1
  <2>4. q \in SocketType /\ Sock(q, b, done)
    BY <1>5, <1>7, <1>9, <2>2, <2>3, SentKeeps
  <2>5. \A c \in Channels : Owner[c] # s => Foreign(c, q, b)
    BY <1>7, <1>10, <2>2, <2>3, SentForeign
  <2>6. \A c \in Channels : Owner[c] = s => Chan(c, q, b, done, by_channel[c] # NoSocket, told[c], came[c])
    BY <1>5, <1>7, <1>11, <2>2, <2>3, SentChan
  <2> QED BY <1>1, <1>4, <2>4, <2>5, <2>6, SocketOnly
<1>13. CASE ~ok
  <2>1. m = [type |-> "refusal", last |-> TRUE]
    BY <1>2 DEF Hangup
  <2>2. m \in Answer /\ m.type = "refusal" /\ \A c \in Channels : m \notin Talk(c)
    BY <2>1 DEF Answer, Talk, Msg
  <2>3. Append(p.outgoing, m) = <<m>> /\ <<m>> \in Seq(Answer) /\ DOMAIN <<m>> = {1} /\ <<m>>[1] = m
    BY <1>6, <1>7, <2>2
  <2>4. /\ q \in SocketType /\ Same(p, q) /\ q.io = p.io /\ q.incoming = p.incoming
        /\ q.close_sent = p.close_sent /\ q.timeout = p.timeout /\ q.outgoing = <<m>>
    BY <1>3, <1>7, <1>13, <2>3 DEF SocketType, Same
  <2>5. Sock(q, b, done)
    BY <1>7, <1>9, <1>13, <2>2, <2>3, <2>4 DEF Sock, Waiting, Line, Same
  <2>6. \A c \in Channels : Owner[c] # s => Foreign(c, q, b)
    BY <1>10, <2>4, OutForeign
  <2>7. \A c \in Channels : Owner[c] = s => Chan(c, q, b, done, by_channel[c] # NoSocket, told[c], came[c])
    BY <1>5, <1>7, <1>11, <2>2, <2>3, <2>4, OutChan
  <2> QED BY <1>1, <1>4, <2>4, <2>5, <2>6, <2>7, SocketOnly
<1> QED BY <1>12, <1>13

\* A frame is written, and the stream closed after the last one (on_web_socket_output).
LEMMA OutputInv ==
  ASSUME WebInv, NEW s \in Sockets, Output(s)
  PROVE  WebInv'
<1>1. PICK k, b, done : k = socket[s] /\ b = browser[s] /\ done = service.sent_done
  OBVIOUS
<1>2. PICK m, i : m = Head(k.outgoing) /\ i = [type |-> "init"]
  OBVIOUS
<1>3. PICK F : F = IF m.type = "init" /\ ~b.gone THEN Append(k.incoming, i) ELSE k.incoming
  OBVIOUS
<1>4. PICK p, d : p = [k EXCEPT !.outgoing = Tail(k.outgoing), !.incoming = F] /\ d = [b EXCEPT !.seen = Append(b.seen, m)]
  OBVIOUS
<1>5. PICK q : q = IF m.type \in {"hangup", "refusal"} /\ m.last THEN IoClosed(p) ELSE p
  OBVIOUS
<1>6. /\ k \in SocketType /\ b \in BrowserType /\ done \in BOOLEAN /\ Sock(k, b, done)
      /\ \A c \in Channels : Owner[c] # s => Foreign(c, k, b)
      /\ \A c \in Channels : Owner[c] = s =>
           /\ told[c] \in Seq(Message) /\ came[c] \in Seq(Message)
           /\ Chan(c, k, b, done, by_channel[c] # NoSocket, told[c], came[c])
  BY <1>1, Pieces
<1>7. /\ k.incoming \in Seq(Frame) /\ k.outgoing \in Seq(Answer) /\ b.seen \in Seq(Answer) /\ i \in Frame
  BY <1>2, <1>6 DEF SocketType, BrowserType, Frame
<1>8. /\ k.io = "open" /\ k.outgoing # <<>> /\ socket' = [socket EXCEPT ![s] = q]
      /\ browser' = [browser EXCEPT ![s] = d] /\ UNCHANGED <<service, by_channel, up, told, came>>
  <2>1. /\ k.io = "open" /\ k.outgoing # <<>> /\ UNCHANGED <<service, by_channel, up, told, came>>
        /\ browser' = [browser EXCEPT ![s].seen = Append(@, m)]
    BY <1>1, <1>2 DEF Output
  <2>2. browser' = [browser EXCEPT ![s] = d]
    BY <1>1, <1>4, <2>1 DEF WebInv, WebTypes
  <2>3. socket' = [socket EXCEPT ![s] = q]
    BY <1>1, <1>2, <1>3, <1>4, <1>5 DEF Output
  <2> QED BY <2>1, <2>2, <2>3
<1>9. m \in Answer /\ Tail(k.outgoing) \in Seq(Answer) /\ F \in Seq(Frame) /\ Append(b.seen, m) \in Seq(Answer)
  <2>1. m \in Answer /\ Tail(k.outgoing) \in Seq(Answer)
    BY <1>2, <1>7, <1>8, HeadTailProperties
  <2>2. Append(k.incoming, i) \in Seq(Frame)
    BY <1>7, AppendProperties
  <2>3. Append(b.seen, m) \in Seq(Answer)
    BY <1>7, <2>1, AppendProperties
  <2> QED BY <1>3, <1>7, <2>1, <2>2, <2>3
<1>10. /\ p \in SocketType /\ Same(k, p) /\ p.io = k.io /\ p.close_sent = k.close_sent /\ p.timeout = k.timeout
       /\ p.outgoing = Tail(k.outgoing) /\ p.incoming = F
  BY <1>4, <1>6, <1>9 DEF SocketType, Same
<1>11. /\ d \in BrowserType /\ d.sent = b.sent /\ d.hung = b.hung /\ d.gone = b.gone /\ d.fault = b.fault
       /\ d.seen = Append(b.seen, m)
  BY <1>4, <1>6, <1>9 DEF BrowserType
<1>12. /\ \A j \in DOMAIN F : F[j] = i \/ (j \in DOMAIN k.incoming /\ F[j] = k.incoming[j])
       /\ \A j \in DOMAIN k.incoming : j \in DOMAIN F /\ F[j] = k.incoming[j]
       /\ m.type = "init" /\ ~b.gone => \E j \in DOMAIN F : F[j] = i
  <2>1. CASE m.type = "init" /\ ~b.gone
    <3>1. PICK n \in Nat : /\ DOMAIN k.incoming = 1..n /\ DOMAIN F = 1..(n + 1)
                           /\ \A j \in 1..n : F[j] = k.incoming[j]
                           /\ F[n + 1] = i
      <4>1. /\ Len(k.incoming) \in Nat /\ DOMAIN k.incoming = 1..Len(k.incoming)
            /\ DOMAIN F = 1..(Len(k.incoming) + 1)
            /\ \A j \in 1..Len(k.incoming) : F[j] = k.incoming[j]
            /\ F[Len(k.incoming) + 1] = i
        BY <1>3, <1>7, <2>1, Appends
      <4> QED BY <4>1
    <3>2. n + 1 \in DOMAIN F
      BY <3>1
    <3>3. \A j \in DOMAIN F : F[j] = i \/ (j \in DOMAIN k.incoming /\ F[j] = k.incoming[j])
      BY <3>1
    <3>4. \A j \in DOMAIN k.incoming : j \in DOMAIN F /\ F[j] = k.incoming[j]
      BY <3>1
    <3> QED BY <3>1, <3>2, <3>3, <3>4
  <2>2. CASE ~(m.type = "init" /\ ~b.gone)
    BY <1>3, <2>2
  <2> QED BY <2>1, <2>2
<1>13. ~k.starting
  BY <1>6, <1>8 DEF Sock, Line
<1>14. /\ m \in {k.outgoing[j] : j \in DOMAIN k.outgoing}
       /\ \A j \in DOMAIN p.outgoing : \E l \in DOMAIN k.outgoing : p.outgoing[j] = k.outgoing[l]
  <2>1. /\ m = k.outgoing[1] /\ Len(k.outgoing) \in Nat /\ Len(k.outgoing) >= 1
        /\ DOMAIN k.outgoing = 1..Len(k.outgoing) /\ DOMAIN Tail(k.outgoing) = 1..(Len(k.outgoing) - 1)
        /\ \A j \in 1..(Len(k.outgoing) - 1) : Tail(k.outgoing)[j] = k.outgoing[j + 1]
    BY <1>2, <1>7, <1>8, Tails
  <2>2. ASSUME NEW j \in DOMAIN p.outgoing PROVE \E l \in DOMAIN k.outgoing : p.outgoing[j] = k.outgoing[l]
    <3>1. j + 1 \in DOMAIN k.outgoing /\ p.outgoing[j] = k.outgoing[j + 1]
      BY <1>10, <2>1, <2>2
    <3> QED BY <3>1
  <2> QED BY <2>1, <2>2
<1>15. Line(p, d, done)
  BY <1>6, <1>8, <1>10, <1>11, <1>13, <1>14 DEF Sock, Line, Same
<1>16. i.type = "init" /\ i \notin Message /\ \A c \in Channels : i \notin Words(c)
  BY <1>2 DEF Message, Words, Msg
<1>17. Waiting(p, d)
  <2>1. Has(d.seen, "init") => Has(b.seen, "init") \/ m.type = "init"
    BY <1>7, <1>9, <1>11, HasAppend
  <2>2. p.io = "open" /\ ~d.gone /\ Has(d.seen, "init") =>
          p.close_received \/ p.init \/ \E j \in DOMAIN F : F[j] = [type |-> "init"]
    BY <1>2, <1>6, <1>10, <1>11, <1>12, <2>1 DEF Sock, Waiting, Same
  <2>3. ASSUME NEW j \in DOMAIN F, F[j] \in Message
        PROVE  p.close_received \/ p.init \/ \E l \in 1..(j - 1) : F[l] = [type |-> "init"]
    <3>1. j \in DOMAIN k.incoming /\ F[j] = k.incoming[j]
      BY <1>12, <1>16, <2>3
    <3>2. DOMAIN k.incoming = 1..Len(k.incoming) /\ Len(k.incoming) \in Nat
      BY <1>7
    <3>3. \A l \in 1..(j - 1) : l \in DOMAIN k.incoming
      BY <3>1, <3>2
    <3>4. k.close_received \/ k.init \/ \E l \in 1..(j - 1) : k.incoming[l] = [type |-> "init"]
      BY <1>6, <2>3, <3>1 DEF Sock, Waiting
    <3> QED BY <1>10, <1>12, <3>3, <3>4 DEF Same
  <2>4. \A j \in DOMAIN F :
          /\ F[j].type = "invalid" => d.fault = "command"
          /\ F[j].type = "malformed" => d.fault = "frame"
          /\ F[j].type = "hangup" =>
               d.hung /\ ~p.close_received /\ \A l \in DOMAIN F : F[l].type = "hangup" => l = j
    BY <1>6, <1>10, <1>11, <1>12, <1>16 DEF Sock, Waiting, Same
  <2>5. p.close_received => d.hung
    BY <1>6, <1>10, <1>11 DEF Sock, Waiting, Same
  <2> QED BY <1>10, <2>2, <2>3, <2>4, <2>5 DEF Waiting
<1>18. ASSUME NEW c \in Channels, Owner[c] # s PROVE Foreign(c, p, d)
  BY <1>6, <1>10, <1>11, <1>12, <1>16, <1>18 DEF Foreign, Same
<1>19. ASSUME NEW c \in Channels, Owner[c] = s
       PROVE  Chan(c, p, d, done, by_channel[c] # NoSocket, told[c], came[c])
  <2>1. Chan(c, k, b, done, by_channel[c] # NoSocket, told[c], came[c])
    BY <1>6, <1>19
  <2>2. StreamOf(c, p, d, done, by_channel[c] # NoSocket, told[c])
    <3>1. Stream(F, c, b.sent[c], told[c], by_channel[c] # NoSocket, ~k.close_received /\ ~done,
                 b.fault # "command", k.io = "open" /\ ~b.gone)
      BY <1>3, <1>7, <1>16, <2>1, StreamQuiet DEF Chan, StreamOf
    <3> QED BY <1>10, <1>11, <3>1 DEF StreamOf, Same
  <2>3. Account(c, p, d, done, told[c], came[c])
    BY <1>10, <1>11, <2>1 DEF Chan, Account, Same
  <2>4. Shown(c, p, d, by_channel[c] # NoSocket, told[c], came[c])
    <3>1. View(c, d.seen, p.outgoing) = View(c, b.seen, k.outgoing)
      BY <1>2, <1>7, <1>8, <1>10, <1>11, ViewMove
    <3>2. State(p) = State(k)
      BY <1>10 DEF State, Same
    <3> QED BY <2>1, <3>1, <3>2 DEF Chan, Shown
  <2> QED BY <1>10, <2>1, <2>2, <2>3, <2>4 DEF Chan, Same
<1>20. /\ service' \in [closing : BOOLEAN, sent_done : BOOLEAN, init_received : BOOLEAN, callers : Int]
       /\ service'.closing = service.closing /\ service'.sent_done = service.sent_done
  BY <1>8, Pieces
<1>21. CASE q = p
  BY <1>1, <1>8, <1>10, <1>11, <1>15, <1>17, <1>18, <1>19, <1>20, <1>21, QuietStep DEF Sock
<1>22. CASE q # p
  <2>1. q = IoClosed(p) /\ m.type \in {"hangup", "refusal"}
    BY <1>5, <1>22
  <2>2. ~p.starting /\ (d.fault = "none" /\ ~done /\ p.handshake => p.close_received)
    BY <1>6, <1>10, <1>11, <1>13, <1>14, <2>1 DEF Sock, Line, Same
  <2>3. q \in SocketType /\ Sock(q, d, done)
    BY <1>6, <1>10, <1>11, <1>15, <1>17, <2>1, <2>2, IoClosedIs, IoClosedSock DEF Sock
  <2>4. \A c \in Channels : Owner[c] # s => Foreign(c, q, d)
    BY <1>10, <1>18, <2>1, IoClosedForeign
  <2>5. \A c \in Channels : Owner[c] = s => Chan(c, q, d, done, by_channel[c] # NoSocket, told[c], came[c])
    BY <1>6, <1>10, <1>11, <1>19, <2>1, IoClosedChan
  <2> QED BY <1>1, <1>8, <1>11, <1>20, <2>3, <2>4, <2>5, QuietStep
<1> QED BY <1>21, <1>22

\* A socket leaves the tables (on_web_socket_close).
LEMMA DestroyInv ==
  ASSUME WebInv, NEW s \in Sockets, Destroy(s)
  PROVE  WebInv'
<1>1. PICK k, b, done : k = socket[s] /\ b = browser[s] /\ done = service.sent_done
  OBVIOUS
<1>2. PICK q : q = [k EXCEPT !.io = "closed", !.tracked = FALSE, !.channels = {}]
  OBVIOUS
<1>3. /\ k.io = "closing" /\ socket' = [socket EXCEPT ![s] = q]
      /\ by_channel' = [c \in Channels |-> IF c \in k.channels THEN NoSocket ELSE by_channel[c]]
      /\ service' = [service EXCEPT !.callers = @ - 1] /\ UNCHANGED <<browser, up, told, came>>
  BY <1>1, <1>2 DEF Destroy
<1>4. /\ k \in SocketType /\ b \in BrowserType /\ done \in BOOLEAN /\ Sock(k, b, done)
      /\ service \in [closing : BOOLEAN, sent_done : BOOLEAN, init_received : BOOLEAN, callers : Int]
      /\ told \in [Channels -> Seq(Message)] /\ by_channel \in [Channels -> Sockets \cup {NoSocket}]
      /\ \A c \in Channels : Owner[c] # s => Foreign(c, k, b)
      /\ \A c \in Channels : Owner[c] = s =>
           /\ by_channel[c] \in {NoSocket, s}
           /\ Chan(c, k, b, done, by_channel[c] # NoSocket, told[c], came[c])
  BY <1>1, Pieces
<1>5. /\ q \in SocketType /\ q.io = "closed" /\ q.channels = {} /\ q.init = k.init /\ q.starting = k.starting
      /\ q.handshake = k.handshake /\ q.close_received = k.close_received /\ q.close_sent = k.close_sent
      /\ q.timeout = k.timeout /\ q.incoming = k.incoming /\ q.outgoing = k.outgoing
  BY <1>2, <1>4 DEF SocketType
<1>6. Sock(q, b, done)
  BY <1>3, <1>4, <1>5 DEF Sock, Waiting, Line
<1>7. /\ service' \in [closing : BOOLEAN, sent_done : BOOLEAN, init_received : BOOLEAN, callers : Int]
      /\ service'.closing = service.closing /\ service'.sent_done = service.sent_done
  <2>1. service.callers - 1 \in Int
    BY <1>4
  <2> QED BY <1>3, <1>4, <2>1, CallersOnly
<1>8. browser' = [browser EXCEPT ![s] = b]
  BY <1>1, <1>3 DEF WebInv, WebTypes
<1>9. told' \in [Channels -> Seq(Message)] /\ by_channel' \in [Channels -> Sockets \cup {NoSocket}]
  BY <1>3, <1>4
<1>10. \A c \in Channels : Owner[c] # s =>
           told'[c] = told[c] /\ by_channel'[c] = by_channel[c] /\ Foreign(c, q, b)
  BY <1>3, <1>4, <1>5 DEF Foreign
<1>11. ASSUME NEW c \in Channels, Owner[c] = s
       PROVE  /\ by_channel'[c] \in {NoSocket, s}
              /\ told[c] # <<>> => told'[c] # <<>>
              /\ Chan(c, q, b, done, by_channel'[c] # NoSocket, told'[c], came[c])
  <2>1. /\ Chan(c, k, b, done, by_channel[c] # NoSocket, told[c], came[c]) /\ by_channel[c] \in {NoSocket, s}
        /\ told'[c] = told[c]
    BY <1>3, <1>4, <1>11
  <2>2. by_channel'[c] # NoSocket => by_channel[c] # NoSocket
    BY <1>3
  <2>3. StreamOf(c, q, b, done, by_channel'[c] # NoSocket, told[c])
    BY <1>3, <1>5, <2>1, <2>2, StreamWeaken DEF Chan, StreamOf
  <2>4. Account(c, q, b, done, told[c], came[c])
    BY <1>5, <2>1 DEF Chan, Account
  <2>5. Shown(c, q, b, by_channel'[c] # NoSocket, told[c], came[c])
    <3>1. State(q) # "OPEN"
      BY <1>5, StateIs
    <3> QED BY <1>5, <2>1, <3>1 DEF Chan, Shown
  <2>6. by_channel'[c] \in {NoSocket, s}
    BY <1>3, <2>1
  <2> QED BY <1>5, <2>1, <2>3, <2>4, <2>5, <2>6 DEF Chan
<1> QED BY <1>1, <1>3, <1>4, <1>5, <1>6, <1>7, <1>8, <1>9, <1>10, <1>11, OneSocket, ZenonT(40)
-----------------------------------------------------------------------------
(* The browser sends. *)

\* What becomes of a browser that sends x.
Sending(b, d, x) ==
  /\ d.seen = b.seen /\ d.gone = b.gone
  /\ IF x.type = "hangup" THEN d.hung ELSE d.hung = b.hung
  /\ b.fault # "none" => d.fault = b.fault
  /\ x.type = "invalid" => d.fault = "command"
  /\ x.type = "malformed" => d.fault = "frame"

\* A frame of the browser is under way, and nothing else changes.
LEMMA TakesIs ==
  ASSUME NEW k \in SocketType, NEW x \in Frame, NEW q, q = [k EXCEPT !.incoming = Append(k.incoming, x)]
  PROVE  /\ q \in SocketType /\ Same(k, q) /\ q.io = k.io /\ q.close_sent = k.close_sent
         /\ q.timeout = k.timeout /\ q.outgoing = k.outgoing /\ q.incoming = Append(k.incoming, x)
         /\ \E n \in Nat : /\ DOMAIN k.incoming = 1..n /\ DOMAIN q.incoming = 1..(n + 1)
                           /\ \A j \in 1..n : q.incoming[j] = k.incoming[j]
                           /\ q.incoming[n + 1] = x
<1>1. k.incoming \in Seq(Frame)
  BY DEF SocketType
<1>2. Append(k.incoming, x) \in Seq(Frame)
  BY <1>1, AppendProperties
<1>3. /\ q \in SocketType /\ Same(k, q) /\ q.io = k.io /\ q.close_sent = k.close_sent
      /\ q.timeout = k.timeout /\ q.outgoing = k.outgoing /\ q.incoming = Append(k.incoming, x)
  BY <1>2 DEF SocketType, Same
<1>4. /\ Len(k.incoming) \in Nat /\ DOMAIN k.incoming = 1..Len(k.incoming)
      /\ DOMAIN q.incoming = 1..(Len(k.incoming) + 1)
      /\ \A j \in 1..Len(k.incoming) : q.incoming[j] = k.incoming[j]
      /\ q.incoming[Len(k.incoming) + 1] = x
  BY <1>1, <1>3, Appends
<1> QED BY <1>3, <1>4

\* It keeps what holds of the socket,
LEMMA TakesSock ==
  ASSUME NEW k \in SocketType, NEW b \in BrowserType, NEW d \in BrowserType, NEW done, Sock(k, b, done),
         NEW x \in Frame, Sending(b, d, x), k.io = "open", ~b.gone, ~b.hung, Has(b.seen, "init"),
         NEW q, q = [k EXCEPT !.incoming = Append(k.incoming, x)]
  PROVE  Sock(q, d, done)
<1>1. /\ Same(k, q) /\ q.io = k.io /\ q.close_sent = k.close_sent
      /\ q.timeout = k.timeout /\ q.outgoing = k.outgoing
  BY TakesIs
<1>2. PICK n \in Nat : /\ DOMAIN k.incoming = 1..n /\ DOMAIN q.incoming = 1..(n + 1)
                       /\ \A j \in 1..n : q.incoming[j] = k.incoming[j]
                       /\ q.incoming[n + 1] = x
  BY TakesIs
<1>3. Line(q, d, done)
  BY <1>1 DEF Sock, Line, Same, Sending
<1>4. ~k.close_received /\ \A i \in DOMAIN k.incoming : k.incoming[i].type # "hangup"
  BY DEF Sock, Waiting
<1>5. k.init \/ \E j \in 1..n : q.incoming[j] = [type |-> "init"]
  BY <1>2, <1>4 DEF Sock, Waiting
<1>6. ASSUME NEW i \in DOMAIN q.incoming, q.incoming[i] \in Message, ~k.init
      PROVE  \E j \in 1..(i - 1) : q.incoming[j] = [type |-> "init"]
  <2>1. CASE i = n + 1
    BY <1>5, <1>6, <2>1
  <2>2. CASE i # n + 1
    <3>1. i \in 1..n
      BY <1>2, <2>2
    <3>2. PICK j \in 1..(i - 1) : k.incoming[j] = [type |-> "init"]
      BY <1>2, <1>4, <1>6, <3>1 DEF Sock, Waiting
    <3>3. j \in 1..n
      BY <3>1, <3>2
    <3> QED BY <1>2, <3>2, <3>3
  <2> QED BY <2>1, <2>2
<1>7. \A j \in 1..n : j \in DOMAIN q.incoming
  BY <1>2
<1>8. \A i \in DOMAIN q.incoming :
        /\ q.incoming[i].type = "invalid" => d.fault = "command"
        /\ q.incoming[i].type = "malformed" => d.fault = "frame"
        /\ q.incoming[i].type = "hangup" => i = n + 1 /\ d.hung
  <2>1. \A i \in DOMAIN q.incoming : i = n + 1 \/ i \in 1..n
    BY <1>2
  <2> QED BY <1>2, <1>4, <2>1 DEF Sock, Waiting, Sending
<1>9. Waiting(q, d)
  BY <1>1, <1>4, <1>5, <1>6, <1>7, <1>8 DEF Waiting, Same
<1> QED BY <1>3, <1>9 DEF Sock

\* of the channels of other sockets,
LEMMA TakesForeign ==
  ASSUME NEW k \in SocketType, NEW b \in BrowserType, NEW d \in BrowserType, NEW x \in Frame, NEW c,
         Foreign(c, k, b), d.sent[c] = b.sent[c], x \notin Words(c),
         NEW q, q = [k EXCEPT !.incoming = Append(k.incoming, x)]
  PROVE  Foreign(c, q, d)
<1>1. Same(k, q)
  BY TakesIs
<1>2. PICK n \in Nat : /\ DOMAIN k.incoming = 1..n /\ DOMAIN q.incoming = 1..(n + 1)
                       /\ \A j \in 1..n : q.incoming[j] = k.incoming[j]
                       /\ q.incoming[n + 1] = x
  BY TakesIs
<1>3. \A i \in DOMAIN q.incoming : i = n + 1 \/ i \in 1..n
  BY <1>2
<1> QED BY <1>1, <1>2, <1>3 DEF Foreign, Same

\* and of its channels, if it continues their streams.
LEMMA TakesChan ==
  ASSUME NEW k \in SocketType, NEW b \in BrowserType, NEW d \in BrowserType, NEW c \in Channels,
         NEW done, NEW known, NEW t \in Seq(Message), NEW r \in Seq(Message),
         Chan(c, k, b, done, known, t, r), NEW x \in Frame, Sending(b, d, x),
         NEW q, q = [k EXCEPT !.incoming = Append(k.incoming, x)],
         \/ x \notin Words(c) /\ d.sent[c] = b.sent[c]
         \/ Stream(Append(k.incoming, x), c, d.sent[c], t, known, ~k.close_received /\ ~done,
                   b.fault # "command", k.io = "open" /\ ~b.gone)
  PROVE  Chan(c, q, d, done, known, t, r)
<1>1. /\ q \in SocketType /\ Same(k, q) /\ q.io = k.io /\ q.close_sent = k.close_sent
      /\ q.outgoing = k.outgoing /\ q.incoming = Append(k.incoming, x)
  BY TakesIs
<1>2. Stream(Append(k.incoming, x), c, d.sent[c], t, known, ~k.close_received /\ ~done,
                   b.fault # "command", k.io = "open" /\ ~b.gone)
  <2>1. k.incoming \in Seq(Frame)
    BY DEF SocketType
  <2> QED BY <2>1, StreamQuiet DEF Chan, StreamOf
<1>3. StreamOf(c, q, d, done, known, t)
  <2>1. d.fault # "command" => b.fault # "command"
    BY DEF Sending
  <2>2. /\ q.incoming = Append(k.incoming, x) /\ q.close_received = k.close_received /\ q.io = k.io
        /\ d.gone = b.gone
    BY <1>1 DEF Same, Sending
  <2>3. Stream(Append(k.incoming, x), c, d.sent[c], t, known, ~k.close_received /\ ~done,
                   d.fault # "command", k.io = "open" /\ ~b.gone)
    BY <1>2, <2>1 DEF Stream
  <2> QED BY <2>2, <2>3 DEF StreamOf
<1>4. Account(c, q, d, done, t, r)
  BY <1>1 DEF Chan, Account, Same, Sending
<1>5. Shown(c, q, d, known, t, r)
  <2>1. State(q) = State(k)
    BY <1>1 DEF State, Same
  <2> QED BY <1>1, <2>1 DEF Chan, Shown, Sending
<1> QED BY <1>1, <1>3, <1>4, <1>5 DEF Chan, Same

\* A browser that may send, sends x, and counts it.
LEMMA TakesInv ==
  ASSUME WebInv, NEW s \in Sockets, NEW x \in Frame, NEW d \in BrowserType,
         Speaks(s), Knows(s, "init"), Sending(browser[s], d, x),
         socket' = [socket EXCEPT ![s].incoming = Append(@, x)], browser' = [browser EXCEPT ![s] = d],
         UNCHANGED <<service, by_channel, up, told, came>>,
         \A c \in Channels :
           \/ x \notin Words(c) /\ d.sent[c] = browser[s].sent[c]
           \/ Owner[c] = s /\ Stream(Append(socket[s].incoming, x), c, d.sent[c], told[c], by_channel[c] # NoSocket,
                     ~socket[s].close_received /\ ~service.sent_done,
                     browser[s].fault # "command", socket[s].io = "open" /\ ~browser[s].gone)
  PROVE  WebInv'
<1>1. PICK k, b, done : k = socket[s] /\ b = browser[s] /\ done = service.sent_done
  OBVIOUS
<1>2. /\ k \in SocketType /\ b \in BrowserType /\ done \in BOOLEAN /\ Sock(k, b, done)
      /\ \A c \in Channels : Owner[c] # s => Foreign(c, k, b)
      /\ \A c \in Channels : Owner[c] = s =>
           /\ told[c] \in Seq(Message) /\ came[c] \in Seq(Message)
           /\ Chan(c, k, b, done, by_channel[c] # NoSocket, told[c], came[c])
  BY <1>1, Pieces
<1>3. PICK q : q = [k EXCEPT !.incoming = Append(k.incoming, x)]
  OBVIOUS
<1>4. socket' = [socket EXCEPT ![s] = q] /\ q \in SocketType
  <2>1. q \in SocketType
    BY <1>2, <1>3, TakesIs
  <2> QED BY <1>1, <1>3, <2>1 DEF WebInv, WebTypes
<1>5. k.io = "open" /\ ~b.gone /\ ~b.hung /\ Has(b.seen, "init")
  BY <1>1 DEF Speaks, Knows
<1>6. Sock(q, d, done)
  BY <1>1, <1>2, <1>3, <1>5, TakesSock
<1>7. ASSUME NEW c \in Channels, Owner[c] # s PROVE Foreign(c, q, d)
  <2>1. x \notin Words(c) /\ d.sent[c] = b.sent[c]
    BY <1>1, <1>7
  <2> QED BY <1>2, <1>3, <1>7, <2>1, TakesForeign
<1>8. ASSUME NEW c \in Channels, Owner[c] = s
      PROVE  Chan(c, q, d, done, by_channel[c] # NoSocket, told[c], came[c])
  <2>1. \/ x \notin Words(c) /\ d.sent[c] = b.sent[c]
        \/ Stream(Append(k.incoming, x), c, d.sent[c], told[c], by_channel[c] # NoSocket,
                  ~k.close_received /\ ~done, b.fault # "command", k.io = "open" /\ ~b.gone)
    BY <1>1
  <2>2. PICK known, t, r, F : /\ known = (by_channel[c] # NoSocket) /\ t = told[c] /\ r = came[c]
                              /\ F = Append(k.incoming, x)
    OBVIOUS
  <2>3. t \in Seq(Message) /\ r \in Seq(Message) /\ Chan(c, k, b, done, known, t, r) /\ Sending(b, d, x)
    BY <1>1, <1>2, <1>8, <2>2
  <2>4. CASE x \notin Words(c) /\ d.sent[c] = b.sent[c]
    <3>1. Chan(c, q, d, done, known, t, r)
      BY <1>2, <1>3, <2>3, <2>4, TakesChan
    <3> QED BY <2>2, <3>1
  <2>5. CASE ~(x \notin Words(c) /\ d.sent[c] = b.sent[c])
    <3>1. Stream(F, c, d.sent[c], t, known, ~k.close_received /\ ~done, b.fault # "command",
                 k.io = "open" /\ ~b.gone)
      BY <2>1, <2>2, <2>5
    <3>2. Chan(c, q, d, done, known, t, r)
      BY <1>2, <1>3, <2>2, <2>3, <3>1, TakesChan
    <3> QED BY <2>2, <3>2
  <2> QED BY <2>4, <2>5
<1>9. /\ service' \in [closing : BOOLEAN, sent_done : BOOLEAN, init_received : BOOLEAN, callers : Int]
      /\ service'.closing = service.closing /\ service'.sent_done = service.sent_done
  BY Pieces
<1> QED BY <1>1, <1>4, <1>6, <1>7, <1>8, <1>9, QuietStep

\* Frames of two channels are different.
LEMMA Apart ==
  ASSUME NEW c \in Channels, NEW e \in Channels, c # e
  PROVE  \A x \in Words(c) : x \notin Words(e)
BY WordsApart

\* What Sends() takes it to be.
LEMMA SendsInv ==
  ASSUME WebInv, NEW s \in Sockets, NEW x \in Frame, x.type \in {"open", "data", "close", "logout"},
         NEW sent \in [Channels -> Nat], Sends(s, x, sent),
         \A c \in Channels :
           \/ x \notin Words(c) /\ sent[c] = browser[s].sent[c]
           \/ Owner[c] = s /\ Stream(Append(socket[s].incoming, x), c, sent[c], told[c], by_channel[c] # NoSocket,
                     ~socket[s].close_received /\ ~service.sent_done,
                     browser[s].fault # "command", socket[s].io = "open" /\ ~browser[s].gone)
  PROVE  WebInv'
<1>1. browser[s] \in BrowserType
  BY Pieces
<1>2. PICK d : d = [browser[s] EXCEPT !.sent = sent]
  OBVIOUS
<1>3. /\ d \in BrowserType /\ d.sent = sent /\ d.seen = browser[s].seen /\ d.gone = browser[s].gone
      /\ d.hung = browser[s].hung /\ d.fault = browser[s].fault
  BY <1>1, <1>2 DEF BrowserType
<1>4. Sending(browser[s], d, x)
  BY <1>3 DEF Sending
<1>5. browser' = [browser EXCEPT ![s] = d]
  BY <1>2 DEF Sends, WebInv, WebTypes
<1>6. /\ Speaks(s) /\ Knows(s, "init") /\ socket' = [socket EXCEPT ![s].incoming = Append(@, x)]
      /\ UNCHANGED <<service, by_channel, up, told, came>>
  BY DEF Sends
<1>7. \A c \in Channels :
           \/ x \notin Words(c) /\ d.sent[c] = browser[s].sent[c]
           \/ Owner[c] = s /\ Stream(Append(socket[s].incoming, x), c, d.sent[c], told[c], by_channel[c] # NoSocket,
                     ~socket[s].close_received /\ ~service.sent_done,
                     browser[s].fault # "command", socket[s].io = "open" /\ ~browser[s].gone)
  BY <1>3
<1> QED BY <1>3, <1>4, <1>5, <1>6, <1>7, TakesInv

\* The stream of a channel, in the invariant.
LEMMA StreamHere ==
  ASSUME WebInv, NEW c \in Channels, NEW s \in Sockets, Owner[c] = s, NEW n, n = browser[s].sent[c]
  PROVE  /\ socket[s].incoming \in Seq(Frame)
         /\ Stream(socket[s].incoming, c, n, told[c], by_channel[c] # NoSocket,
                   ~socket[s].close_received /\ ~service.sent_done,
                   browser[s].fault # "command", socket[s].io = "open" /\ ~browser[s].gone)
<1>1. Chan(c, socket[s], browser[s], service.sent_done, by_channel[c] # NoSocket, told[c], came[c])
  BY Pieces
<1>2. socket[s] \in SocketType
  BY Pieces
<1> QED BY <1>1, <1>2 DEF Chan, StreamOf, SocketType

\* A browser opens each channel once.
LEMMA BrowserOpensInv ==
  ASSUME WebInv, NEW s \in Sockets, NEW c \in Channels, BrowserOpens(s, c)
  PROVE  WebInv'
<1>1. PICK x, sent : x = Msg("open", c) /\ sent = [browser[s].sent EXCEPT ![c] = 1]
  OBVIOUS
<1>2. Owner[c] = s /\ browser[s].sent[c] = 0 /\ Sends(s, x, sent)
  BY <1>1 DEF BrowserOpens
<1>3. x \in Words(c) /\ x \in Frame /\ x.type = "open"
  BY <1>1, WordsApart DEF Words
<1>4. browser[s].sent \in [Channels -> Nat]
  BY Pieces DEF BrowserType
<1>5. sent \in [Channels -> Nat] /\ sent[c] = 1 /\ \A e \in Channels : e # c => sent[e] = browser[s].sent[e]
  BY <1>1, <1>4
<1>6. Stream(Append(socket[s].incoming, x), c, 1, told[c], by_channel[c] # NoSocket,
             ~socket[s].close_received /\ ~service.sent_done,
             browser[s].fault # "command", socket[s].io = "open" /\ ~browser[s].gone)
  BY <1>1, <1>2, StreamHere, StreamAsks
<1>7. \A e \in Channels : e # c => x \notin Words(e)
  BY <1>3, Apart
<1> QED BY <1>2, <1>3, <1>5, <1>6, <1>7, SendsInv

\* A browser sends on a channel it has opened, and closes it at last.
LEMMA BrowserSpeaksInv ==
  ASSUME WebInv, NEW s \in Sockets, NEW c \in Channels, BrowserSends(s, c) \/ BrowserCloses(s, c)
  PROVE  WebInv'
<1>1. PICK n : n = browser[s].sent[c]
  OBVIOUS
<1>2. browser[s].sent \in [Channels -> Nat] /\ browser[s] \in BrowserType
  BY Pieces DEF BrowserType
<1>3. PICK x, sent, m : /\ m \in Nat /\ n \in 1..(MaxData + 1) /\ sent = [browser[s].sent EXCEPT ![c] = m]
                        /\ Sends(s, x, sent)
                        /\ (x = Msg("data", c) /\ m # 0) \/ (x = Msg("close", c) /\ m = MaxData + 2)
  <2>1. CASE BrowserSends(s, c)
    <3>1. PICK m \in Nat : m = n + 1
      BY <1>1, <1>2
    <3>2. n \in 1..(MaxData + 1) /\ m # 0
      BY <1>1, <2>1, <3>1, WebServiceAssumption DEF BrowserSends
    <3>3. PICK x, sent : x = Msg("data", c) /\ sent = [browser[s].sent EXCEPT ![c] = m]
      OBVIOUS
    <3>4. Sends(s, x, sent)
      BY <1>1, <2>1, <3>1, <3>3 DEF BrowserSends
    <3> QED BY <3>2, <3>3, <3>4
  <2>2. CASE BrowserCloses(s, c)
    <3>1. PICK m \in Nat : m = MaxData + 2
      BY WebServiceAssumption
    <3>2. n \in 1..(MaxData + 1)
      BY <1>1, <2>2, WebServiceAssumption DEF BrowserCloses
    <3>3. PICK x, sent : x = Msg("close", c) /\ sent = [browser[s].sent EXCEPT ![c] = m]
      OBVIOUS
    <3>4. Sends(s, x, sent)
      BY <1>1, <2>2, <3>1, <3>3 DEF BrowserCloses
    <3> QED BY <3>1, <3>2, <3>3, <3>4
  <2> QED BY <2>1, <2>2
<1>5. sent \in [Channels -> Nat] /\ sent[c] = m /\ \A e \in Channels : e # c => sent[e] = browser[s].sent[e]
  BY <1>2, <1>3
<1>6. x \in Words(c) /\ x \in Frame /\ x.type \in {"data", "close"}
  BY <1>3, WordsApart DEF Words
<1>7. n # 0
  BY <1>3
<1>8. Owner[c] = s
  BY <1>1, <1>7, Pieces DEF Foreign
<1>9. socket[s].io = "open" /\ ~browser[s].gone
  BY <1>3 DEF Sends, Speaks
<1>10. Stream(Append(socket[s].incoming, x), c, m, told[c], by_channel[c] # NoSocket,
             ~socket[s].close_received /\ ~service.sent_done, browser[s].fault # "command", TRUE)
  <2>1. Stream(socket[s].incoming, c, n, told[c], by_channel[c] # NoSocket,
               ~socket[s].close_received /\ ~service.sent_done, browser[s].fault # "command", TRUE)
    BY <1>1, <1>8, <1>9, StreamHere
  <2>2. socket[s].incoming \in Seq(Frame)
    BY <1>1, <1>8, StreamHere
  <2> QED BY <1>3, <2>1, <2>2, StreamSends
<1>11. \A e \in Channels : e # c => x \notin Words(e)
  BY <1>6, Apart
<1>12. \A e \in Channels :
           \/ x \notin Words(e) /\ sent[e] = browser[s].sent[e]
           \/ Owner[e] = s /\ Stream(Append(socket[s].incoming, x), e, sent[e], told[e], by_channel[e] # NoSocket,
                     ~socket[s].close_received /\ ~service.sent_done,
                     browser[s].fault # "command", socket[s].io = "open" /\ ~browser[s].gone)
  BY <1>5, <1>8, <1>9, <1>10, <1>11
<1> QED BY <1>3, <1>5, <1>6, <1>12, SendsInv

\* A frame that is of no channel.
LEMMA BrowserQuietInv ==
  ASSUME WebInv, NEW s \in Sockets,
         \/ BrowserLogsOut(s)
         \/ BrowserHangsUp(s)
         \/ \E fault \in {"frame", "command"} : BrowserErrs(s, fault)
  PROVE  WebInv'
<1>1. browser[s] \in BrowserType /\ browser[s].sent \in [Channels -> Nat]
  BY Pieces DEF BrowserType
<1>2. ASSUME NEW type \in {"logout", "hangup", "malformed", "invalid"}
      PROVE  [type |-> type] \in Frame /\ [type |-> type].type = type /\ \A c \in Channels : [type |-> type] \notin Words(c)
  BY DEF Frame, Words, Msg
<1>3. CASE BrowserLogsOut(s)
  <2>1. PICK x, sent : x = [type |-> "logout"] /\ sent = browser[s].sent
    OBVIOUS
  <2>2. Sends(s, x, sent)
    BY <1>3, <2>1 DEF BrowserLogsOut
  <2>3. x \in Frame /\ x.type = "logout" /\ \A c \in Channels : x \notin Words(c)
    BY <1>2, <2>1
  <2> QED BY <1>1, <2>1, <2>2, <2>3, SendsInv
<1>4. CASE BrowserHangsUp(s)
  <2>1. PICK x, d : x = [type |-> "hangup"] /\ d = [browser[s] EXCEPT !.hung = TRUE]
    OBVIOUS
  <2>2. x \in Frame /\ x.type = "hangup" /\ \A c \in Channels : x \notin Words(c)
    BY <1>2, <2>1
  <2>3. /\ d \in BrowserType /\ d.sent = browser[s].sent /\ d.seen = browser[s].seen /\ d.gone = browser[s].gone
        /\ d.hung /\ d.fault = browser[s].fault
    BY <1>1, <2>1 DEF BrowserType
  <2>4. Sending(browser[s], d, x)
    BY <2>2, <2>3 DEF Sending
  <2>5. browser' = [browser EXCEPT ![s] = d]
    BY <1>4, <2>1 DEF BrowserHangsUp, WebInv, WebTypes
  <2>6. /\ Speaks(s) /\ Knows(s, "init") /\ socket' = [socket EXCEPT ![s].incoming = Append(@, x)]
        /\ UNCHANGED <<service, by_channel, up, told, came>>
    BY <1>4, <2>1 DEF BrowserHangsUp
  <2>7. \A c \in Channels : x \notin Words(c) /\ d.sent[c] = browser[s].sent[c]
    BY <2>2, <2>3
  <2> QED BY <2>2, <2>3, <2>4, <2>5, <2>6, <2>7, TakesInv
<1>5. ASSUME NEW fault \in {"frame", "command"}, BrowserErrs(s, fault)
      PROVE  WebInv'
  <2>1. PICK x, d : /\ x = [type |-> IF fault = "frame" THEN "malformed" ELSE "invalid"]
                    /\ d = [browser[s] EXCEPT !.fault = fault]
    OBVIOUS
  <2>2. /\ x \in Frame /\ x.type \in {"malformed", "invalid"} /\ \A c \in Channels : x \notin Words(c)
        /\ x.type = "malformed" <=> fault = "frame"
    BY <1>2, <2>1
  <2>3. /\ d \in BrowserType /\ d.sent = browser[s].sent /\ d.seen = browser[s].seen /\ d.gone = browser[s].gone
        /\ d.hung = browser[s].hung /\ d.fault = fault
    BY <1>1, <2>1 DEF BrowserType
  <2>4. browser[s].fault = "none"
    BY <1>5 DEF BrowserErrs
  <2>5. Sending(browser[s], d, x)
    BY <2>2, <2>3, <2>4 DEF Sending
  <2>6. browser' = [browser EXCEPT ![s] = d]
    BY <1>5, <2>1 DEF BrowserErrs, WebInv, WebTypes
  <2>7. /\ Speaks(s) /\ Knows(s, "init") /\ socket' = [socket EXCEPT ![s].incoming = Append(@, x)]
        /\ UNCHANGED <<service, by_channel, up, told, came>>
    BY <1>5, <2>1 DEF BrowserErrs
  <2>8. \A c \in Channels : x \notin Words(c) /\ d.sent[c] = browser[s].sent[c]
    BY <2>2, <2>3
  <2> QED BY <2>2, <2>3, <2>5, <2>6, <2>7, <2>8, TakesInv
<1> QED BY <1>3, <1>4, <1>5

\* The connection breaks, and the last frames may be lost.
LEMMA BrowserVanishesInv ==
  ASSUME WebInv, NEW s \in Sockets, BrowserVanishes(s)
  PROVE  WebInv'
<1>1. PICK k, b, done : k = socket[s] /\ b = browser[s] /\ done = service.sent_done
  OBVIOUS
<1>2. /\ k \in SocketType /\ b \in BrowserType /\ done \in BOOLEAN /\ Sock(k, b, done)
      /\ \A c \in Channels : Owner[c] # s => Foreign(c, k, b)
      /\ \A c \in Channels : Owner[c] = s =>
           /\ told[c] \in Seq(Message) /\ came[c] \in Seq(Message)
           /\ Chan(c, k, b, done, by_channel[c] # NoSocket, told[c], came[c])
  BY <1>1, Pieces
<1>3. PICK m \in 0..Len(k.incoming) : socket' = [socket EXCEPT ![s].incoming = SubSeq(@, 1, m)]
  BY <1>1 DEF BrowserVanishes
<1>4. PICK F, q, d : /\ F = SubSeq(k.incoming, 1, m) /\ q = [k EXCEPT !.incoming = F]
                     /\ d = [b EXCEPT !.gone = TRUE, !.fault = "abrupt"]
  OBVIOUS
<1>5. k.incoming \in Seq(Frame)
  BY <1>2 DEF SocketType
<1>6. F \in Seq(Frame) /\ DOMAIN F = 1..m /\ (\A i \in 1..m : F[i] = k.incoming[i] /\ i \in DOMAIN k.incoming)
  <2>1. m \in Nat /\ Len(k.incoming) \in Nat /\ m <= Len(k.incoming) /\ DOMAIN k.incoming = 1..Len(k.incoming)
        /\ \A i \in 1..m : k.incoming[i] \in Frame
    BY <1>5
  <2>2. /\ SubSeq(k.incoming, 1, m) \in Seq(Frame)
        /\ Len(SubSeq(k.incoming, 1, m)) = IF 1 <= m THEN m - 1 + 1 ELSE 0
        /\ \A i \in 1..(m - 1 + 1) : SubSeq(k.incoming, 1, m)[i] = k.incoming[1 + i - 1]
    BY <2>1, SubSeqProperties
  <2> QED BY <1>4, <2>1, <2>2
<1>7. /\ q \in SocketType /\ Same(k, q) /\ q.io = k.io /\ q.close_sent = k.close_sent
      /\ q.timeout = k.timeout /\ q.outgoing = k.outgoing /\ q.incoming = F
  BY <1>2, <1>4, <1>6 DEF SocketType, Same
<1>8. d \in BrowserType /\ d.gone /\ d.fault = "abrupt" /\ d.sent = b.sent /\ d.seen = b.seen /\ d.hung = b.hung
  BY <1>2, <1>4 DEF BrowserType
<1>9. socket' = [socket EXCEPT ![s] = q]
  BY <1>1, <1>3, <1>4 DEF WebInv, WebTypes
<1>10. browser' = [browser EXCEPT ![s] = d] /\ UNCHANGED <<service, by_channel, up, told, came>>
       /\ b.fault = "none" /\ k.io = "open" /\ ~b.gone
  BY <1>1, <1>4 DEF BrowserVanishes, WebInv, WebTypes
<1>11. \A i \in 1..m : \A j \in 1..(i - 1) : j \in 1..m
  OBVIOUS
<1>12. Sock(q, d, done)
  <2>1. Line(q, d, done)
    BY <1>2, <1>7, <1>8, <1>10 DEF Sock, Line, Same
  <2>2. \A i \in 1..m : /\ F[i].type = "invalid" => d.fault = "command"
                        /\ F[i].type = "malformed" => d.fault = "frame"
                        /\ F[i].type = "hangup" => 
                             d.hung /\ ~k.close_received /\ \A j \in 1..m : F[j].type = "hangup" => j = i
    BY <1>2, <1>6, <1>8, <1>10 DEF Sock, Waiting
  <2>3. \A i \in 1..m : F[i] \in Message =>
          k.close_received \/ k.init \/ \E j \in 1..(i - 1) : F[j] = [type |-> "init"]
    <3> SUFFICES ASSUME NEW i \in 1..m, F[i] \in Message, ~k.close_received, ~k.init
                 PROVE  \E j \in 1..(i - 1) : F[j] = [type |-> "init"]
      OBVIOUS
    <3>1. k.incoming[i] \in Message /\ i \in DOMAIN k.incoming
      BY <1>6
    <3>2. PICK j \in 1..(i - 1) : k.incoming[j] = [type |-> "init"]
      BY <1>2, <3>1 DEF Sock, Waiting
    <3> QED BY <1>6, <1>11, <3>2
  <2>4. k.close_received => d.hung
    BY <1>2, <1>8 DEF Sock, Waiting
  <2>5. Waiting(q, d)
    BY <1>6, <1>7, <1>8, <2>2, <2>3, <2>4 DEF Waiting, Same
  <2> QED BY <2>1, <2>5 DEF Sock
<1>13. ASSUME NEW c \in Channels, Owner[c] # s PROVE Foreign(c, q, d)
  BY <1>2, <1>6, <1>7, <1>8, <1>13 DEF Foreign, Same
<1>14. ASSUME NEW c \in Channels, Owner[c] = s
       PROVE  Chan(c, q, d, done, by_channel[c] # NoSocket, told[c], came[c])
  <2>1. Chan(c, k, b, done, by_channel[c] # NoSocket, told[c], came[c])
    BY <1>2, <1>14
  <2>2. StreamOf(c, q, d, done, by_channel[c] # NoSocket, told[c])
    <3>1. Stream(F, c, b.sent[c], told[c], by_channel[c] # NoSocket, ~k.close_received /\ ~done,
                 b.fault # "command", FALSE)
      BY <1>4, <1>5, <2>1, StreamCut DEF Chan, StreamOf
    <3> QED BY <1>7, <1>8, <1>10, <3>1 DEF StreamOf, Same
  <2>3. Account(c, q, d, done, told[c], came[c])
    BY <1>7, <1>8, <1>10, <2>1 DEF Chan, Account, Same
  <2>4. Shown(c, q, d, by_channel[c] # NoSocket, told[c], came[c])
    <3>1. State(q) = State(k)
      BY <1>7 DEF State, Same
    <3> QED BY <1>7, <1>8, <2>1, <3>1 DEF Chan, Shown
  <2> QED BY <1>7, <2>1, <2>2, <2>3, <2>4 DEF Chan, Same
<1>15. /\ service' \in [closing : BOOLEAN, sent_done : BOOLEAN, init_received : BOOLEAN, callers : Int]
       /\ service'.closing = service.closing /\ service'.sent_done = service.sent_done
  BY <1>10, Pieces
<1> QED BY <1>1, <1>7, <1>8, <1>9, <1>10, <1>12, <1>13, <1>14, <1>15, QuietStep
-----------------------------------------------------------------------------
(* The service takes a frame. *)

\* What is told grows by what is not an open.
LEMMA FormedSays ==
  ASSUME NEW t \in Seq(Message), t # <<>>, Formed(t), ~Has(t, "close"), NEW m \in Message, m.type # "open"
  PROVE  Formed(Append(t, m))
<1>1. PICK u : u = Append(t, m)
  OBVIOUS
<1>2. /\ Len(t) \in Nat /\ DOMAIN t = 1..Len(t) /\ DOMAIN u = 1..(Len(t) + 1) /\ Len(u) = Len(t) + 1
      /\ \A i \in 1..Len(t) : u[i] = t[i]
      /\ u[Len(t) + 1] = m
  BY <1>1, Appends
<1>3. Len(t) # 0
  BY EmptySeq
<1>4. \A i \in DOMAIN u : i = Len(t) + 1 \/ i \in 1..Len(t)
  BY <1>2
<1>5. \A i \in 1..Len(t) : t[i].type # "close" /\ (t[i].type = "open" <=> i = 1)
  <2>1. \A i \in DOMAIN t : t[i].type # "close"
    BY DEF Has
  <2>2. \A i \in DOMAIN t : t[i].type = "open" <=> i = 1
    BY DEF Formed
  <2> QED BY <1>2, <2>1, <2>2
<1>6. Formed(u)
  BY <1>2, <1>3, <1>4, <1>5 DEF Formed
<1> QED BY <1>1, <1>6

\* An open is told first.
LEMMA FormedOpens ==
  ASSUME NEW c \in Channels, NEW t, t = <<>>
  PROVE  /\ Formed(Append(t, Msg("open", c))) /\ Append(t, Msg("open", c)) # <<>>
         /\ ~Has(Append(t, Msg("open", c)), "close") /\ Append(t, Msg("open", c)) \in Seq(Message)
<1>1. PICK m \in Message : m = Msg("open", c) /\ m.type = "open"
  BY WordsApart DEF Words
<1>2. PICK u : u = <<m>>
  OBVIOUS
<1>3. u = Append(t, m) /\ DOMAIN u = {1} /\ u[1] = m /\ u # <<>> /\ u \in Seq(Message) /\ Len(u) = 1
  BY <1>2
<1>4. Formed(u) /\ ~Has(u, "close")
  BY <1>1, <1>3 DEF Formed, Has
<1> QED BY <1>1, <1>3, <1>4

\* What does not depend on the frame that is taken.
LEMMA DropRest ==
  ASSUME NEW k \in SocketType, k.incoming # <<>>, NEW b \in BrowserType, NEW done, Sock(k, b, done)
  PROVE  /\ Line(Drop(k), b, done)
         /\ \A i \in DOMAIN Drop(k).incoming :
              /\ Drop(k).incoming[i].type = "invalid" => b.fault = "command"
              /\ Drop(k).incoming[i].type = "malformed" => b.fault = "frame"
              /\ Drop(k).incoming[i].type = "hangup" =>
                   /\ b.hung /\ ~k.close_received /\ Head(k.incoming).type # "hangup"
                   /\ \A j \in DOMAIN Drop(k).incoming : Drop(k).incoming[j].type = "hangup" => j = i
         /\ Head(k.incoming).type = "invalid" => b.fault = "command"
         /\ Head(k.incoming).type = "malformed" => b.fault = "frame"
         /\ Head(k.incoming).type = "hangup" => b.hung /\ ~k.close_received
         /\ Head(k.incoming) \in Message => k.close_received \/ k.init
<1>1. PICK q : q = Drop(k)
  OBVIOUS
<1>2. /\ Same(k, q) /\ q.io = k.io /\ q.close_sent = k.close_sent /\ q.timeout = k.timeout
      /\ q.outgoing = k.outgoing
  BY <1>1, DropIs
<1>3. /\ Head(k.incoming) = k.incoming[1] /\ 1 \in DOMAIN k.incoming
      /\ \A i \in DOMAIN q.incoming :
              /\ i \in Nat \ {0} /\ i + 1 \in DOMAIN k.incoming /\ i + 1 # 1
              /\ q.incoming[i] = k.incoming[i + 1]
  BY <1>1, DropTail
<1>4. Line(q, b, done)
  BY <1>2 DEF Sock, Line, Same
<1>5. ASSUME NEW i \in DOMAIN q.incoming
      PROVE  /\ q.incoming[i].type = "invalid" => b.fault = "command"
             /\ q.incoming[i].type = "malformed" => b.fault = "frame"
             /\ q.incoming[i].type = "hangup" =>
                  /\ b.hung /\ ~k.close_received /\ Head(k.incoming).type # "hangup"
                  /\ \A j \in DOMAIN q.incoming : q.incoming[j].type = "hangup" => j = i
  BY <1>3 DEF Sock, Waiting
<1>6. /\ k.incoming[1].type = "invalid" => b.fault = "command"
      /\ k.incoming[1].type = "malformed" => b.fault = "frame"
      /\ k.incoming[1].type = "hangup" => b.hung /\ ~k.close_received
  BY <1>3 DEF Sock, Waiting
<1>7. k.incoming[1] \in Message => k.close_received \/ k.init
  <2>1. \A j \in 1..(1 - 1) : FALSE
    OBVIOUS
  <2> QED BY <1>3, <2>1 DEF Sock, Waiting
<1> QED BY <1>1, <1>3, <1>4, <1>5, <1>6, <1>7

\* q is p, but for its table of channels, its init and its close_received.
Bare(p, q) ==
  /\ q.starting = p.starting /\ q.handshake = p.handshake /\ q.tracked = p.tracked
  /\ q.close_sent = p.close_sent /\ q.timeout = p.timeout /\ q.io = p.io
  /\ q.incoming = p.incoming /\ q.outgoing = p.outgoing

\* What holds of a channel does not depend on the other channels of the table.
LEMMA BareChan ==
  ASSUME NEW p, NEW q, NEW b, NEW c, NEW done, NEW known, NEW t, NEW r,
         Chan(c, p, b, done, known, t, r), Bare(p, q), q.close_received = p.close_received,
         c \in q.channels <=> c \in p.channels
  PROVE  Chan(c, q, b, done, known, t, r)
<1>1. StreamOf(c, q, b, done, known, t)
  BY DEF Chan, StreamOf, Bare
<1>2. Account(c, q, b, done, t, r)
  BY DEF Chan, Account, Bare
<1>3. State(q) = State(p)
  BY DEF State, Bare
<1>4. Shown(c, q, b, known, t, r)
  BY <1>3 DEF Chan, Shown, Bare
<1> QED BY <1>1, <1>2, <1>4 DEF Chan

\* A step of one socket that may change what is told, or the table.
LEMMA InputStep ==
  ASSUME WebInv, NEW s \in Sockets, NEW q \in SocketType,
         socket' = [socket EXCEPT ![s] = q], UNCHANGED <<service, browser, up, came>>,
         told' \in [Channels -> Seq(Message)], by_channel' \in [Channels -> Sockets \cup {NoSocket}],
         Sock(q, browser[s], service.sent_done),
         \A c \in Channels : Owner[c] # s =>
           told'[c] = told[c] /\ by_channel'[c] = by_channel[c] /\ Foreign(c, q, browser[s]),
         \A c \in Channels : Owner[c] = s =>
           /\ by_channel'[c] \in {NoSocket, s}
           /\ told[c] # <<>> => told'[c] # <<>>
           /\ Chan(c, q, browser[s], service.sent_done, by_channel'[c] # NoSocket, told'[c], came[c])
  PROVE  WebInv'
<1>1. browser' = [browser EXCEPT ![s] = browser[s]]
  BY DEF WebInv, WebTypes
<1>2. PICK d \in BrowserType : d = browser[s]
  BY Pieces
<1>3. /\ service' \in [closing : BOOLEAN, sent_done : BOOLEAN, init_received : BOOLEAN, callers : Int]
      /\ service'.closing = service.closing /\ service'.sent_done = service.sent_done
  BY Pieces
<1>4. browser' = [browser EXCEPT ![s] = d] /\ UNCHANGED <<up, came>> /\ Sock(q, d, service.sent_done)
  BY <1>1, <1>2
<1>5. \A c \in Channels : Owner[c] # s =>
           told'[c] = told[c] /\ by_channel'[c] = by_channel[c] /\ Foreign(c, q, d)
  BY <1>2
<1>6. \A c \in Channels : Owner[c] = s =>
           /\ by_channel'[c] \in {NoSocket, s}
           /\ told[c] # <<>> => told'[c] # <<>>
           /\ Chan(c, q, d, service.sent_done, by_channel'[c] # NoSocket, told'[c], came[c])
  BY <1>2
<1> QED BY <1>3, <1>4, <1>5, <1>6, OneSocket

\* What on_web_socket_closing() makes of what is told of a channel.
Ending(c, p, done, t) == IF c \in p.channels /\ ~done THEN Append(t, Msg("close", c)) ELSE t

\* on_web_socket_closing() tells the end of each channel in the table, which is none that has ended.
LEMMA EndsChan ==
  ASSUME NEW p \in SocketType, NEW q \in SocketType, NEW b \in BrowserType, NEW c \in Channels,
         NEW done \in BOOLEAN, NEW known, NEW t \in Seq(Message), NEW r, Chan(c, p, b, done, known, t, r),
         Bare(p, q), q.channels = p.channels, p.handshake, ~p.close_received, p.io # "closed",
         q.close_received \/ b.fault = "command",
         NEW u, \/ u = Ending(c, p, done, t)
                \/ u = t /\ (b.fault # "none" \/ done)
  PROVE  Chan(c, q, b, done, known, u, r) /\ u \in Seq(Message) /\ (t # <<>> => u # <<>>)
<1>1. CASE u = t
  <2>1. StreamOf(c, q, b, done, known, t)
    <3>1. Stream(p.incoming, c, b.sent[c], t, known, ~q.close_received /\ ~done, b.fault # "command",
                 p.io = "open" /\ ~b.gone)
      BY DEF Chan, StreamOf, Stream
    <3> QED BY <3>1 DEF StreamOf, Bare
  <2>2. Account(c, q, b, done, t, r)
    <3>1. c \in p.channels => done \/ b.fault # "none"
      <4>1. Append(t, Msg("close", c)) # t
        <5>1. Msg("close", c) \in Message
          BY WordsApart DEF Words
        <5> QED BY <5>1, AppendProperties
      <4> QED BY <1>1, <4>1 DEF Ending
    <3> QED BY <3>1 DEF Chan, Account, Bare
  <2>3. State(q) = State(p)
    BY DEF State, Bare
  <2>4. Shown(c, q, b, known, t, r)
    BY <2>3 DEF Chan, Shown, Bare
  <2> QED BY <1>1, <2>1, <2>2, <2>4 DEF Chan
<1>2. CASE u # t
  <2>2. PICK m \in Message : m = Msg("close", c) /\ m.type = "close"
    BY WordsApart DEF Words
  <2>3. c \in p.channels /\ ~done /\ u = Append(t, m) /\ known
    BY <1>2, <2>2 DEF Chan, Ending
  <2>4. u \in Seq(Message) /\ u # <<>> /\ Has(u, "close")
    BY <2>2, <2>3, Appends, HasAppend
  <2>5. StreamOf(c, q, b, done, known, u)
    <3>1. Stream(p.incoming, c, b.sent[c], u, known, ~q.close_received /\ ~done, b.fault # "command",
                 p.io = "open" /\ ~b.gone)
      BY <2>3, <2>4 DEF Chan, StreamOf, Stream
    <3> QED BY <3>1 DEF StreamOf, Bare
  <2>6. Account(c, q, b, done, u, r)
    <3>1. b.fault # "command" => Formed(u)
      <4>1. b.fault # "command" => t # <<>> /\ ~Has(t, "close") /\ Formed(t)
        BY <2>3 DEF Chan, Account
      <4> QED BY <2>2, <2>3, <4>1, FormedSays
    <3> QED BY <2>3, <2>4, <3>1 DEF Chan, Account, Bare
  <2>7. State(q) = State(p)
    BY DEF State, Bare
  <2>8. Shown(c, q, b, known, u, r)
    BY <2>3, <2>7 DEF Chan, Shown, Bare
  <2> QED BY <2>3, <2>4, <2>5, <2>6, <2>8 DEF Chan
<1> QED BY <1>1, <1>2

\* What is told of each channel then.
LEMMA TellClosesIs ==
  ASSUME WebInv, NEW s \in Sockets, TellCloses(s)
  PROVE  /\ told' \in [Channels -> Seq(Message)]
         /\ \A c \in Channels : told'[c] = IF c \in socket[s].channels /\ ~service.sent_done
                                           THEN Append(told[c], Msg("close", c)) ELSE told[c]
<1>1. \A c \in Channels : told[c] \in Seq(Message) /\ Msg("close", c) \in Message
  BY WordsApart DEF WebInv, WebTypes, Words
<1>2. \A c \in Channels : Append(told[c], Msg("close", c)) \in Seq(Message)
  BY <1>1, AppendProperties
<1> QED BY <1>1, <1>2 DEF TellCloses

\* The names the lemmas about Input() share.
LEMMA InputIs ==
  ASSUME WebInv, NEW s \in Sockets, socket[s].io = "open", socket[s].handshake, socket[s].incoming # <<>>,
         NEW p, p = Drop(socket[s])
  PROVE  /\ p \in SocketType /\ p.handshake /\ ~p.starting /\ p.io = "open" /\ p.init = socket[s].init
         /\ p.channels = socket[s].channels /\ p.close_received = socket[s].close_received
         /\ p.close_sent = socket[s].close_sent
         /\ Head(socket[s].incoming) \in Frame
         /\ \A c \in Channels : Owner[c] # s => Foreign(c, p, browser[s]) /\ Head(socket[s].incoming) \notin Words(c)
         /\ \A c \in Channels : Owner[c] = s =>
              /\ by_channel[c] \in {NoSocket, s} /\ told[c] \in Seq(Message) /\ came[c] \in Seq(Message)
              /\ Head(socket[s].incoming) \notin Words(c) \/ socket[s].close_received \/ service.sent_done =>
                   Chan(c, p, browser[s], service.sent_done, by_channel[c] # NoSocket, told[c], came[c])
<1>1. PICK k, b, done : k = socket[s] /\ b = browser[s] /\ done = service.sent_done
  OBVIOUS
<1>2. /\ k \in SocketType /\ b \in BrowserType /\ done \in BOOLEAN /\ Sock(k, b, done)
      /\ \A c \in Channels : Owner[c] # s => Foreign(c, k, b)
      /\ \A c \in Channels : Owner[c] = s =>
           /\ by_channel[c] \in {NoSocket, s} /\ told[c] \in Seq(Message) /\ came[c] \in Seq(Message)
           /\ Chan(c, k, b, done, by_channel[c] # NoSocket, told[c], came[c])
  BY <1>1, Pieces
<1>3. /\ p \in SocketType /\ Same(k, p) /\ p.io = k.io /\ p.close_sent = k.close_sent
      /\ Head(k.incoming) \in Frame
  BY <1>1, <1>2, DropIs
<1>4. ~k.starting
  BY <1>1, <1>2 DEF Sock, Line
<1>5. \A c \in Channels : Owner[c] # s => Foreign(c, p, b) /\ Head(k.incoming) \notin Words(c)
  BY <1>1, <1>2, DropForeign
<1>6. ASSUME NEW c \in Channels, Owner[c] = s, Head(k.incoming) \notin Words(c) \/ k.close_received \/ done
      PROVE  Chan(c, p, b, done, by_channel[c] # NoSocket, told[c], came[c])
  <2>1. Chan(c, k, b, done, by_channel[c] # NoSocket, told[c], came[c]) /\ told[c] \in Seq(Message) /\ came[c] \in Seq(Message)
    BY <1>2, <1>6
  <2> QED BY <1>1, <1>2, <1>6, <2>1, DropChan
<1> QED BY <1>1, <1>2, <1>3, <1>4, <1>5, <1>6 DEF Same

\* The browser closes the socket, or answers its close (receive_close_rfc6455).
LEMMA InputHangupInv ==
  ASSUME WebInv, NEW s \in Sockets, socket[s].io = "open", socket[s].handshake, socket[s].incoming # <<>>,
         Head(socket[s].incoming).type = "hangup", ReceiveClose(s, Drop(socket[s])),
         UNCHANGED <<by_channel, service, browser, up, came>>
  PROVE  WebInv'
<1>1. PICK k, b, done, p : k = socket[s] /\ b = browser[s] /\ done = service.sent_done /\ p = Drop(k)
  OBVIOUS
<1>2. PICK q : q = [p EXCEPT !.close_received = TRUE]
  OBVIOUS
<1>3. /\ k \in SocketType /\ b \in BrowserType /\ done \in BOOLEAN /\ Sock(k, b, done)
      /\ told \in [Channels -> Seq(Message)] /\ by_channel \in [Channels -> Sockets \cup {NoSocket}]
  BY <1>1, Pieces
<1>4. /\ p \in SocketType /\ p.handshake /\ ~p.starting /\ p.io = "open" /\ p.channels = k.channels
      /\ p.close_received = k.close_received /\ p.close_sent = k.close_sent
      /\ \A c \in Channels : Owner[c] # s => Foreign(c, p, b)
  BY <1>1, InputIs
<1>5. \A c \in Channels : Head(k.incoming) \notin Words(c)
  BY <1>1, WordsApart
<1>6. \A c \in Channels : Owner[c] = s =>
              /\ by_channel[c] \in {NoSocket, s} /\ told[c] \in Seq(Message) /\ came[c] \in Seq(Message)
              /\ Chan(c, p, b, done, by_channel[c] # NoSocket, told[c], came[c])
  BY <1>1, <1>5, InputIs
<1>7. /\ Line(p, b, done) /\ b.hung /\ ~k.close_received
      /\ \A i \in DOMAIN p.incoming :
              /\ p.incoming[i].type = "invalid" => b.fault = "command"
              /\ p.incoming[i].type = "malformed" => b.fault = "frame"
              /\ p.incoming[i].type # "hangup"
  BY <1>1, <1>3, DropRest
<1>8. q \in SocketType /\ Bare(p, q) /\ q.close_received /\ q.channels = p.channels /\ q.init = p.init
  BY <1>2, <1>4 DEF SocketType, Bare
<1>9. Sock(q, b, done)
  <2>1. Waiting(q, b)
    BY <1>7, <1>8 DEF Waiting, Bare
  <2>2. Line(q, b, done)
    BY <1>7, <1>8 DEF Line, Bare
  <2> QED BY <2>1, <2>2 DEF Sock
<1>10. \A c \in Channels : Owner[c] # s => Foreign(c, q, b) /\ c \notin k.channels
  BY <1>4, <1>8 DEF Foreign, Bare
<1>11. q.handshake /\ ~q.starting
  BY <1>4, <1>8 DEF Bare
<1>12. CASE p.close_sent
  <2>1. PICK z : z = IoClosed(q)
    OBVIOUS
  <2>2. socket' = [socket EXCEPT ![s] = z] /\ told' = told
    BY <1>1, <1>2, <1>12, <2>1 DEF ReceiveClose, TellNothing
  <2>3. b.fault # "none" \/ done
    BY <1>4, <1>7, <1>12 DEF Line
  <2>4. z \in SocketType /\ Sock(z, b, done)
    BY <1>3, <1>8, <1>9, <1>11, <2>1, IoClosedIs, IoClosedSock
  <2>5. \A c \in Channels : Owner[c] # s => Foreign(c, z, b)
    BY <1>8, <1>10, <2>1, IoClosedForeign
  <2>6. ASSUME NEW c \in Channels, Owner[c] = s
        PROVE  Chan(c, z, b, done, by_channel[c] # NoSocket, told[c], came[c])
    <3>1. PICK known, t, r : /\ known = (by_channel[c] # NoSocket) /\ t = told[c] /\ r = came[c]
                             /\ t \in Seq(Message) /\ r \in Seq(Message)
      BY <1>6, <2>6
    <3>2. Chan(c, p, b, done, known, t, r)
      BY <1>6, <2>6, <3>1
    <3>3. Chan(c, q, b, done, known, t, r)
      BY <1>3, <1>4, <1>7, <1>8, <2>3, <3>1, <3>2, EndsChan
    <3>4. Chan(c, z, b, done, known, t, r)
      BY <1>3, <1>8, <2>1, <3>1, <3>3, IoClosedChan
    <3> QED BY <3>1, <3>4
  <2> QED BY <1>1, <2>2, <2>4, <2>5, <2>6, SocketOnly
<1>13. CASE ~p.close_sent
  <2>1. PICK z : z = Orderly(q)
    OBVIOUS
  <2>2. socket' = [socket EXCEPT ![s] = z] /\ TellCloses(s)
    BY <1>1, <1>2, <1>13, <2>1 DEF ReceiveClose
  <2>3. /\ told' \in [Channels -> Seq(Message)]
        /\ \A c \in Channels : told'[c] = IF c \in k.channels /\ ~done THEN Append(told[c], Msg("close", c)) ELSE told[c]
    BY <1>1, <2>2, TellClosesIs
  <2>4. z \in SocketType /\ Sock(z, b, done)
    BY <1>3, <1>8, <1>9, <1>11, <2>1, OrderlyType, OrderlySock
  <2>5. \A c \in Channels : Owner[c] # s => Foreign(c, z, b) /\ told'[c] = told[c]
    BY <1>8, <1>10, <2>1, <2>3, OrderlyForeign
  <2>6. ASSUME NEW c \in Channels, Owner[c] = s
        PROVE  /\ Chan(c, z, b, done, by_channel[c] # NoSocket, told'[c], came[c])
               /\ told[c] # <<>> => told'[c] # <<>>
    <3>1. PICK known, t, r, u : /\ known = (by_channel[c] # NoSocket) /\ t = told[c] /\ r = came[c] /\ u = told'[c]
                                /\ t \in Seq(Message) /\ r \in Seq(Message)
      BY <1>6, <2>6
    <3>2. Chan(c, p, b, done, known, t, r)
      BY <1>6, <2>6, <3>1
    <3>3. u = Ending(c, p, done, t)
      BY <1>4, <2>3, <3>1 DEF Ending
    <3>4. Chan(c, q, b, done, known, u, r) /\ u \in Seq(Message) /\ (t # <<>> => u # <<>>)
      <4>1. t \in Seq(Message) /\ b \in BrowserType /\ done \in BOOLEAN /\ p \in SocketType /\ q \in SocketType
        BY <1>3, <1>4, <1>8, <3>1
      <4>2. /\ Bare(p, q) /\ q.channels = p.channels /\ p.handshake /\ ~p.close_received /\ p.io # "closed"
            /\ q.close_received
        BY <1>4, <1>7, <1>8
      <4>3. q.close_received \/ b.fault = "command"
        BY <4>2
      <4>4. u = Ending(c, p, done, t) \/ (u = t /\ (b.fault # "none" \/ done))
        BY <3>3
      <4> QED BY <3>2, <4>1, <4>2, <4>3, <4>4, EndsChan
    <3>5. Chan(c, z, b, done, known, u, r)
      BY <1>3, <1>8, <2>1, <3>1, <3>4, OrderlyChan
    <3> QED BY <3>1, <3>4, <3>5
  <2>7. \A c \in Channels : Owner[c] # s =>
           told'[c] = told[c] /\ by_channel'[c] = by_channel[c] /\ Foreign(c, z, browser[s])
    BY <1>1, <2>5
  <2>8. \A c \in Channels : Owner[c] = s =>
           /\ by_channel'[c] \in {NoSocket, s}
           /\ told[c] # <<>> => told'[c] # <<>>
           /\ Chan(c, z, browser[s], service.sent_done, by_channel'[c] # NoSocket, told'[c], came[c])
    BY <1>1, <1>6, <2>6
  <2>9. by_channel' \in [Channels -> Sockets \cup {NoSocket}] /\ UNCHANGED <<service, browser, up, came>>
    BY <1>3
  <2> QED BY <1>1, <2>2, <2>3, <2>4, <2>7, <2>8, <2>9, InputStep
<1> QED BY <1>12, <1>13

\* A frame that is dropped, and one that makes the connection close.
LEMMA InputDroppedInv ==
  ASSUME WebInv, NEW s \in Sockets, socket[s].io = "open", socket[s].handshake, socket[s].incoming # <<>>,
         \/ socket[s].close_received
         \/ service.sent_done /\ Head(socket[s].incoming) # [type |-> "init"]
         \/ Head(socket[s].incoming).type \in {"malformed", "invalid"},
         socket' = [socket EXCEPT ![s] = Drop(socket[s])],
         UNCHANGED <<service, by_channel, browser, up, told, came>>
  PROVE  WebInv'
<1>1. PICK k, b, done, p : k = socket[s] /\ b = browser[s] /\ done = service.sent_done /\ p = Drop(k)
  OBVIOUS
<1>2. k \in SocketType /\ b \in BrowserType /\ Sock(k, b, done)
  BY <1>1, Pieces
<1>3. /\ p \in SocketType
      /\ \A c \in Channels : Owner[c] # s => Foreign(c, p, b)
      /\ \A c \in Channels : Owner[c] = s =>
           (Head(k.incoming) \notin Words(c) \/ k.close_received \/ done =>
              Chan(c, p, b, done, by_channel[c] # NoSocket, told[c], came[c]))
  BY <1>1, InputIs
<1>4. \A c \in Channels : Head(k.incoming) \notin Words(c) \/ k.close_received \/ done
  BY <1>1, WordsApart
<1>5. Head(k.incoming) # [type |-> "init"] \/ k.close_received
  BY <1>1
<1>6. Sock(p, b, done)
  BY <1>1, <1>2, <1>5, DropSock
<1>7. socket' = [socket EXCEPT ![s] = p]
  BY <1>1
<1>8. \A c \in Channels : Owner[c] = s =>
           Chan(c, p, browser[s], service.sent_done, by_channel[c] # NoSocket, told[c], came[c])
  BY <1>1, <1>3, <1>4
<1>9. \A c \in Channels : Owner[c] # s => Foreign(c, p, browser[s])
  BY <1>1, <1>3
<1> QED BY <1>1, <1>3, <1>6, <1>7, <1>8, <1>9, SocketOnly

\* Another queue of frames to send changes nothing else.
LEMMA QueueIs ==
  ASSUME NEW z \in SocketType, NEW o \in Seq(Answer), NEW q, q = [z EXCEPT !.outgoing = o]
  PROVE  /\ q \in SocketType /\ Same(z, q) /\ q.io = z.io /\ q.incoming = z.incoming
         /\ q.close_sent = z.close_sent /\ q.timeout = z.timeout /\ q.outgoing = o
BY DEF SocketType, Same

\* A close frame before the others, because of a fault of the browser.
LEMMA FrontLine ==
  ASSUME NEW p, NEW q, NEW b, NEW done, NEW h, Line(p, b, done), ~p.starting, b.fault = "frame", h.type = "hangup",
         \A i \in DOMAIN q.outgoing : q.outgoing[i] = h \/ \E j \in DOMAIN p.outgoing : q.outgoing[i] = p.outgoing[j],
         Same(p, q), q.io = p.io, q.close_sent
  PROVE  Line(q, b, done)
BY DEF Line, Same

\* A malformed frame is answered with a close, without the signal.
LEMMA InputMalformedInv ==
  ASSUME WebInv, NEW s \in Sockets, socket[s].io = "open", socket[s].handshake, socket[s].incoming # <<>>,
         Head(socket[s].incoming).type = "malformed", NEW q, State(Drop(socket[s])) = "OPEN",
         q = [CloseSent(Drop(socket[s]), TRUE) EXCEPT !.outgoing = <<Hangup(TRUE)>> \o Drop(socket[s]).outgoing],
         socket' = [socket EXCEPT ![s] = q],
         UNCHANGED <<service, by_channel, browser, up, told, came>>
  PROVE  WebInv'
<1>1. PICK k, b, done, p, h : /\ k = socket[s] /\ b = browser[s] /\ done = service.sent_done /\ p = Drop(k)
                              /\ h = Hangup(TRUE)
  OBVIOUS
<1>2. k \in SocketType /\ b \in BrowserType /\ done \in BOOLEAN /\ Sock(k, b, done)
  BY <1>1, Pieces
<1>3. /\ p \in SocketType /\ p.handshake /\ ~p.starting /\ p.io = "open"
      /\ \A c \in Channels : Owner[c] # s => Foreign(c, p, b)
      /\ \A c \in Channels : Owner[c] = s =>
           /\ told[c] \in Seq(Message) /\ came[c] \in Seq(Message)
           /\ (Head(k.incoming) \notin Words(c) \/ k.close_received \/ done =>
                 Chan(c, p, b, done, by_channel[c] # NoSocket, told[c], came[c]))
  BY <1>1, InputIs
<1>4. \A c \in Channels : Head(k.incoming) \notin Words(c)
  BY <1>1, WordsApart
<1>5. Head(k.incoming) # [type |-> "init"] /\ b.fault = "frame"
  BY <1>1, <1>2, DropRest
<1>6. Sock(p, b, done)
  BY <1>1, <1>2, <1>5, DropSock
<1>7. h \in Answer /\ h.type = "hangup" /\ \A c \in Channels : h \notin Talk(c)
  <2>1. h \in Answer /\ h.type = "hangup"
    BY <1>1 DEF Hangup, Answer
  <2> QED BY <1>1, <2>1, HangupQuiet
<1>8. p.outgoing \in Seq(Answer) /\ b.seen \in Seq(Answer)
  BY <1>2, <1>3 DEF SocketType, BrowserType
<1>9. PICK o : o = <<h>> \o p.outgoing
  OBVIOUS
<1>10. o \in Seq(Answer) /\ \A i \in DOMAIN o : o[i] = h \/ \E j \in DOMAIN p.outgoing : o[i] = p.outgoing[j]
  <2>1. <<h>> \in Seq(Answer) /\ Len(<<h>>) = 1 /\ <<h>>[1] = h
    BY <1>7
  <2>2. /\ o \in Seq(Answer) /\ Len(o) = 1 + Len(p.outgoing) /\ Len(p.outgoing) \in Nat
        /\ DOMAIN o = 1..Len(o) /\ DOMAIN p.outgoing = 1..Len(p.outgoing)
        /\ \A i \in 1..Len(o) : o[i] = IF i <= 1 THEN <<h>>[i] ELSE p.outgoing[i - 1]
    BY <1>8, <1>9, <2>1, ConcatProperties
  <2>3. ASSUME NEW i \in DOMAIN o PROVE o[i] = h \/ \E j \in DOMAIN p.outgoing : o[i] = p.outgoing[j]
    <3>1. CASE i <= 1
      BY <2>1, <2>2, <3>1
    <3>2. CASE ~(i <= 1)
      <4>1. i - 1 \in DOMAIN p.outgoing /\ o[i] = p.outgoing[i - 1]
        BY <2>2, <3>2
      <4> QED BY <4>1
    <3> QED BY <3>1, <3>2
  <2> QED BY <2>2, <2>3
<1>11. /\ q \in SocketType /\ Same(p, q) /\ q.io = p.io /\ q.incoming = p.incoming /\ q.close_sent
       /\ q.timeout = p.timeout /\ q.outgoing = o
  <2>1. PICK z : z = CloseSent(p, TRUE)
    OBVIOUS
  <2>2. /\ z \in SocketType /\ Same(p, z) /\ z.io = p.io /\ z.incoming = p.incoming /\ z.close_sent
        /\ z.timeout = p.timeout
    BY <1>3, <2>1, CloseSentIs
  <2>3. q = [z EXCEPT !.outgoing = o]
    BY <1>1, <1>9, <2>1
  <2>4. /\ q \in SocketType /\ Same(z, q) /\ q.io = z.io /\ q.incoming = z.incoming
        /\ q.close_sent = z.close_sent /\ q.timeout = z.timeout /\ q.outgoing = o
    <3>1. PICK y : y = [z EXCEPT !.outgoing = o]
      OBVIOUS
    <3>2. /\ y \in SocketType /\ Same(z, y) /\ y.io = z.io /\ y.incoming = z.incoming
          /\ y.close_sent = z.close_sent /\ y.timeout = z.timeout /\ y.outgoing = o
      BY <1>10, <2>2, <3>1, QueueIs
    <3> QED BY <2>3, <3>1, <3>2
  <2> QED BY <2>2, <2>4 DEF Same
<1>12. Sock(q, b, done)
  <2>1. Waiting(q, b)
    <3>1. /\ q.io = p.io /\ q.incoming = p.incoming /\ q.close_received = p.close_received /\ q.init = p.init
      BY <1>11 DEF Same
    <3>2. Waiting(p, b)
      BY <1>6 DEF Sock
    <3> QED BY <3>1, <3>2, WaitingSame
  <2>2. Line(q, b, done)
    <3>1. Line(p, b, done) /\ ~p.starting /\ b.fault = "frame" /\ h.type = "hangup"
      BY <1>3, <1>5, <1>6, <1>7 DEF Sock
    <3>2. \A i \in DOMAIN q.outgoing : q.outgoing[i] = h \/ \E j \in DOMAIN p.outgoing : q.outgoing[i] = p.outgoing[j]
      BY <1>10, <1>11
    <3>3. Same(p, q) /\ q.io = p.io /\ q.close_sent
      BY <1>11
    <3> QED BY <3>1, <3>2, <3>3, FrontLine
  <2> QED BY <2>1, <2>2 DEF Sock
<1>13. \A c \in Channels : Owner[c] # s => Foreign(c, q, b)
  BY <1>3, <1>11, OutForeign
<1>14. ASSUME NEW c \in Channels, Owner[c] = s
       PROVE  Chan(c, q, b, done, by_channel[c] # NoSocket, told[c], came[c])
  <2>1. Chan(c, p, b, done, by_channel[c] # NoSocket, told[c], came[c])
    BY <1>3, <1>4, <1>14
  <2>2. StreamOf(c, q, b, done, by_channel[c] # NoSocket, told[c])
    BY <1>11, <2>1 DEF Chan, StreamOf, Same
  <2>3. Account(c, q, b, done, told[c], came[c])
    BY <1>11, <2>1 DEF Chan, Account, Same
  <2>4. View(c, b.seen, q.outgoing) = View(c, b.seen, p.outgoing)
    <3>1. View(c, b.seen, o) = View(c, b.seen, p.outgoing)
      <4>1. o = Cat(<<h>>, p.outgoing)
        BY <1>9 DEF Cat
      <4> QED BY <1>7, <1>8, <4>1, ViewFront
    <3> QED BY <1>11, <3>1
  <2>5. State(q) # "OPEN"
    BY <1>11, StateIs
  <2>6. Shown(c, q, b, by_channel[c] # NoSocket, told[c], came[c])
    BY <2>1, <2>4, <2>5 DEF Chan, Shown
  <2> QED BY <1>11, <2>1, <2>2, <2>3, <2>6 DEF Chan, Same
<1> QED BY <1>1, <1>11, <1>12, <1>13, <1>14, SocketOnly

\* The init of the browser.
LEMMA InputInitInv ==
  ASSUME WebInv, NEW s \in Sockets, socket[s].io = "open", socket[s].handshake, socket[s].incoming # <<>>,
         Head(socket[s].incoming).type = "init",
         socket' = [socket EXCEPT ![s] = [Drop(socket[s]) EXCEPT !.init = TRUE]],
         UNCHANGED <<service, by_channel, browser, up, told, came>>
  PROVE  WebInv'
<1>1. PICK k, b, done, p : k = socket[s] /\ b = browser[s] /\ done = service.sent_done /\ p = Drop(k)
  OBVIOUS
<1>2. PICK q : q = [p EXCEPT !.init = TRUE]
  OBVIOUS
<1>3. k \in SocketType /\ b \in BrowserType /\ done \in BOOLEAN /\ Sock(k, b, done)
  BY <1>1, Pieces
<1>4. /\ p \in SocketType /\ p.close_received = k.close_received
      /\ \A c \in Channels : Owner[c] # s => Foreign(c, p, b)
      /\ \A c \in Channels : Owner[c] = s =>
           (Head(k.incoming) \notin Words(c) \/ k.close_received \/ done =>
                 Chan(c, p, b, done, by_channel[c] # NoSocket, told[c], came[c]))
  BY <1>1, InputIs
<1>5. \A c \in Channels : Head(k.incoming) \notin Words(c)
  BY <1>1, WordsApart
<1>6. /\ q \in SocketType /\ Bare(p, q) /\ q.close_received = p.close_received /\ q.channels = p.channels /\ q.init
  BY <1>2, <1>4 DEF SocketType, Bare
<1>7. /\ Line(p, b, done)
      /\ \A i \in DOMAIN p.incoming :
              /\ p.incoming[i].type = "invalid" => b.fault = "command"
              /\ p.incoming[i].type = "malformed" => b.fault = "frame"
              /\ p.incoming[i].type = "hangup" =>
                   /\ b.hung /\ ~k.close_received
                   /\ \A j \in DOMAIN p.incoming : p.incoming[j].type = "hangup" => j = i
  BY <1>1, <1>3, DropRest
<1>8. k.close_received => b.hung
  BY <1>3 DEF Sock, Waiting
<1>9. Waiting(q, b)
  BY <1>4, <1>6, <1>7, <1>8 DEF Waiting, Bare
<1>10. Line(q, b, done)
  BY <1>6, <1>7 DEF Line, Bare
<1>11. \A c \in Channels : Owner[c] # s => Foreign(c, q, browser[s])
  BY <1>1, <1>4, <1>6 DEF Foreign, Bare
<1>12. \A c \in Channels : Owner[c] = s =>
           Chan(c, q, browser[s], service.sent_done, by_channel[c] # NoSocket, told[c], came[c])
  BY <1>1, <1>4, <1>5, <1>6, BareChan
<1>13. socket' = [socket EXCEPT ![s] = q] /\ Sock(q, browser[s], service.sent_done)
  BY <1>1, <1>2, <1>9, <1>10 DEF Sock
<1> QED BY <1>6, <1>11, <1>12, <1>13, SocketOnly

\* A frame with a channel is of this channel only.
LEMMA WordIs ==
  ASSUME NEW m \in Frame, m.type \in {"open", "data", "close"}
  PROVE  /\ m.channel \in Channels /\ m = Msg(m.type, m.channel) /\ m \in Words(m.channel) /\ m \in Message
         /\ \A e \in Channels : e # m.channel => m \notin Words(e)
<1>1. m \in Message
  BY DEF Frame
<1>2. m.channel \in Channels /\ m = Msg(m.type, m.channel)
  BY <1>1 DEF Message, Msg
<1>3. m \in Words(m.channel)
  BY <1>2 DEF Words
<1> QED BY <1>1, <1>2, <1>3, Apart

\* A frame of channel c is taken, and nothing changes but of this channel.
LEMMA OneChannel ==
  ASSUME WebInv, NEW s \in Sockets, socket[s].io = "open", socket[s].handshake, socket[s].incoming # <<>>,
         NEW c \in Channels, Owner[c] = s, \A e \in Channels : e # c => Head(socket[s].incoming) \notin Words(e),
         Head(socket[s].incoming).type # "init",
         NEW q \in SocketType, Bare(Drop(socket[s]), q), q.close_received = socket[s].close_received,
         q.init = socket[s].init,
         \A e \in Channels : e # c => (e \in q.channels <=> e \in socket[s].channels),
         NEW u \in Seq(Message), NEW z \in {NoSocket, s}, told[c] # <<>> => u # <<>>,
         Chan(c, q, browser[s], service.sent_done, z # NoSocket, u, came[c]),
         told' = [told EXCEPT ![c] = u], by_channel' = [by_channel EXCEPT ![c] = z],
         socket' = [socket EXCEPT ![s] = q], UNCHANGED <<service, browser, up, came>>
  PROVE  WebInv'
<1>1. PICK k, b, done, p : k = socket[s] /\ b = browser[s] /\ done = service.sent_done /\ p = Drop(k)
  OBVIOUS
<1>2. /\ k \in SocketType /\ b \in BrowserType /\ done \in BOOLEAN /\ Sock(k, b, done)
      /\ told \in [Channels -> Seq(Message)] /\ by_channel \in [Channels -> Sockets \cup {NoSocket}]
  BY <1>1, Pieces
<1>3. /\ p \in SocketType /\ p.close_received = k.close_received /\ p.channels = k.channels /\ p.init = k.init
      /\ \A e \in Channels : Owner[e] # s => Foreign(e, p, b)
      /\ \A e \in Channels : Owner[e] = s =>
           /\ by_channel[e] \in {NoSocket, s}
           /\ (Head(k.incoming) \notin Words(e) \/ k.close_received \/ done =>
                 Chan(e, p, b, done, by_channel[e] # NoSocket, told[e], came[e]))
  BY <1>1, InputIs
<1>4. Head(k.incoming) # [type |-> "init"]
  BY <1>1
<1>5. Sock(p, b, done)
  BY <1>1, <1>2, <1>4, DropSock
<1>6. /\ Bare(p, q) /\ q.close_received = p.close_received /\ q.init = p.init
      /\ \A e \in Channels : e # c => (e \in q.channels <=> e \in p.channels)
  BY <1>1, <1>3
<1>7. Sock(q, b, done)
  <2>1. Waiting(q, b)
    BY <1>5, <1>6, WaitingSame DEF Sock, Bare
  <2>2. Line(q, b, done)
    BY <1>5, <1>6 DEF Sock, Line, Bare
  <2> QED BY <2>1, <2>2 DEF Sock
<1>8. \A e \in Channels : Owner[e] # s => Foreign(e, q, b)
  BY <1>3, <1>6 DEF Foreign, Bare
<1>9. \A e \in Channels : Owner[e] = s /\ e # c => Chan(e, q, b, done, by_channel[e] # NoSocket, told[e], came[e])
  BY <1>1, <1>3, <1>6, BareChan
<1>10. /\ told' \in [Channels -> Seq(Message)] /\ by_channel' \in [Channels -> Sockets \cup {NoSocket}]
       /\ told'[c] = u /\ by_channel'[c] = z
       /\ \A e \in Channels : e # c => told'[e] = told[e] /\ by_channel'[e] = by_channel[e]
  BY <1>2
<1>11. \A e \in Channels : Owner[e] # s =>
           told'[e] = told[e] /\ by_channel'[e] = by_channel[e] /\ Foreign(e, q, browser[s])
  BY <1>1, <1>8, <1>10
<1>12. ASSUME NEW e \in Channels, Owner[e] = s
       PROVE  /\ by_channel'[e] \in {NoSocket, s}
              /\ told[e] # <<>> => told'[e] # <<>>
              /\ Chan(e, q, browser[s], service.sent_done, by_channel'[e] # NoSocket, told'[e], came[e])
  <2>1. CASE e = c
    BY <1>10, <2>1
  <2>2. CASE e # c
    BY <1>1, <1>3, <1>9, <1>10, <1>12, <2>2
  <2> QED BY <2>1, <2>2
<1>13. Sock(q, browser[s], service.sent_done)
  BY <1>1, <1>7
<1> QED BY <1>10, <1>11, <1>12, <1>13, InputStep

\* What a frame of a channel makes of the channel, while the socket is served.
LEMMA SaysChan ==
  ASSUME NEW k \in SocketType, k.incoming # <<>>, NEW b \in BrowserType, NEW c \in Channels,
         NEW known, NEW t \in Seq(Message), NEW r \in Seq(Message), Chan(c, k, b, FALSE, known, t, r),
         ~k.close_received, k.handshake, Head(k.incoming) = Msg("data", c)
  PROVE  Chan(c, Drop(k), b, FALSE, known, Append(t, Msg("data", c)), r)
<1>1. PICK p, u, m : p = Drop(k) /\ m = Msg("data", c) /\ u = Append(t, m)
  OBVIOUS
<1>2. /\ Same(k, p) /\ p.io = k.io /\ p.close_sent = k.close_sent
      /\ p.outgoing = k.outgoing /\ p.incoming = Tail(k.incoming) /\ k.incoming \in Seq(Frame)
  BY <1>1, DropIs DEF SocketType
<1>3. m \in Message /\ m.type = "data"
  BY <1>1, WordsApart DEF Words
<1>4. /\ t # <<>> /\ (b.fault # "command" => ~Has(t, "close"))
      /\ Stream(Tail(k.incoming), c, b.sent[c], u, known, ~k.close_received /\ ~FALSE, b.fault # "command",
                k.io = "open" /\ ~b.gone)
  BY <1>1, <1>2, StreamSays DEF Chan, StreamOf
<1>5. StreamOf(c, p, b, FALSE, known, u)
  BY <1>2, <1>4 DEF StreamOf, Same
<1>6. u \in Seq(Message) /\ u # <<>> /\ (Has(u, "close") <=> Has(t, "close"))
  BY <1>1, <1>3, Appends, HasAppend
<1>7. b.fault # "command" => Formed(u)
  BY <1>1, <1>3, <1>4, FormedSays DEF Chan, Account
<1>8. Account(c, p, b, FALSE, u, r)
  BY <1>2, <1>4, <1>6, <1>7 DEF Chan, Account, Same
<1>9. State(p) = State(k)
  BY <1>2 DEF State, Same
<1>10. Shown(c, p, b, known, u, r)
  BY <1>2, <1>6, <1>9 DEF Chan, Shown
<1>11. c \in p.channels => known
  BY <1>2 DEF Chan, Same
<1> QED BY <1>1, <1>5, <1>8, <1>10, <1>11 DEF Chan

\* An open that waits is of a channel nobody has heard of,
LEMMA OpensFresh ==
  ASSUME NEW k \in SocketType, k.incoming # <<>>, NEW b \in BrowserType, NEW c \in Channels,
         NEW known, NEW t \in Seq(Message), NEW r, Chan(c, k, b, FALSE, known, t, r),
         Head(k.incoming) = Msg("open", c)
  PROVE  t = <<>> /\ ~known
<1>1. 1 \in DOMAIN k.incoming /\ k.incoming[1] = Msg("open", c)
  BY DropTail
<1> QED BY <1>1 DEF Chan, StreamOf, Stream

\* which enters the tables.
LEMMA OpensChan ==
  ASSUME NEW k \in SocketType, k.incoming # <<>>, NEW b \in BrowserType, NEW c \in Channels,
         NEW known, NEW t \in Seq(Message), NEW r \in Seq(Message), Chan(c, k, b, FALSE, known, t, r),
         ~k.close_received, k.handshake, Head(k.incoming) = Msg("open", c),
         NEW q, Bare(Drop(k), q), q.close_received = k.close_received, c \in q.channels
  PROVE  Chan(c, q, b, FALSE, TRUE, Append(t, Msg("open", c)), r)
<1>1. PICK u : u = Append(t, Msg("open", c))
  OBVIOUS
<1>2. PICK p : p = Drop(k)
  OBVIOUS
<1>3. /\ p.io = k.io /\ p.close_sent = k.close_sent /\ p.handshake = k.handshake
      /\ p.outgoing = k.outgoing /\ p.incoming = Tail(k.incoming) /\ k.incoming \in Seq(Frame)
  BY <1>2, DropIs DEF SocketType, Same
<1>4. /\ q.io = k.io /\ q.close_sent = k.close_sent /\ q.handshake = k.handshake
      /\ q.outgoing = k.outgoing /\ q.incoming = Tail(k.incoming)
  BY <1>2, <1>3 DEF Bare
<1>5. /\ t = <<>> /\ ~known
      /\ Stream(Tail(k.incoming), c, b.sent[c], u, TRUE, ~k.close_received /\ ~FALSE, b.fault # "command",
                k.io = "open" /\ ~b.gone)
  <2>1. PICK n, live, sane, talks : /\ n = b.sent[c] /\ live = (~k.close_received /\ ~FALSE)
                                    /\ sane = (b.fault # "command") /\ talks = (k.io = "open" /\ ~b.gone)
    OBVIOUS
  <2>2. Stream(k.incoming, c, n, t, known, live, sane, talks)
    BY <2>1 DEF Chan, StreamOf
  <2>3. t = <<>> /\ ~known /\ Stream(Tail(k.incoming), c, n, Append(t, Msg("open", c)), TRUE, live, sane, talks)
    BY <1>3, <2>2, StreamOpens
  <2> QED BY <1>1, <2>1, <2>3
<1>6. StreamOf(c, q, b, FALSE, TRUE, u)
  BY <1>4, <1>5 DEF StreamOf
<1>7. Formed(u) /\ u # <<>> /\ ~Has(u, "close") /\ u \in Seq(Message)
  BY <1>1, <1>5, FormedOpens
<1>8. Account(c, q, b, FALSE, u, r)
  BY <1>4, <1>7 DEF Account
<1>9. State(q) = State(k)
  BY <1>4 DEF State
<1>10. ~Has(t, "close")
  BY <1>5 DEF Has
<1>11. Shown(c, q, b, TRUE, u, r)
  BY <1>4, <1>9, <1>10 DEF Chan, Shown
<1> QED BY <1>1, <1>5, <1>6, <1>7, <1>8, <1>11 DEF Chan

\* A close that waits is told, and the channel leaves the tables.
LEMMA ClosesChan ==
  ASSUME NEW k \in SocketType, k.incoming # <<>>, NEW b \in BrowserType, NEW c \in Channels,
         NEW known, NEW t \in Seq(Message), NEW r \in Seq(Message), Chan(c, k, b, FALSE, known, t, r),
         ~k.close_received, k.handshake, Head(k.incoming) = Msg("close", c),
         NEW q, Bare(Drop(k), q), q.close_received = k.close_received, c \notin q.channels
  PROVE  Chan(c, q, b, FALSE, FALSE, Append(t, Msg("close", c)), r)
<1>1. PICK u, m : m = Msg("close", c) /\ u = Append(t, m)
  OBVIOUS
<1>2. PICK p : p = Drop(k)
  OBVIOUS
<1>3. /\ p.io = k.io /\ p.close_sent = k.close_sent /\ p.handshake = k.handshake
      /\ p.outgoing = k.outgoing /\ p.incoming = Tail(k.incoming) /\ k.incoming \in Seq(Frame)
  BY <1>2, DropIs DEF SocketType, Same
<1>4. /\ q.io = k.io /\ q.close_sent = k.close_sent /\ q.handshake = k.handshake
      /\ q.outgoing = k.outgoing /\ q.incoming = Tail(k.incoming)
  BY <1>2, <1>3 DEF Bare
<1>5. /\ t # <<>> /\ (b.fault # "command" => ~Has(t, "close"))
      /\ Stream(Tail(k.incoming), c, b.sent[c], u, FALSE, ~k.close_received /\ ~FALSE, b.fault # "command",
                k.io = "open" /\ ~b.gone)
  BY <1>1, <1>3, StreamCloses DEF Chan, StreamOf
<1>6. StreamOf(c, q, b, FALSE, FALSE, u)
  BY <1>4, <1>5 DEF StreamOf
<1>7. m \in Message /\ m.type = "close"
  BY <1>1, WordsApart DEF Words
<1>8. u \in Seq(Message) /\ u # <<>> /\ Has(u, "close")
  BY <1>1, <1>7, Appends, HasAppend
<1>9. b.fault # "command" => Formed(u)
  BY <1>1, <1>5, <1>7, FormedSays DEF Chan, Account
<1>10. Account(c, q, b, FALSE, u, r)
  BY <1>4, <1>8, <1>9 DEF Account
<1>11. Shown(c, q, b, FALSE, u, r)
  BY <1>4, <1>8 DEF Chan, Shown
<1> QED BY <1>1, <1>6, <1>10, <1>11 DEF Chan

\* The channel a frame is of, and what is known of it.
LEMMA InputWord ==
  ASSUME WebInv, NEW s \in Sockets, socket[s].io = "open", socket[s].handshake, socket[s].incoming # <<>>,
         NEW m, m = Head(socket[s].incoming), m.type \in {"open", "data", "close"}
  PROVE  /\ m.channel \in Channels /\ m = Msg(m.type, m.channel) /\ m \in Message /\ Owner[m.channel] = s
         /\ \A e \in Channels : e # m.channel => Head(socket[s].incoming) \notin Words(e)
         /\ by_channel[m.channel] \in {NoSocket, s}
         /\ told[m.channel] \in Seq(Message) /\ came[m.channel] \in Seq(Message)
         /\ Chan(m.channel, socket[s], browser[s], service.sent_done, by_channel[m.channel] # NoSocket,
                 told[m.channel], came[m.channel])
<1>1. PICK p : p = Drop(socket[s])
  OBVIOUS
<1>2. m \in Frame /\ \A c \in Channels : Owner[c] # s => m \notin Words(c)
  BY <1>1, InputIs
<1>3. /\ m.channel \in Channels /\ m = Msg(m.type, m.channel) /\ m \in Words(m.channel) /\ m \in Message
      /\ \A e \in Channels : e # m.channel => m \notin Words(e)
  BY <1>2, WordIs
<1>4. Owner[m.channel] = s
  BY <1>2, <1>3
<1> QED BY <1>3, <1>4, Pieces

\* A payload message is passed on to the bridge.
LEMMA InputDataInv ==
  ASSUME WebInv, NEW s \in Sockets, socket[s].io = "open", socket[s].handshake, socket[s].incoming # <<>>,
         ~socket[s].close_received, NEW m, m = Head(socket[s].incoming), m.type = "data",
         Payload(s, Drop(socket[s]), m), UNCHANGED <<service, browser, up, came>>
  PROVE  WebInv'
<1>1. PICK c, p : c = m.channel /\ p = Drop(socket[s])
  OBVIOUS
<1>2. /\ c \in Channels /\ m = Msg("data", c) /\ m \in Message /\ Owner[c] = s
      /\ \A e \in Channels : e # c => Head(socket[s].incoming) \notin Words(e)
      /\ by_channel[c] \in {NoSocket, s} /\ told[c] \in Seq(Message) /\ came[c] \in Seq(Message)
      /\ Chan(c, socket[s], browser[s], service.sent_done, by_channel[c] # NoSocket, told[c], came[c])
  BY <1>1, InputWord
<1>3. /\ socket[s] \in SocketType /\ browser[s] \in BrowserType /\ service.closing = service.sent_done
      /\ service.sent_done \in BOOLEAN
  BY Pieces
<1>4. socket' = [socket EXCEPT ![s] = p] /\ by_channel' = by_channel
  BY <1>1 DEF Payload
<1>5. CASE service.sent_done
  <2>1. told' = told
    BY <1>5 DEF Payload, TellNothing
  <2>2. Head(socket[s].incoming) # [type |-> "init"]
    OBVIOUS
  <2> QED BY <1>1, <1>4, <1>5, <2>1, <2>2, InputDroppedInv
<1>6. CASE ~service.sent_done
  <2>1. PICK u : u = Append(told[c], m)
    OBVIOUS
  <2>2. told' = [told EXCEPT ![c] = u]
    BY <1>1, <1>3, <1>6, <2>1 DEF Payload, Tell
  <2>3. u \in Seq(Message) /\ u # <<>>
    BY <1>2, <2>1, Appends
  <2>4. Chan(c, socket[s], browser[s], FALSE, by_channel[c] # NoSocket, told[c], came[c])
    BY <1>2, <1>3, <1>6
  <2>5. Chan(c, p, browser[s], FALSE, by_channel[c] # NoSocket, u, came[c])
    BY <1>1, <1>2, <1>3, <2>1, <2>4, SaysChan
  <2>6. Chan(c, p, browser[s], service.sent_done, by_channel[c] # NoSocket, u, came[c])
    BY <1>3, <1>6, <2>5
  <2>7. p \in SocketType /\ Bare(p, p) /\ p.close_received = socket[s].close_received /\ p.init = socket[s].init
        /\ p.channels = socket[s].channels
    BY <1>1, InputIs DEF Bare
  <2>8. by_channel' = [by_channel EXCEPT ![c] = by_channel[c]]
    BY <1>4 DEF WebInv, WebTypes
  <2>9. PICK z \in {NoSocket, s} : z = by_channel[c]
    BY <1>2
  <2>10. /\ Chan(c, p, browser[s], service.sent_done, z # NoSocket, u, came[c])
         /\ by_channel' = [by_channel EXCEPT ![c] = z] /\ Bare(Drop(socket[s]), p)
         /\ Head(socket[s].incoming).type # "init"
    BY <1>1, <2>6, <2>7, <2>8, <2>9
  <2>11. \A e \in Channels : e # c => (e \in p.channels <=> e \in socket[s].channels)
    BY <2>7
  <2> QED BY <1>2, <1>4, <2>2, <2>3, <2>7, <2>9, <2>10, <2>11, OneChannel
<1> QED BY <1>3, <1>5, <1>6

\* An open is passed on (process_and_relay_open).
LEMMA InputOpenInv ==
  ASSUME WebInv, NEW s \in Sockets, socket[s].io = "open", socket[s].handshake, socket[s].incoming # <<>>,
         ~socket[s].close_received, NEW m, m = Head(socket[s].incoming), m.type = "open",
         Open(s, Drop(socket[s]), m), UNCHANGED <<service, browser, up, came>>
  PROVE  WebInv'
<1>1. PICK c, p : c = m.channel /\ p = Drop(socket[s])
  OBVIOUS
<1>2. /\ c \in Channels /\ m = Msg("open", c) /\ m \in Message /\ Owner[c] = s
      /\ \A e \in Channels : e # c => Head(socket[s].incoming) \notin Words(e)
      /\ by_channel[c] \in {NoSocket, s} /\ told[c] \in Seq(Message) /\ came[c] \in Seq(Message)
      /\ Chan(c, socket[s], browser[s], service.sent_done, by_channel[c] # NoSocket, told[c], came[c])
  BY <1>1, InputWord
<1>3. /\ socket[s] \in SocketType /\ browser[s] \in BrowserType /\ service.closing = service.sent_done
      /\ service.sent_done \in BOOLEAN
  BY Pieces
<1>4. CASE service.sent_done
  <2>1. told' = told /\ by_channel' = by_channel /\ socket' = [socket EXCEPT ![s] = p]
    BY <1>1, <1>3, <1>4 DEF Open, TellNothing
  <2>2. Head(socket[s].incoming) # [type |-> "init"]
    OBVIOUS
  <2> QED BY <1>1, <1>4, <2>1, <2>2, InputDroppedInv
<1>5. CASE ~service.sent_done
  <2>1. PICK u, q : u = Append(told[c], m) /\ q = [p EXCEPT !.channels = p.channels \cup {c}]
    OBVIOUS
  <2>2. /\ p \in SocketType /\ p.close_received = socket[s].close_received /\ p.init = socket[s].init
        /\ p.channels = socket[s].channels
    BY <1>1, InputIs
  <2>3. /\ q \in SocketType /\ Bare(p, q) /\ q.close_received = socket[s].close_received
        /\ q.init = socket[s].init /\ q.channels = socket[s].channels \cup {c}
    BY <1>2, <2>1, <2>2 DEF SocketType, Bare
  <2>4. Chan(c, socket[s], browser[s], FALSE, by_channel[c] # NoSocket, told[c], came[c])
    BY <1>2, <1>3, <1>5
  <2>5. PICK known \in BOOLEAN : known = (by_channel[c] # NoSocket)
    OBVIOUS
  <2>6. ~known /\ u \in Seq(Message) /\ u # <<>> /\ Chan(c, q, browser[s], FALSE, TRUE, u, came[c])
    <3>1. Head(socket[s].incoming) = Msg("open", c) /\ Bare(Drop(socket[s]), q) /\ c \in q.channels
      BY <1>1, <1>2, <2>3
    <3>2. Chan(c, socket[s], browser[s], FALSE, known, told[c], came[c])
      BY <2>4, <2>5
    <3>3. PICK t, r : t = told[c] /\ r = came[c] /\ t \in Seq(Message) /\ r \in Seq(Message)
      BY <1>2
    <3>4. q.close_received = socket[s].close_received /\ c \in Channels
      BY <1>2, <2>3
    <3>5. t = <<>> /\ ~known
      BY <1>3, <3>1, <3>2, <3>3, <3>4, OpensFresh
    <3>6. Chan(c, q, browser[s], FALSE, TRUE, Append(t, Msg("open", c)), r)
      BY <1>3, <3>1, <3>2, <3>3, <3>4, OpensChan
    <3>7. u \in Seq(Message) /\ u # <<>>
      BY <1>2, <2>1, Appends
    <3> QED BY <1>2, <2>1, <3>3, <3>5, <3>6, <3>7
  <2>7. by_channel[c] = NoSocket
    BY <2>5, <2>6
  <2>8. /\ by_channel' = [by_channel EXCEPT ![c] = s] /\ socket' = [socket EXCEPT ![s] = q]
        /\ told' = [told EXCEPT ![c] = u]
    BY <1>1, <1>3, <1>5, <2>1, <2>7 DEF Open, Tell
  <2>9. s # NoSocket
    BY WebServiceAssumption
  <2>10. Chan(c, q, browser[s], service.sent_done, s # NoSocket, u, came[c])
    BY <1>3, <1>5, <2>6, <2>9
  <2>11. \A e \in Channels : e # c => (e \in q.channels <=> e \in socket[s].channels)
    BY <2>3
  <2>12. Bare(Drop(socket[s]), q) /\ s \in {NoSocket, s} /\ Head(socket[s].incoming).type # "init"
    BY <1>1, <2>3
  <2> QED BY <1>2, <2>3, <2>6, <2>8, <2>10, <2>11, <2>12, OneChannel
<1> QED BY <1>3, <1>4, <1>5

\* A close is passed on (process_and_relay_close).
LEMMA InputCloseInv ==
  ASSUME WebInv, NEW s \in Sockets, socket[s].io = "open", socket[s].handshake, socket[s].incoming # <<>>,
         ~socket[s].close_received, NEW m, m = Head(socket[s].incoming), m.type = "close",
         Close(s, Drop(socket[s]), m), UNCHANGED <<service, browser, up, came>>
  PROVE  WebInv'
<1>1. PICK c, p : c = m.channel /\ p = Drop(socket[s])
  OBVIOUS
<1>2. /\ c \in Channels /\ m = Msg("close", c) /\ m \in Message /\ Owner[c] = s
      /\ \A e \in Channels : e # c => Head(socket[s].incoming) \notin Words(e)
      /\ by_channel[c] \in {NoSocket, s} /\ told[c] \in Seq(Message) /\ came[c] \in Seq(Message)
      /\ Chan(c, socket[s], browser[s], service.sent_done, by_channel[c] # NoSocket, told[c], came[c])
  BY <1>1, InputWord
<1>3. /\ socket[s] \in SocketType /\ browser[s] \in BrowserType /\ service.sent_done \in BOOLEAN
  BY Pieces
<1>4. PICK q : q = [p EXCEPT !.channels = p.channels \ {c}]
  OBVIOUS
<1>5. /\ by_channel' = [by_channel EXCEPT ![c] = NoSocket] /\ socket' = [socket EXCEPT ![s] = q]
  BY <1>1, <1>4 DEF Close, Removed
<1>6. /\ p \in SocketType /\ p.close_received = socket[s].close_received /\ p.init = socket[s].init
      /\ p.channels = socket[s].channels
      /\ service.sent_done =>
           Chan(c, p, browser[s], service.sent_done, by_channel[c] # NoSocket, told[c], came[c])
  <2>1. /\ p \in SocketType /\ p.close_received = socket[s].close_received /\ p.init = socket[s].init
        /\ p.channels = socket[s].channels
        /\ \A e \in Channels : Owner[e] = s /\ service.sent_done =>
             Chan(e, p, browser[s], service.sent_done, by_channel[e] # NoSocket, told[e], came[e])
    BY <1>1, InputIs
  <2> QED BY <1>2, <2>1
<1>7. /\ q \in SocketType /\ Bare(p, q) /\ q.close_received = socket[s].close_received
      /\ q.init = socket[s].init /\ q.channels = socket[s].channels \ {c}
  BY <1>2, <1>4, <1>6 DEF SocketType, Bare
<1>8. /\ \A e \in Channels : e # c => (e \in q.channels <=> e \in socket[s].channels)
      /\ c \notin q.channels
  BY <1>7
<1>9. Bare(Drop(socket[s]), q) /\ NoSocket \in {NoSocket, s} /\ Head(socket[s].incoming).type # "init"
  BY <1>1, <1>7
<1>10. CASE service.sent_done
  <2>1. told' = [told EXCEPT ![c] = told[c]]
    BY <1>10 DEF Close, TellNothing, WebInv, WebTypes
  <2>2. Chan(c, p, browser[s], TRUE, by_channel[c] # NoSocket, told[c], came[c])
    BY <1>3, <1>6, <1>10
  <2>3. StreamOf(c, q, browser[s], TRUE, FALSE, told[c])
    BY <1>6, <1>7, <2>2, StreamWeaken DEF Chan, StreamOf, Bare
  <2>4. Account(c, q, browser[s], TRUE, told[c], came[c])
    BY <1>6, <1>7, <2>2 DEF Chan, Account, Bare
  <2>5. State(q) = State(p)
    BY <1>7 DEF State, Bare
  <2>6. Shown(c, q, browser[s], FALSE, told[c], came[c])
    BY <1>7, <2>2, <2>5 DEF Chan, Shown, Bare
  <2>7. Chan(c, q, browser[s], service.sent_done, NoSocket # NoSocket, told[c], came[c])
    BY <1>3, <1>8, <1>10, <2>3, <2>4, <2>6 DEF Chan
  <2>8. PICK u \in Seq(Message) : u = told[c]
    BY <1>2
  <2> QED BY <1>2, <1>5, <1>7, <1>8, <1>9, <2>1, <2>7, <2>8, OneChannel
<1>11. CASE ~service.sent_done
  <2>1. PICK u : u = Append(told[c], m)
    OBVIOUS
  <2>2. told' = [told EXCEPT ![c] = u]
    BY <1>1, <1>11, <2>1 DEF Close, Tell
  <2>3. u \in Seq(Message) /\ u # <<>>
    BY <1>2, <2>1, Appends
  <2>4. Chan(c, socket[s], browser[s], FALSE, by_channel[c] # NoSocket, told[c], came[c])
    BY <1>2, <1>3, <1>11
  <2>5. Chan(c, q, browser[s], FALSE, FALSE, u, came[c])
    <3>1. Head(socket[s].incoming) = Msg("close", c)
      BY <1>2
    <3>2. PICK known, t, r : /\ known = (by_channel[c] # NoSocket) /\ t = told[c] /\ r = came[c]
                             /\ t \in Seq(Message) /\ r \in Seq(Message)
      BY <1>2
    <3>3. Chan(c, socket[s], browser[s], FALSE, known, t, r)
      BY <2>4, <3>2
    <3>4. Chan(c, q, browser[s], FALSE, FALSE, Append(t, Msg("close", c)), r)
      BY <1>2, <1>3, <1>7, <1>8, <1>9, <3>1, <3>2, <3>3, ClosesChan
    <3> QED BY <1>2, <2>1, <3>2, <3>4
  <2>6. Chan(c, q, browser[s], service.sent_done, NoSocket # NoSocket, u, came[c])
    BY <1>3, <1>11, <2>5
  <2> QED BY <1>2, <1>5, <1>7, <1>8, <1>9, <2>2, <2>3, <2>6, OneChannel
<1> QED BY <1>3, <1>10, <1>11

\* A command that is not valid ends the socket (inbound_protocol_error).
LEMMA InputInvalidInv ==
  ASSUME WebInv, NEW s \in Sockets, socket[s].io = "open", socket[s].handshake, socket[s].incoming # <<>>,
         ~socket[s].close_received, Head(socket[s].incoming).type = "invalid",
         ProtocolError(s, Drop(socket[s])), UNCHANGED <<by_channel, service, browser, up, came>>
  PROVE  WebInv'
<1>1. PICK k, b, done, p : k = socket[s] /\ b = browser[s] /\ done = service.sent_done /\ p = Drop(k)
  OBVIOUS
<1>2. CASE State(p) # "OPEN"
  <2>1. told' = told /\ socket' = [socket EXCEPT ![s] = Drop(socket[s])]
    BY <1>1, <1>2 DEF ProtocolError, TellNothing
  <2> QED BY <2>1, InputDroppedInv
<1>3. CASE State(p) = "OPEN"
  <2>1. PICK m, q, z : m = [type |-> "problem"] /\ q = Sent(p, m) /\ z = Orderly(q)
    OBVIOUS
  <2>2. socket' = [socket EXCEPT ![s] = z] /\ TellCloses(s)
    BY <1>1, <1>3, <2>1 DEF ProtocolError
  <2>3. /\ k \in SocketType /\ b \in BrowserType /\ done \in BOOLEAN /\ Sock(k, b, done)
        /\ by_channel \in [Channels -> Sockets \cup {NoSocket}]
    BY <1>1, Pieces
  <2>4. /\ p \in SocketType /\ p.handshake /\ ~p.starting /\ p.io = "open" /\ p.channels = k.channels
        /\ p.close_received = k.close_received
        /\ \A c \in Channels : Owner[c] # s => Foreign(c, p, b)
    BY <1>1, InputIs
  <2>5. \A c \in Channels : Head(k.incoming) \notin Words(c)
    BY <1>1, WordsApart
  <2>6. \A c \in Channels : Owner[c] = s =>
              /\ by_channel[c] \in {NoSocket, s} /\ told[c] \in Seq(Message) /\ came[c] \in Seq(Message)
              /\ Chan(c, p, b, done, by_channel[c] # NoSocket, told[c], came[c])
    BY <1>1, <2>5, InputIs
  <2>7. b.fault = "command" /\ Head(k.incoming) # [type |-> "init"]
    BY <1>1, <2>3, DropRest
  <2>8. Sock(p, b, done)
    BY <1>1, <2>3, <2>7, DropSock
  <2>9. m \in Answer /\ m.type = "problem" /\ \A c \in Channels : m \notin Talk(c)
    BY <2>1 DEF Answer, Talk, Msg
  <2>10. q \in SocketType /\ Same(p, q) /\ Sock(q, b, done)
    BY <2>1, <2>3, <2>4, <2>8, <2>9, SentKeeps
  <2>11. z \in SocketType /\ Sock(z, b, done)
    BY <2>1, <2>3, <2>4, <2>7, <2>10, OrderlyType, OrderlySock DEF Same
  <2>12. /\ told' \in [Channels -> Seq(Message)]
         /\ \A c \in Channels : told'[c] = IF c \in k.channels /\ ~done THEN Append(told[c], Msg("close", c)) ELSE told[c]
    BY <1>1, <2>2, TellClosesIs
  <2>13. \A c \in Channels : Owner[c] # s =>
           told'[c] = told[c] /\ by_channel'[c] = by_channel[c] /\ Foreign(c, z, browser[s])
    <3>1. \A c \in Channels : Owner[c] # s => Foreign(c, q, b) /\ c \notin k.channels
      BY <2>1, <2>4, <2>9, SentForeign DEF Foreign
    <3> QED BY <1>1, <2>1, <2>10, <2>12, <3>1, OrderlyForeign
  <2>14. ASSUME NEW c \in Channels, Owner[c] = s
         PROVE  /\ Chan(c, z, b, done, by_channel[c] # NoSocket, told'[c], came[c])
                /\ told[c] # <<>> => told'[c] # <<>>
    <3>1. PICK known, t, r, u : /\ known = (by_channel[c] # NoSocket) /\ t = told[c] /\ r = came[c] /\ u = told'[c]
                                /\ t \in Seq(Message) /\ r \in Seq(Message)
      BY <2>6, <2>14
    <3>2. Chan(c, p, b, done, known, t, r)
      BY <2>6, <2>14, <3>1
    <3>3. u = Ending(c, p, done, t) \/ (u = t /\ (b.fault # "none" \/ done))
      BY <2>4, <2>12, <3>1 DEF Ending
    <3>4. PICK w : w = p
      OBVIOUS
    <3>5. Chan(c, w, b, done, known, u, r) /\ u \in Seq(Message) /\ (t # <<>> => u # <<>>)
      <4>1. /\ t \in Seq(Message) /\ b \in BrowserType /\ done \in BOOLEAN /\ p \in SocketType /\ w \in SocketType
        BY <2>3, <2>4, <3>1, <3>4
      <4>2. Bare(p, w) /\ w.channels = p.channels /\ p.handshake /\ ~p.close_received /\ p.io # "closed"
        BY <1>1, <2>4, <3>4 DEF Bare
      <4>3. w.close_received \/ b.fault = "command"
        BY <2>7
      <4> QED BY <3>2, <3>3, <4>1, <4>2, <4>3, EndsChan
    <3>6. Chan(c, q, b, done, known, u, r)
      BY <2>1, <2>3, <2>4, <2>9, <3>1, <3>4, <3>5, SentChan
    <3>7. Chan(c, z, b, done, known, u, r)
      BY <2>1, <2>3, <2>10, <3>1, <3>5, <3>6, OrderlyChan
    <3> QED BY <3>1, <3>5, <3>7
  <2>15. \A c \in Channels : Owner[c] = s =>
           /\ by_channel'[c] \in {NoSocket, s}
           /\ told[c] # <<>> => told'[c] # <<>>
           /\ Chan(c, z, browser[s], service.sent_done, by_channel'[c] # NoSocket, told'[c], came[c])
    BY <1>1, <2>6, <2>14
  <2>16. /\ by_channel' \in [Channels -> Sockets \cup {NoSocket}] /\ UNCHANGED <<service, browser, up, came>>
         /\ Sock(z, browser[s], service.sent_done)
    BY <1>1, <2>3, <2>11
  <2> QED BY <2>2, <2>11, <2>12, <2>13, <2>15, <2>16, InputStep
<1> QED BY <1>2, <1>3

\* Every frame that on_web_socket_input() takes, but for a logout.
LEMMA InputInv ==
  ASSUME WebInv, NEW s \in Sockets, Input(s)
  PROVE  WebInv'
<1>1. PICK m, p : m = Head(socket[s].incoming) /\ p = Drop(socket[s])
  OBVIOUS
<1>2. /\ socket[s].io = "open" /\ socket[s].handshake /\ socket[s].incoming # <<>> /\ m.type # "logout"
      /\ UNCHANGED <<service, browser, up, came>>
  BY <1>1 DEF Input
<1>3. m \in Frame /\ p.close_received = socket[s].close_received /\ p.init = socket[s].init
  BY <1>1, <1>2, InputIs, SMTT(40)
<1>4. CASE m.type = "hangup"
  <2>1. ReceiveClose(s, p) /\ UNCHANGED by_channel
    BY <1>1, <1>4 DEF Input, Drop
  <2> QED BY <1>1, <1>2, <1>4, <2>1, InputHangupInv
<1>5. CASE m.type = "malformed"
  <2>1. /\ UNCHANGED <<told, by_channel>>
        /\ socket' = [socket EXCEPT ![s] = IF State(p) = "OPEN"
                                  THEN [CloseSent(p, TRUE) EXCEPT !.outgoing = <<Hangup(TRUE)>> \o p.outgoing]
                                  ELSE p]
    BY <1>1, <1>5 DEF Input, Drop, TellNothing
  <2>2. CASE State(p) = "OPEN"
    BY <1>1, <1>2, <1>5, <2>1, <2>2, InputMalformedInv
  <2>3. CASE State(p) # "OPEN"
    BY <1>1, <1>2, <1>5, <2>1, <2>3, InputDroppedInv
  <2> QED BY <2>2, <2>3
<1>6. CASE m.type \notin {"hangup", "malformed"} /\ p.close_received
  <2>1. UNCHANGED <<told, by_channel>> /\ socket' = [socket EXCEPT ![s] = p]
    BY <1>1, <1>6 DEF Input, Drop, TellNothing
  <2> QED BY <1>1, <1>2, <1>3, <1>6, <2>1, InputDroppedInv
<1>7. CASE m.type \notin {"hangup", "malformed"} /\ ~p.close_received
  <2>1. Dispatch(s, p, m)
    BY <1>1, <1>7 DEF Input, Drop
  <2>2. socket[s] \in SocketType /\ browser[s] \in BrowserType /\ Sock(socket[s], browser[s], service.sent_done)
    BY Pieces
  <2>3. m \in Message => p.init
    BY <1>1, <1>2, <1>3, <1>7, <2>2, DropRest
  <2>4. m.type \in {"init", "data", "open", "close", "invalid"} /\ (m.type \in {"open", "data", "close"} => m \in Message)
    BY <1>2, <1>3, <1>7 DEF Frame, Message
  <2>5. CASE m.type = "init"
    <3>1. socket' = [socket EXCEPT ![s] = [p EXCEPT !.init = TRUE]] /\ UNCHANGED <<told, by_channel>>
      BY <2>1, <2>5 DEF Dispatch, TellNothing
    <3> QED BY <1>1, <1>2, <2>5, <3>1, InputInitInv
  <2>6. CASE m.type = "data"
    <3>1. Payload(s, p, m)
      BY <2>1, <2>6 DEF Dispatch
    <3> QED BY <1>1, <1>2, <1>3, <1>7, <2>6, <3>1, InputDataInv
  <2>7. CASE m.type = "open"
    <3>1. Open(s, p, m)
      BY <2>1, <2>3, <2>4, <2>7 DEF Dispatch
    <3> QED BY <1>1, <1>2, <1>3, <1>7, <2>7, <3>1, InputOpenInv
  <2>8. CASE m.type = "close"
    <3>1. Close(s, p, m)
      BY <2>1, <2>3, <2>4, <2>8 DEF Dispatch
    <3> QED BY <1>1, <1>2, <1>3, <1>7, <2>8, <3>1, InputCloseInv
  <2>9. CASE m.type = "invalid"
    <3>1. ProtocolError(s, p) /\ UNCHANGED by_channel
      BY <2>1, <2>9 DEF Dispatch
    <3> QED BY <1>1, <1>2, <1>3, <1>7, <2>9, <3>1, InputInvalidInv
  <2> QED BY <2>4, <2>5, <2>6, <2>7, <2>8, <2>9
<1> QED BY <1>4, <1>5, <1>6, <1>7
-----------------------------------------------------------------------------
(* The service is disposed. *)

\* Less is asked of a channel once the service is disposed,
LEMMA DoneChan ==
  ASSUME NEW k, NEW b, NEW c, NEW done, NEW known, NEW t, NEW r, Chan(c, k, b, done, known, t, r)
  PROVE  Chan(c, k, b, TRUE, known, t, r)
<1>1. StreamOf(c, k, b, TRUE, known, t)
  BY DEF Chan, StreamOf, Stream
<1>2. Account(c, k, b, TRUE, t, r)
  BY DEF Chan, Account
<1> QED BY <1>1, <1>2 DEF Chan

\* and of a socket that is closing,
LEMMA DoneSock ==
  ASSUME NEW k, NEW b, NEW done, Sock(k, b, done), k.io # "open" \/ k.close_sent
  PROVE  Sock(k, b, TRUE)
BY DEF Sock, Line

\* which it is after an orderly close.
LEMMA OrderlyDone ==
  ASSUME NEW k \in SocketType, NEW b \in BrowserType, NEW done, Sock(k, b, done)
  PROVE  Sock(Orderly(k), b, TRUE)
<1>1. PICK q : q = Orderly(k)
  OBVIOUS
<1>2. CASE ~k.handshake
  <2>1. q = IoClosed(k)
    BY <1>1, <1>2, OrderlyIs
  <2>2. CASE k.io # "open"
    <3>1. q = k
      BY <2>1, <2>2, IoClosedIs
    <3>2. Sock(k, b, TRUE)
      BY <2>2, DoneSock
    <3> QED BY <1>1, <3>1, <3>2
  <2>3. CASE k.io = "open"
    <3>1. /\ q \in SocketType /\ Same(k, q) /\ q.close_sent = k.close_sent /\ ~q.timeout
          /\ q.io = "closing" /\ q.incoming = <<>> /\ q.outgoing = <<>>
      BY <2>1, <2>3, IoClosedIs
    <3>2. DOMAIN q.incoming = {} /\ DOMAIN q.outgoing = {}
      BY <3>1
    <3>3. Waiting(q, b)
      BY <3>1, <3>2 DEF Sock, Waiting, Same
    <3>4. Line(q, b, TRUE)
      BY <3>1, <3>2 DEF Sock, Line, Same
    <3> QED BY <1>1, <3>3, <3>4 DEF Sock
  <2> QED BY <2>2, <2>3
<1>3. CASE k.handshake
  <2>1. /\ Same(k, q) /\ q.io = k.io /\ q.incoming = k.incoming /\ q.close_sent
    BY <1>1, <1>3, OrderlyIs
  <2>2. Waiting(q, b)
    BY <2>1, WaitingSame DEF Sock, Same
  <2>3. Line(q, b, TRUE)
    BY <1>3, <2>1 DEF Sock, Line, Same
  <2> QED BY <1>1, <2>2, <2>3 DEF Sock
<1> QED BY <1>2, <1>3

\* cockpit_web_service_dispose() closes every socket that is not closing yet.
LEMMA DisposeInv ==
  ASSUME WebInv, NEW K \in [Sockets -> SocketType], Dispose(K), UNCHANGED <<by_channel, browser, told, came>>,
         \A s \in Sockets : Sock(K[s], browser[s], service.sent_done),
         \A s \in Sockets, c \in Channels : Owner[c] # s => Foreign(c, K[s], browser[s]),
         \A c \in Channels : Chan(c, K[Owner[c]], browser[Owner[c]], service.sent_done,
                                  by_channel[c] # NoSocket, told[c], came[c])
  PROVE  WebInv'
<1>1. PICK Q : Q = SocketsClosed(K)
  OBVIOUS
<1>2. socket' = Q /\ up' = <<>> /\ service' = [service EXCEPT !.closing = TRUE, !.sent_done = TRUE]
  BY <1>1 DEF Dispose
<1>3. \A s \in Sockets : K[s] \in SocketType /\ browser[s] \in BrowserType
  BY Pieces
<1>4. /\ DOMAIN Q = Sockets /\ Q = [s \in Sockets |-> Q[s]]
      /\ \A s \in Sockets : Q[s] = IF K[s].tracked /\ State(K[s]) \in {"CONNECTING", "OPEN"}
                                   THEN Orderly(K[s]) ELSE K[s]
  BY <1>1 DEF SocketsClosed
<1>5. ASSUME NEW s \in Sockets
      PROVE  Q[s] = Orderly(K[s]) \/ (Q[s] = K[s] /\ (K[s].io # "open" \/ K[s].close_sent))
  <2>1. K[s] \in SocketType /\ Sock(K[s], browser[s], service.sent_done)
    BY <1>3
  <2>2. K[s].io = "open" => K[s].tracked
    BY <2>1 DEF Sock, Line
  <2>3. K[s].io = "open" /\ ~K[s].close_sent => State(K[s]) \in {"CONNECTING", "OPEN"}
    BY <2>1, StateIs DEF SocketType
  <2> QED BY <1>4, <2>2, <2>3
<1>6. \A s \in Sockets : Q[s] \in SocketType
  BY <1>3, <1>5, OrderlyType
<1>7. \A s \in Sockets : Sock(Q[s], browser[s], TRUE)
  BY <1>3, <1>5, OrderlyDone, DoneSock
<1>8. \A s \in Sockets, c \in Channels : Owner[c] # s => Foreign(c, Q[s], browser[s])
  BY <1>3, <1>5, OrderlyForeign
<1>9. ASSUME NEW c \in Channels
      PROVE  Chan(c, Q[Owner[c]], browser[Owner[c]], TRUE, by_channel[c] # NoSocket, told[c], came[c])
  <2>1. PICK s, known, t, r : s = Owner[c] /\ known = (by_channel[c] # NoSocket) /\ t = told[c] /\ r = came[c]
    OBVIOUS
  <2>2. s \in Sockets /\ t \in Seq(Message) /\ r \in Seq(Message)
    BY <2>1, WebServiceAssumption DEF WebInv, WebTypes
  <2>3. Chan(c, K[s], browser[s], TRUE, known, t, r)
    <3>1. Chan(c, K[s], browser[s], service.sent_done, known, t, r)
      BY <2>1
    <3> QED BY <3>1, DoneChan
  <2>4. Chan(c, Orderly(K[s]), browser[s], TRUE, known, t, r)
    BY <1>3, <2>2, <2>3, OrderlyChan
  <2>5. Chan(c, Q[s], browser[s], TRUE, known, t, r)
    BY <1>5, <2>2, <2>3, <2>4
  <2> QED BY <2>1, <2>5
<1>10. service' \in [closing : BOOLEAN, sent_done : BOOLEAN, init_received : BOOLEAN, callers : Int]
       /\ service'.closing = TRUE /\ service'.sent_done = TRUE
  BY <1>2 DEF WebInv, WebTypes
<1>11. WebTypes'
  <2>1. socket' \in [Sockets -> SocketType]
    BY <1>2, <1>4, <1>6
  <2>2. up' \in Seq(FromUp)
    BY <1>2
  <2> QED BY <1>10, <2>1, <2>2 DEF WebInv, WebTypes
<1>12. \A c \in Channels : Upward(c, told[c], came[c])'
  BY <1>2 DEF WebInv, Upward
<1>13. \A s \in Sockets : Sock(socket'[s], browser'[s], service'.sent_done)
  BY <1>2, <1>7, <1>10
<1>14. \A s \in Sockets, c \in Channels : Owner[c] # s => Foreign(c, socket'[s], browser'[s])
  BY <1>2, <1>8
<1>15. \A c \in Channels : Chan(c, socket'[Owner[c]], browser'[Owner[c]], service'.sent_done,
                                by_channel'[c] # NoSocket, told'[c], came'[c])
  BY <1>2, <1>9, <1>10
<1>16. \A c \in Channels : by_channel'[c] \in {NoSocket, Owner[c]}
  BY DEF WebInv
<1> QED BY <1>11, <1>12, <1>13, <1>14, <1>15, <1>16 DEF WebInv

\* The transport is closed (on_transport_closed).
LEMMA BridgeEndsInv ==
  ASSUME WebInv, BridgeEnds
  PROVE  WebInv'
<1>1. PICK K : K = socket /\ K \in [Sockets -> SocketType]
  BY DEF WebInv, WebTypes
<1>2. Dispose(K) /\ UNCHANGED <<by_channel, browser, told, came>>
  BY <1>1 DEF BridgeEnds
<1>3. /\ \A s \in Sockets : Sock(K[s], browser[s], service.sent_done)
      /\ \A s \in Sockets, c \in Channels : Owner[c] # s => Foreign(c, K[s], browser[s])
      /\ \A c \in Channels : Chan(c, K[Owner[c]], browser[Owner[c]], service.sent_done,
                                  by_channel[c] # NoSocket, told[c], came[c])
  BY <1>1 DEF WebInv
<1> QED BY <1>1, <1>2, <1>3, DisposeInv

\* A logout disposes the service.
LEMMA InputLogoutInv ==
  ASSUME WebInv, NEW s \in Sockets, InputLogout(s)
  PROVE  WebInv'
<1>1. PICK p, K : p = Drop(socket[s]) /\ K = [socket EXCEPT ![s] = p]
  OBVIOUS
<1>2. /\ socket[s].io = "open" /\ socket[s].handshake /\ socket[s].incoming # <<>>
      /\ Head(socket[s].incoming).type = "logout" /\ UNCHANGED <<by_channel, browser, told, came>>
  BY DEF InputLogout
<1>3. socket \in [Sockets -> SocketType]
  BY DEF WebInv, WebTypes
<1>4. [socket EXCEPT ![s].incoming = Tail(@)] = K
  BY <1>1, <1>3 DEF Drop
<1>5. CASE socket[s].close_received
  <2>1. socket' = K /\ UNCHANGED <<service, up>>
    BY <1>4, <1>5 DEF InputLogout
  <2> QED BY <1>1, <1>2, <1>5, <2>1, InputDroppedInv
<1>6. CASE ~socket[s].close_received
  <2>1. Dispose(K)
    BY <1>4, <1>6 DEF InputLogout
  <2>2. /\ p \in SocketType
        /\ \A c \in Channels : Owner[c] # s => Foreign(c, p, browser[s])
        /\ \A c \in Channels : Owner[c] = s =>
             (Head(socket[s].incoming) \notin Words(c) \/ socket[s].close_received \/ service.sent_done =>
                Chan(c, p, browser[s], service.sent_done, by_channel[c] # NoSocket, told[c], came[c]))
    BY <1>1, <1>2, InputIs
  <2>3. \A c \in Channels : Head(socket[s].incoming) \notin Words(c)
    BY <1>2, WordsApart
  <2>4. /\ socket[s] \in SocketType /\ browser[s] \in BrowserType /\ Sock(socket[s], browser[s], service.sent_done)
        /\ Head(socket[s].incoming) # [type |-> "init"]
    BY <1>2, Pieces
  <2>5. Sock(p, browser[s], service.sent_done)
    BY <1>1, <1>2, <2>4, DropSock
  <2>6. K \in [Sockets -> SocketType] /\ K[s] = p /\ \A x \in Sockets : x # s => K[x] = socket[x]
    BY <1>1, <1>3, <2>2
  <2>7. \A x \in Sockets : Sock(K[x], browser[x], service.sent_done)
    BY <2>5, <2>6 DEF WebInv
  <2>8. \A x \in Sockets, c \in Channels : Owner[c] # x => Foreign(c, K[x], browser[x])
    BY <2>2, <2>6 DEF WebInv
  <2>9. ASSUME NEW c \in Channels
        PROVE  Chan(c, K[Owner[c]], browser[Owner[c]], service.sent_done, by_channel[c] # NoSocket, told[c], came[c])
    <3>1. Owner[c] \in Sockets
      BY WebServiceAssumption
    <3>2. CASE Owner[c] = s
      BY <2>2, <2>3, <2>6, <3>2
    <3>3. CASE Owner[c] # s
      BY <2>6, <3>1, <3>3 DEF WebInv
    <3> QED BY <3>2, <3>3
  <2> QED BY <1>2, <2>1, <2>6, <2>7, <2>8, <2>9, DisposeInv
<1> QED BY <1>5, <1>6
-----------------------------------------------------------------------------
(* The bridge sends. *)

\* A message of the bridge for a channel that is in no table.
LEMMA MissedChan ==
  ASSUME NEW k \in SocketType, NEW b \in BrowserType, NEW c \in Channels, NEW done \in BOOLEAN, Sock(k, b, done),
         NEW t \in Seq(Message), NEW r \in Seq(Message), Chan(c, k, b, done, FALSE, t, r),
         NEW m \in Message, t # <<>>, ~Has(r, "close")
  PROVE  Chan(c, k, b, done, FALSE, t, App(r, m))
<1>1. PICK u : u = Append(r, m)
  OBVIOUS
<1>2. u \in Seq(Message) /\ (Has(r, "close") => Has(u, "close"))
  BY <1>1, Appends, HasAppend
<1>3. Account(c, k, b, done, t, u)
  BY <1>2 DEF Chan, Account
<1>4. IsPrefix(View(c, b.seen, k.outgoing), u)
  <2>1. PICK v \in Seq(Answer) : v = View(c, b.seen, k.outgoing)
    BY ViewType DEF SocketType, BrowserType
  <2>2. Message \subseteq Answer
    BY DEF Answer
  <2>3. r \in Seq(Answer) /\ m \in Answer
    BY <2>2, SeqMonotonic
  <2>4. IsPrefix(v, r)
    BY <2>1 DEF Chan, Shown
  <2> QED BY <1>1, <2>1, <2>3, <2>4, PrefixLonger
<1>5. ~(State(k) = "OPEN" /\ ~Has(t, "close"))
  <2> SUFFICES ASSUME State(k) = "OPEN", ~Has(t, "close") PROVE FALSE
    OBVIOUS
  <2>1. k.io \notin {"closed", "closing"} /\ ~k.close_sent /\ k.handshake
    BY StateIs
  <2>2. k.io = "open" /\ ~done
    BY <2>1 DEF Sock, Line, SocketType
  <2>3. c \in k.channels
    BY <2>1, <2>2 DEF Chan, Account
  <2> QED BY <2>3 DEF Chan
<1>6. Shown(c, k, b, FALSE, t, u)
  BY <1>4, <1>5 DEF Shown
<1>7. StreamOf(c, k, b, done, FALSE, t) /\ c \notin k.channels
  BY DEF Chan
<1> QED BY <1>1, <1>3, <1>6, <1>7 DEF Chan, App

\* Message m of the bridge is passed on: k is the socket before, and p without the channel when m closes it.
Passes(c, k, p, b, done, known, t, r, m) ==
  /\ Chan(c, k, b, done, TRUE, t, r)
  /\ m \in Talk(c) /\ t # <<>> /\ Bare(k, p) /\ p.close_received = k.close_received
  /\ known => (c \in p.channels <=> c \in k.channels)
  /\ ~known => m.type = "close" /\ c \notin p.channels

\* The browser's view grows with what has come, or the socket is not open any more.
LEMMA PassedChan ==
  ASSUME NEW k \in SocketType, NEW p \in SocketType, NEW b \in BrowserType, NEW c \in Channels, NEW done \in BOOLEAN,
         NEW t \in Seq(Message), NEW r \in Seq(Message), NEW m \in Message, NEW known \in BOOLEAN,
         Passes(c, k, p, b, done, known, t, r, m)
  PROVE  Chan(c, Sent(p, m), b, done, known, t, App(r, m))
<1> USE DEF Passes
<1>1. PICK u, q : u = Append(r, m) /\ q = Sent(p, m)
  OBVIOUS
<1>2. Message \subseteq Answer /\ m \in Answer
  BY DEF Answer
<1>3. u \in Seq(Message) /\ (Has(u, "close") <=> Has(r, "close") \/ m.type = "close")
  BY <1>1, Appends, HasAppend
<1>4. State(p) = State(k)
  BY DEF State, Bare
<1>5. /\ State(p) # "OPEN" => q = p
      /\ State(p) = "OPEN" =>
              /\ q \in SocketType /\ Same(p, q) /\ q.io = p.io
              /\ q.incoming = p.incoming /\ q.outgoing = Append(p.outgoing, m)
              /\ q.close_sent = p.close_sent /\ q.timeout = p.timeout
  BY <1>1, <1>2, SentIs
<1>6. /\ q.handshake = k.handshake /\ q.close_received = k.close_received /\ q.io = k.io
      /\ q.incoming = k.incoming /\ q.channels = p.channels /\ q.close_sent = k.close_sent
  BY <1>5 DEF Bare, Same
<1>7. StreamOf(c, q, b, done, known, t)
  <2>1. Stream(k.incoming, c, b.sent[c], t, known, ~k.close_received /\ ~done, b.fault # "command",
               k.io = "open" /\ ~b.gone)
    BY DEF Chan, StreamOf, Stream
  <2> QED BY <1>6, <2>1 DEF StreamOf
<1>8. Account(c, q, b, done, t, u)
  BY <1>3, <1>6 DEF Chan, Account
<1>9. k.outgoing \in Seq(Answer) /\ b.seen \in Seq(Answer) /\ p.outgoing = k.outgoing
  BY DEF SocketType, BrowserType, Bare
<1>10. PICK v \in Seq(Answer) : v = View(c, b.seen, k.outgoing)
  BY <1>9, ViewType
<1>11. r \in Seq(Answer)
  BY <1>2, SeqMonotonic
<1>12. IsPrefix(v, r) /\ (State(k) = "OPEN" => v = r)
  BY <1>10 DEF Chan, Shown
<1>13. Shown(c, q, b, known, t, u)
  <2>1. CASE State(k) = "OPEN"
    <3>1. q.outgoing = Append(k.outgoing, m)
      BY <1>4, <1>5, <1>9, <2>1
    <3>2. View(c, b.seen, q.outgoing) = Append(v, m)
      <4>1. PICK a, o : a = b.seen /\ o = k.outgoing
        OBVIOUS
      <4>2. a \in Seq(Answer) /\ o \in Seq(Answer)
        BY <1>9, <4>1
      <4>3. View(c, a, App(o, m)) = App(View(c, a, o), m)
        BY <1>2, <4>2, ViewTalk
      <4>4. q.outgoing = App(o, m)
        BY <3>1, <4>1 DEF App
      <4>5. View(c, b.seen, q.outgoing) = App(v, m)
        BY <1>10, <4>1, <4>3, <4>4
      <4> QED BY <4>5 DEF App
    <3>3. View(c, b.seen, q.outgoing) = u
      BY <1>1, <1>12, <2>1, <3>2
    <3>4. IsPrefix(u, u)
      BY <1>3, PrefixSelf
    <3> QED BY <3>3, <3>4 DEF Shown
  <2>2. CASE State(k) # "OPEN"
    <3>1. q.outgoing = k.outgoing /\ State(q) # "OPEN"
      BY <1>4, <1>5, <1>9, <2>2
    <3>2. IsPrefix(v, u)
      BY <1>1, <1>2, <1>11, <1>12, PrefixLonger
    <3> QED BY <1>10, <3>1, <3>2 DEF Shown
  <2> QED BY <2>1, <2>2
<1>14. c \in q.channels => known
  BY <1>6 DEF Chan
<1> QED BY <1>1, <1>7, <1>8, <1>13, <1>14 DEF Chan, App

\* What is under way from the bridge, without the first message.
LEMMA UpTail ==
  ASSUME WebTypes, up # <<>>, up' = Tail(up)
  PROVE  /\ Head(up) \in FromUp /\ Head(up) = up[1] /\ 1 \in DOMAIN up /\ up' \in Seq(FromUp)
         /\ \A i \in DOMAIN up' : i \in Nat /\ i + 1 \in DOMAIN up /\ up'[i] = up[i + 1] /\ ~(i + 1 <= 1)
<1>1. PICK F, G : F = up /\ G = Tail(up)
  OBVIOUS
<1>2. F \in Seq(FromUp)
  BY <1>1 DEF WebTypes
<1>3. /\ Head(F) \in FromUp /\ Head(F) = F[1] /\ G \in Seq(FromUp) /\ Len(F) \in Nat /\ Len(F) >= 1
      /\ DOMAIN F = 1..Len(F) /\ DOMAIN G = 1..(Len(F) - 1)
      /\ \A i \in 1..(Len(F) - 1) : G[i] = F[i + 1]
  BY <1>1, <1>2, Tails
<1>4. \A i \in DOMAIN G : i \in Nat /\ i + 1 \in DOMAIN F /\ G[i] = F[i + 1] /\ ~(i + 1 <= 1)
  BY <1>3
<1>5. 1 \in DOMAIN F
  BY <1>3
<1> QED BY <1>1, <1>3, <1>4, <1>5

\* A message of another channel, or of none, is taken.
LEMMA UpwardTail ==
  ASSUME WebTypes, up # <<>>, up' = Tail(up), NEW c \in Channels, Upward(c, told[c], came[c]),
         UNCHANGED told, came'[c] = came[c]
  PROVE  Upward(c, told[c], came[c])'
<1>1. \A i \in DOMAIN up' : i \in Nat /\ i + 1 \in DOMAIN up /\ up'[i] = up[i + 1] /\ ~(i + 1 <= 1)
  BY UpTail
<1> QED BY <1>1 DEF Upward

\* A message of this channel is taken: it was opened, and no close came before.
LEMMA UpwardTaken ==
  ASSUME WebTypes, up # <<>>, up' = Tail(up), NEW c \in Channels, Upward(c, told[c], came[c]),
         UNCHANGED told, NEW m, m = Head(up), m \in Talk(c), came'[c] = Append(came[c], m)
  PROVE  Upward(c, told[c], came[c])' /\ told[c] # <<>> /\ ~Has(came[c], "close")
<1>1. /\ up[1] = m /\ 1 \in DOMAIN up
      /\ \A i \in DOMAIN up' : i \in Nat /\ i + 1 \in DOMAIN up /\ up'[i] = up[i + 1] /\ ~(i + 1 <= 1)
  BY UpTail
<1>2. m \in Words(c) /\ m \in Message /\ (m.type = "close" => m = Msg("close", c))
  BY WordsApart DEF Talk, Words
<1>3. told[c] # <<>> /\ ~Has(came[c], "close")
  BY <1>1, <1>2 DEF Upward
<1>4. PICK r, u : r = came[c] /\ r \in Seq(Message) /\ u = Append(r, m)
  BY DEF WebTypes
<1>5. Has(u, "close") <=> m.type = "close"
  BY <1>2, <1>3, <1>4, HasAppend
<1>6. \A i \in DOMAIN u : u[i] \in Talk(c)
  <2>1. /\ Len(r) \in Nat /\ DOMAIN r = 1..Len(r) /\ DOMAIN u = 1..(Len(r) + 1)
        /\ \A i \in 1..Len(r) : u[i] = r[i]
        /\ u[Len(r) + 1] = m
    BY <1>2, <1>4, Appends
  <2>2. \A i \in DOMAIN r : r[i] \in Talk(c)
    BY <1>4 DEF Upward
  <2> QED BY <2>1, <2>2
<1>7. m.type = "close" => \A i \in DOMAIN up' : up'[i] \notin Words(c)
  BY <1>1, <1>2 DEF Upward
<1>8. /\ \A i \in DOMAIN up' : up'[i] \in Words(c) => told[c] # <<>>
      /\ \A i \in DOMAIN up' : up'[i] = Msg("close", c) => \A j \in DOMAIN up' : up'[j] \in Words(c) => j <= i
  BY <1>1 DEF Upward
<1>9. came'[c] = u /\ told'[c] = told[c]
  BY <1>4
<1>10. Upward(c, told[c], came[c])'
  BY <1>5, <1>6, <1>7, <1>8, <1>9 DEF Upward
<1> QED BY <1>3, <1>10

\* A message for a channel is in the words of no other.
LEMMA TalkIs ==
  ASSUME NEW m \in FromUp, m.type \notin {"init", "unsupported"}
  PROVE  /\ m.channel \in Channels /\ m \in Talk(m.channel) /\ m \in Message /\ m \in Answer
         /\ m.type \in {"data", "close"}
         /\ \A e \in Channels : e # m.channel => m \notin Talk(e)
<1>1. m \in [type : {"data", "close"}, channel : Channels]
  BY DEF FromUp
<1>2. /\ m.channel \in Channels /\ m = Msg(m.type, m.channel) /\ m.type \in {"data", "close"}
      /\ m \in Message
  BY <1>1 DEF Msg, Message
<1>3. m \in Talk(m.channel) /\ m \in Answer
  BY <1>2 DEF Talk, Answer
<1>4. \A e \in Channels : e # m.channel => m \notin Talk(e)
  BY <1>2 DEF Talk, Msg
<1> QED BY <1>2, <1>3, <1>4

\* A message of the bridge is taken: of one channel, with what becomes of its socket.
Taken(m, c, s, q, z) ==
  /\ up # <<>> /\ up' = Tail(up) /\ m = Head(up) /\ m \in Talk(c) /\ Owner[c] = s /\ z \in {NoSocket, s}
  /\ socket' = [socket EXCEPT ![s] = q] /\ by_channel' = [by_channel EXCEPT ![c] = z]
  /\ came' = [came EXCEPT ![c] = App(@, m)] /\ UNCHANGED <<service, browser, told>>
  /\ Sock(q, browser[s], service.sent_done)
  /\ \A e \in Channels : Owner[e] # s => Foreign(e, q, browser[s])
  /\ \A e \in Channels : Owner[e] = s /\ e # c =>
       Chan(e, q, browser[s], service.sent_done, by_channel[e] # NoSocket, told[e], came[e])
  /\ Chan(c, q, browser[s], service.sent_done, z # NoSocket, told[c], App(came[c], m))

\* What is left to show when a message of the bridge is taken.
LEMMA TakenStep ==
  ASSUME WebInv, NEW m \in Message, NEW c \in Channels, NEW s \in Sockets, NEW q \in SocketType, NEW z,
         Taken(m, c, s, q, z)
  PROVE  WebInv'
<1> USE DEF Taken
<1>1. /\ socket \in [Sockets -> SocketType] /\ came \in [Channels -> Seq(Message)]
      /\ by_channel \in [Channels -> Sockets \cup {NoSocket}] /\ WebTypes
  BY DEF WebInv, WebTypes
<1>2. /\ socket' \in [Sockets -> SocketType] /\ socket'[s] = q
      /\ \A x \in Sockets : x # s => socket'[x] = socket[x]
  BY <1>1
<1>3. /\ by_channel' \in [Channels -> Sockets \cup {NoSocket}] /\ by_channel'[c] = z
      /\ \A e \in Channels : e # c => by_channel'[e] = by_channel[e]
  BY <1>1
<1>4. /\ came' \in [Channels -> Seq(Message)] /\ came'[c] = Append(came[c], m)
      /\ \A e \in Channels : e # c => came'[e] = came[e]
  <2>1. PICK u : u = Append(came[c], m)
    OBVIOUS
  <2>2. u \in Seq(Message)
    BY <1>1, <2>1, Appends
  <2>3. came' = [came EXCEPT ![c] = u]
    BY <2>1 DEF App
  <2>4. came' \in [Channels -> Seq(Message)] /\ came'[c] = u /\ \A e \in Channels : e # c => came'[e] = came[e]
    BY <1>1, <2>2, <2>3
  <2> QED BY <2>1, <2>4
<1>5. up' \in Seq(FromUp)
  BY <1>1, UpTail
<1>6. WebTypes'
  BY <1>2, <1>3, <1>4, <1>5 DEF WebInv, WebTypes
<1>7. \A x \in Sockets : Sock(socket'[x], browser'[x], service'.sent_done)
  BY <1>2 DEF WebInv
<1>8. \A x \in Sockets, e \in Channels : Owner[e] # x => Foreign(e, socket'[x], browser'[x])
  BY <1>2 DEF WebInv
<1>9. \A e \in Channels : by_channel'[e] \in {NoSocket, Owner[e]}
  BY <1>3 DEF WebInv
<1>10. ASSUME NEW e \in Channels
       PROVE  Chan(e, socket'[Owner[e]], browser'[Owner[e]], service'.sent_done,
                   by_channel'[e] # NoSocket, told'[e], came'[e])
  <2>1. Owner[e] \in Sockets
    BY WebServiceAssumption
  <2>2. CASE e = c
    BY <1>2, <1>3, <1>4, <2>2 DEF App
  <2>3. CASE e # c /\ Owner[e] = s
    BY <1>2, <1>3, <1>4, <2>3
  <2>4. CASE Owner[e] # s
    BY <1>2, <1>3, <1>4, <2>1, <2>4 DEF WebInv
  <2> QED BY <2>2, <2>3, <2>4
<1>11. ASSUME NEW e \in Channels
       PROVE  Upward(e, told[e], came[e])'
  <2>1. Upward(e, told[e], came[e])
    BY DEF WebInv
  <2>2. CASE e = c
    BY <1>1, <1>4, <2>1, <2>2, UpwardTaken
  <2>3. CASE e # c
    BY <1>1, <1>4, <2>1, <2>3, UpwardTail
  <2> QED BY <2>2, <2>3
<1> QED BY <1>6, <1>7, <1>8, <1>9, <1>10, <1>11 DEF WebInv

\* A message of the bridge goes to the socket of its channel,
LEMMA PassedInv ==
  ASSUME WebInv, up # <<>>, up' = Tail(up), NEW m, m = Head(up), NEW c \in Channels, m \in Talk(c),
         m \in Message, m \in Answer, m.type \in {"data", "close"},
         \A e \in Channels : e # c => m \notin Talk(e), by_channel[c] # NoSocket,
         socket' = [socket EXCEPT ![by_channel[c]] = Sent(IF m.type = "close" THEN Removed(@, c) ELSE @, m)],
         by_channel' = IF m.type = "close" THEN [by_channel EXCEPT ![c] = NoSocket] ELSE by_channel,
         came' = [came EXCEPT ![c] = App(@, m)], UNCHANGED <<service, browser, told>>
  PROVE  WebInv'
<1>1. PICK s, k, b, done : s = Owner[c] /\ k = socket[s] /\ b = browser[s] /\ done = service.sent_done
  OBVIOUS
<1>2. s \in Sockets /\ by_channel[c] = s /\ NoSocket # s
  BY <1>1, WebServiceAssumption DEF WebInv
<1>3. PICK p, q : p = (IF m.type = "close" THEN Removed(k, c) ELSE k) /\ q = Sent(p, m)
  OBVIOUS
<1>4. socket' = [socket EXCEPT ![s] = q]
  BY <1>1, <1>2, <1>3 DEF WebInv, WebTypes
<1>5. /\ k \in SocketType /\ b \in BrowserType /\ done \in BOOLEAN /\ Sock(k, b, done)
      /\ by_channel \in [Channels -> Sockets \cup {NoSocket}]
      /\ \A e \in Channels : Owner[e] # s => Foreign(e, k, b)
      /\ \A e \in Channels : Owner[e] = s =>
           /\ told[e] \in Seq(Message) /\ came[e] \in Seq(Message)
           /\ Chan(e, k, b, done, by_channel[e] # NoSocket, told[e], came[e])
  BY <1>1, <1>2, Pieces
<1>6. /\ p \in SocketType /\ Bare(k, p) /\ p.close_received = k.close_received /\ p.init = k.init
      /\ \A e \in Channels : e # c => (e \in p.channels <=> e \in k.channels)
      /\ m.type = "close" => c \notin p.channels
      /\ m.type # "close" => p = k
  BY <1>3, <1>5 DEF Removed, SocketType, Bare
<1>7. Sock(p, b, done)
  <2>1. Waiting(p, b)
    BY <1>5, <1>6, WaitingSame DEF Sock, Bare
  <2>2. Line(p, b, done)
    BY <1>5, <1>6 DEF Sock, Line, Bare
  <2> QED BY <2>1, <2>2 DEF Sock
<1>8. q \in SocketType /\ Sock(q, b, done)
  BY <1>3, <1>5, <1>6, <1>7, SentKeeps
<1>9. \A e \in Channels : Owner[e] # s => Foreign(e, q, b)
  <2>1. \A e \in Channels : Owner[e] # s => Foreign(e, p, b)
    BY <1>1, <1>5, <1>6 DEF Foreign, Bare
  <2> QED BY <1>3, <1>6, <2>1, SentForeign
<1>10. ASSUME NEW e \in Channels, Owner[e] = s, e # c
       PROVE  Chan(e, q, b, done, by_channel[e] # NoSocket, told[e], came[e])
  <2>1. PICK known, t, r : known = (by_channel[e] # NoSocket) /\ t = told[e] /\ r = came[e]
    OBVIOUS
  <2>2. t \in Seq(Message) /\ r \in Seq(Message) /\ Chan(e, k, b, done, known, t, r)
    BY <1>5, <1>10, <2>1
  <2>3. Bare(k, p) /\ p.close_received = k.close_received /\ (e \in p.channels <=> e \in k.channels)
    BY <1>6, <1>10
  <2>4. Chan(e, p, b, done, known, t, r)
    BY <2>2, <2>3, BareChan
  <2>5. m \notin Talk(e)
    BY <1>10
  <2>6. Chan(e, q, b, done, known, t, r)
    BY <1>3, <1>5, <1>6, <2>2, <2>4, <2>5, SentChan
  <2> QED BY <2>1, <2>6
<1>11. PICK t, r, z : /\ t = told[c] /\ r = came[c] /\ z = (IF m.type = "close" THEN NoSocket ELSE s)
  OBVIOUS
<1>12. t \in Seq(Message) /\ r \in Seq(Message) /\ Chan(c, k, b, done, TRUE, t, r)
  BY <1>1, <1>2, <1>5, <1>11
<1>13. t # <<>>
  <2>1. up[1] = m /\ 1 \in DOMAIN up
    BY UpTail DEF WebInv
  <2>2. m \in Words(c)
    BY DEF Talk, Words
  <2> QED BY <1>11, <2>1, <2>2 DEF WebInv, Upward
<1>14. PICK known \in BOOLEAN : known = (z # NoSocket)
  OBVIOUS
<1>15. /\ known => (c \in p.channels <=> c \in k.channels)
       /\ ~known => m.type = "close" /\ c \notin p.channels
  BY <1>2, <1>6, <1>11, <1>14
<1>16. Chan(c, Sent(p, m), b, done, known, t, App(r, m))
  <2>1. Passes(c, k, p, b, done, known, t, r, m)
    BY <1>6, <1>12, <1>13, <1>15 DEF Passes
  <2> QED BY <1>5, <1>6, <1>12, <2>1, PassedChan
<1>17. by_channel' = [by_channel EXCEPT ![c] = z] /\ z \in {NoSocket, s}
  BY <1>2, <1>5, <1>11
<1>18. Chan(c, q, browser[s], service.sent_done, z # NoSocket, told[c], App(came[c], m))
  BY <1>1, <1>3, <1>11, <1>14, <1>16
<1>19. /\ Sock(q, browser[s], service.sent_done)
       /\ \A e \in Channels : Owner[e] # s => Foreign(e, q, browser[s])
       /\ \A e \in Channels : Owner[e] = s /\ e # c =>
            Chan(e, q, browser[s], service.sent_done, by_channel[e] # NoSocket, told[e], came[e])
  BY <1>1, <1>8, <1>9, <1>10
<1>20. Owner[c] = s
  BY <1>1
<1>21. Taken(m, c, s, q, z)
  BY <1>4, <1>17, <1>18, <1>19, <1>20 DEF Taken
<1> QED BY <1>2, <1>8, <1>21, TakenStep

\* or to nobody, when the channel is in no table.
LEMMA MissedInv ==
  ASSUME WebInv, up # <<>>, up' = Tail(up), NEW m, m = Head(up), NEW c \in Channels, m \in Talk(c),
         m \in Message, by_channel[c] = NoSocket, UNCHANGED <<socket, by_channel, service, browser, told>>,
         came' = [came EXCEPT ![c] = App(@, m)]
  PROVE  WebInv'
<1>1. PICK s, k, b, done : s = Owner[c] /\ k = socket[s] /\ b = browser[s] /\ done = service.sent_done
  OBVIOUS
<1>2. s \in Sockets
  BY <1>1, WebServiceAssumption
<1>3. /\ k \in SocketType /\ b \in BrowserType /\ done \in BOOLEAN /\ Sock(k, b, done)
      /\ by_channel \in [Channels -> Sockets \cup {NoSocket}]
      /\ \A e \in Channels : Owner[e] # s => Foreign(e, k, b)
      /\ \A e \in Channels : Owner[e] = s =>
           /\ told[e] \in Seq(Message) /\ came[e] \in Seq(Message)
           /\ Chan(e, k, b, done, by_channel[e] # NoSocket, told[e], came[e])
  BY <1>1, <1>2, Pieces
<1>4. PICK t, r : t = told[c] /\ r = came[c]
  OBVIOUS
<1>5. t \in Seq(Message) /\ r \in Seq(Message) /\ Chan(c, k, b, done, FALSE, t, r)
  BY <1>1, <1>3, <1>4
<1>6. t # <<>> /\ ~Has(r, "close")
  <2>1. up[1] = m /\ 1 \in DOMAIN up
    BY UpTail DEF WebInv
  <2>2. m \in Words(c)
    BY DEF Talk, Words
  <2> QED BY <1>4, <2>1, <2>2 DEF WebInv, Upward
<1>7. Chan(c, k, b, done, FALSE, t, App(r, m))
  BY <1>3, <1>5, <1>6, MissedChan
<1>8. PICK z : z = NoSocket
  OBVIOUS
<1>9. /\ socket' = [socket EXCEPT ![s] = k] /\ by_channel' = [by_channel EXCEPT ![c] = z] /\ z \in {NoSocket, s}
  BY <1>1, <1>2, <1>3, <1>8 DEF WebInv, WebTypes
<1>10. Chan(c, k, browser[s], service.sent_done, z # NoSocket, told[c], App(came[c], m))
  BY <1>1, <1>4, <1>7, <1>8
<1>11. /\ Sock(k, browser[s], service.sent_done)
       /\ \A e \in Channels : Owner[e] # s => Foreign(e, k, browser[s])
       /\ \A e \in Channels : Owner[e] = s /\ e # c =>
            Chan(e, k, browser[s], service.sent_done, by_channel[e] # NoSocket, told[e], came[e])
  BY <1>1, <1>3
<1>12. Owner[c] = s /\ UNCHANGED <<service, browser, told>>
  BY <1>1
<1>13. Taken(m, c, s, k, z)
  BY <1>9, <1>10, <1>11, <1>12 DEF Taken
<1> QED BY <1>2, <1>3, <1>13, TakenStep

\* A message of the bridge on no channel changes nothing that the invariant is about.
LEMMA HeardInv ==
  ASSUME WebInv, up # <<>>, up' = Tail(up), UNCHANGED <<by_channel, socket, browser, told, came>>,
         service' \in [closing : BOOLEAN, sent_done : BOOLEAN, init_received : BOOLEAN, callers : Int],
         service'.closing = service.closing, service'.sent_done = service.sent_done
  PROVE  WebInv'
<1>1. WebTypes
  BY DEF WebInv
<1>2. up' \in Seq(FromUp)
  BY <1>1, UpTail
<1>3. WebTypes'
  BY <1>1, <1>2 DEF WebTypes
<1>4. \A c \in Channels : Upward(c, told[c], came[c])'
  BY <1>1, UpwardTail DEF WebInv
<1> QED BY <1>3, <1>4 DEF WebInv

\* on_transport_control() and on_transport_recv().
LEMMA FromBridgeInv ==
  ASSUME WebInv, FromBridge
  PROVE  WebInv'
<1>1. PICK m : m = Head(up)
  OBVIOUS
<1>2. up # <<>> /\ up' = Tail(up) /\ UNCHANGED <<browser, told>>
  BY DEF FromBridge
<1>3. m \in FromUp
  BY <1>1, <1>2, UpTail DEF WebInv
<1>4. service \in [closing : BOOLEAN, sent_done : BOOLEAN, init_received : BOOLEAN, callers : Int]
  BY DEF WebInv, WebTypes
<1>5. CASE m.type = "init"
  <2>1. service' = [service EXCEPT !.init_received = TRUE] /\ UNCHANGED <<by_channel, socket, came>>
    BY <1>1, <1>5 DEF FromBridge
  <2>2. /\ service' \in [closing : BOOLEAN, sent_done : BOOLEAN, init_received : BOOLEAN, callers : Int]
        /\ service'.closing = service.closing /\ service'.sent_done = service.sent_done
    BY <1>4, <2>1
  <2> QED BY <1>2, <2>1, <2>2, HeardInv
<1>6. CASE m.type = "unsupported"
  <2>1. UNCHANGED <<service, by_channel, socket, came>>
    BY <1>1, <1>6 DEF FromBridge
  <2> QED BY <1>2, <1>4, <2>1, HeardInv
<1>7. CASE m.type \notin {"init", "unsupported"}
  <2>1. /\ Forward(m) /\ UNCHANGED service
        /\ came' = [came EXCEPT ![m.channel] = Append(@, m)]
    BY <1>1, <1>7 DEF FromBridge
  <2>2. PICK c : c = m.channel
    OBVIOUS
  <2>3. /\ c \in Channels /\ m \in Talk(c) /\ m \in Message /\ m \in Answer /\ m.type \in {"data", "close"}
        /\ \A e \in Channels : e # c => m \notin Talk(e)
    BY <1>3, <1>7, <2>2, TalkIs
  <2>4. came' = [came EXCEPT ![c] = App(@, m)]
    BY <2>1, <2>2 DEF App
  <2>5. CASE by_channel[c] = NoSocket
    <3>1. UNCHANGED <<socket, by_channel>>
      BY <2>1, <2>2, <2>5 DEF Forward
    <3> QED BY <1>1, <1>2, <2>1, <2>3, <2>4, <2>5, <3>1, MissedInv
  <2>6. CASE by_channel[c] # NoSocket
    <3>1. /\ socket' = [socket EXCEPT ![by_channel[c]] =
                          Sent(IF m.type = "close" THEN Removed(@, c) ELSE @, m)]
          /\ by_channel' = IF m.type = "close" THEN [by_channel EXCEPT ![c] = NoSocket] ELSE by_channel
      BY <2>1, <2>2, <2>6 DEF Forward
    <3> QED BY <1>1, <1>2, <2>1, <2>3, <2>4, <2>6, <3>1, PassedInv
  <2> QED BY <2>5, <2>6
<1> QED BY <1>5, <1>6, <1>7

\* What is under way from the bridge, with one message more.
LEMMA UpAppend ==
  ASSUME WebTypes, NEW m \in FromUp, up' = Append(up, m)
  PROVE  /\ up' \in Seq(FromUp) /\ Len(up) \in Nat /\ DOMAIN up = 1..Len(up)
         /\ DOMAIN up' = 1..(Len(up) + 1) /\ up'[Len(up) + 1] = m
         /\ \A i \in DOMAIN up : up'[i] = up[i]
<1>1. PICK F, G : F = up /\ G = Append(up, m)
  OBVIOUS
<1>2. F \in Seq(FromUp)
  BY <1>1 DEF WebTypes
<1>3. /\ G \in Seq(FromUp) /\ Len(F) \in Nat /\ DOMAIN F = 1..Len(F) /\ DOMAIN G = 1..(Len(F) + 1)
      /\ \A i \in 1..Len(F) : G[i] = F[i]
      /\ G[Len(F) + 1] = m
  BY <1>1, <1>2, Appends
<1> QED BY <1>1, <1>3

\* The bridge sends a message that is not of this channel.
LEMMA UpwardOther ==
  ASSUME WebTypes, NEW m \in FromUp, up' = Append(up, m), NEW c \in Channels, Upward(c, told[c], came[c]),
         m \notin Words(c), UNCHANGED <<told, came>>
  PROVE  Upward(c, told[c], came[c])'
<1>1. /\ Len(up) \in Nat /\ DOMAIN up = 1..Len(up)
      /\ DOMAIN up' = 1..(Len(up) + 1) /\ up'[Len(up) + 1] = m
      /\ \A i \in DOMAIN up : up'[i] = up[i]
  BY UpAppend
<1>2. \A i \in DOMAIN up' : up'[i] \in Words(c) => i \in DOMAIN up /\ up'[i] = up[i]
  BY <1>1
<1>3. Msg("close", c) \in Words(c)
  BY DEF Words
<1> QED BY <1>2, <1>3 DEF Upward

\* The bridge sends on a channel that it has been told to open, and has not closed.
LEMMA UpwardMore ==
  ASSUME WebTypes, NEW m \in FromUp, up' = Append(up, m), NEW c \in Channels, Upward(c, told[c], came[c]),
         told[c] # <<>>, \A i \in DOMAIN up : up[i] # Msg("close", c), ~Has(came[c], "close"),
         UNCHANGED <<told, came>>
  PROVE  Upward(c, told[c], came[c])'
<1>1. /\ Len(up) \in Nat /\ DOMAIN up = 1..Len(up)
      /\ DOMAIN up' = 1..(Len(up) + 1) /\ up'[Len(up) + 1] = m
      /\ \A i \in DOMAIN up : up'[i] = up[i]
  BY UpAppend
<1>2. \A i \in DOMAIN up' : up'[i] = Msg("close", c) => \A j \in DOMAIN up' : j <= i
  <2>1. \A i \in DOMAIN up' : up'[i] = Msg("close", c) => i = Len(up) + 1
    BY <1>1
  <2> QED BY <1>1, <2>1
<1> QED BY <1>2 DEF Upward

\* A step of the bridge alone.
LEMMA UpOnly ==
  ASSUME WebInv, up' \in Seq(FromUp), UNCHANGED <<service, by_channel, socket, browser, told, came>>,
         \A c \in Channels : Upward(c, told[c], came[c])'
  PROVE  WebInv'
<1>1. WebTypes'
  BY DEF WebInv, WebTypes
<1> QED BY <1>1 DEF WebInv

\* The bridge sends its init.
LEMMA BridgeInitInv ==
  ASSUME WebInv, NEW type \in {"init", "unsupported"}, BridgeInit(type)
  PROVE  WebInv'
<1>1. PICK m : m = [type |-> type]
  OBVIOUS
<1>2. m \in FromUp /\ up' = Append(up, m) /\ UNCHANGED <<service, by_channel, socket, browser, told, came>>
  BY <1>1 DEF FromUp, BridgeInit
<1>3. \A c \in Channels : m \notin Words(c)
  BY <1>1, WordsApart
<1>4. WebTypes /\ \A c \in Channels : Upward(c, told[c], came[c])
  BY DEF WebInv
<1>5. \A c \in Channels : Upward(c, told[c], came[c])'
  BY <1>2, <1>3, <1>4, UpwardOther
<1>6. up' \in Seq(FromUp)
  BY <1>2, <1>4, UpAppend
<1> QED BY <1>2, <1>5, <1>6, UpOnly

\* What is in neither part.
LEMMA ConcatHas ==
  ASSUME NEW u \in Seq(Message), NEW v \in Seq(FromUp), NEW x,
         \A i \in DOMAIN Cat(u, v) : Cat(u, v)[i] # x
  PROVE  (\A i \in DOMAIN u : u[i] # x) /\ (\A i \in DOMAIN v : v[i] # x)
<1>1. PICK R : R = Message \cup FromUp
  OBVIOUS
<1>2. u \in Seq(R) /\ v \in Seq(R)
  BY <1>1, SeqMonotonic
<1>3. PICK w : w = u \o v
  OBVIOUS
<1>4. /\ Len(u) \in Nat /\ Len(v) \in Nat /\ DOMAIN u = 1..Len(u) /\ DOMAIN v = 1..Len(v)
      /\ w \in Seq(R) /\ Len(w) = Len(u) + Len(v) /\ DOMAIN w = 1..(Len(u) + Len(v))
      /\ \A i \in 1..Len(u) : w[i] = u[i]
      /\ \A i \in 1..Len(v) : w[Len(u) + i] = v[i]
  BY <1>2, <1>3
<1>5. \A i \in DOMAIN w : w[i] # x
  BY <1>3 DEF Cat
<1>6. \A i \in DOMAIN u : i \in DOMAIN w /\ w[i] = u[i]
  BY <1>4
<1>7. \A i \in DOMAIN v : Len(u) + i \in DOMAIN w /\ w[Len(u) + i] = v[i]
  BY <1>4
<1> QED BY <1>5, <1>6, <1>7

\* The bridge sends on a channel.
LEMMA BridgeSendsInv ==
  ASSUME WebInv, NEW c \in Channels, NEW type \in {"data", "close"}, BridgeSends(c, type)
  PROVE  WebInv'
<1>1. PICK m : m = Msg(type, c)
  OBVIOUS
<1>2. m \in FromUp /\ up' = Append(up, m) /\ UNCHANGED <<service, by_channel, socket, browser, told, came>>
  BY <1>1 DEF FromUp, BridgeSends, Msg
<1>3. \A e \in Channels : e # c => m \notin Words(e)
  BY <1>1 DEF Words, Msg
<1>4. WebTypes /\ \A e \in Channels : Upward(e, told[e], came[e])
  BY DEF WebInv
<1>5. came[c] \in Seq(Message) /\ up \in Seq(FromUp)
  BY <1>4 DEF WebTypes
<1>6. /\ \A i \in DOMAIN came[c] : came[c][i] # Msg("close", c)
      /\ \A i \in DOMAIN up : up[i] # Msg("close", c)
  <2>1. PICK x, u, v : x = Msg("close", c) /\ u = came[c] /\ v = up
    OBVIOUS
  <2>2. u \in Seq(Message) /\ v \in Seq(FromUp) /\ \A i \in DOMAIN Cat(u, v) : Cat(u, v)[i] # x
    BY <1>5, <2>1 DEF BridgeSends, Cat
  <2>3. (\A i \in DOMAIN u : u[i] # x) /\ (\A i \in DOMAIN v : v[i] # x)
    BY <2>2, ConcatHas
  <2> QED BY <2>1, <2>3
<1>7. ~Has(came[c], "close")
  <2>1. \A i \in DOMAIN came[c] : came[c][i] \in Talk(c)
    BY <1>4 DEF Upward
  <2> QED BY <1>6, <2>1, WordsApart DEF Has, Talk
<1>8. told[c] # <<>>
  BY DEF BridgeSends, Has
<1>9. ASSUME NEW e \in Channels
      PROVE  Upward(e, told[e], came[e])'
  <2>1. UNCHANGED <<told, came>> /\ Upward(e, told[e], came[e])
    BY <1>2, <1>4
  <2>2. CASE e = c
    BY <1>2, <1>4, <1>6, <1>7, <1>8, <2>1, <2>2, UpwardMore
  <2>3. CASE e # c
    BY <1>2, <1>3, <1>4, <2>1, <2>3, UpwardOther
  <2> QED BY <2>2, <2>3
<1>10. up' \in Seq(FromUp)
  BY <1>2, <1>4, UpAppend
<1> QED BY <1>2, <1>9, <1>10, UpOnly
-----------------------------------------------------------------------------
(* The theorems. *)

\* Every step keeps the invariant.
LEMMA WebNextInv ==
  ASSUME WebInv, WebServiceNext
  PROVE  WebInv'
<1>1. ASSUME NEW s \in Sockets, Connect(s) PROVE WebInv'
  BY <1>1, ConnectInv
<1>2. ASSUME NEW s \in Sockets, NEW ok \in BOOLEAN, Start(s, ok) PROVE WebInv'
  BY <1>2, StartInv
<1>3. ASSUME NEW s \in Sockets, Output(s) PROVE WebInv'
  BY <1>3, OutputInv
<1>4. ASSUME NEW s \in Sockets, IoTimeout(s) \/ Lost(s) PROVE WebInv'
  BY <1>4, IoTimeoutInv
<1>5. ASSUME NEW s \in Sockets, Destroy(s) PROVE WebInv'
  BY <1>5, DestroyInv
<1>6. ASSUME NEW s \in Sockets, Input(s) PROVE WebInv'
  BY <1>6, InputInv
<1>7. ASSUME NEW s \in Sockets, InputLogout(s) PROVE WebInv'
  BY <1>7, InputLogoutInv
<1>8. CASE FromBridge
  BY <1>8, FromBridgeInv
<1>9. CASE BridgeEnds
  BY <1>9, BridgeEndsInv
<1>10. ASSUME NEW type \in {"init", "unsupported"}, BridgeInit(type) PROVE WebInv'
  BY <1>10, BridgeInitInv
<1>11. ASSUME NEW c \in Channels, NEW type \in {"data", "close"}, BridgeSends(c, type) PROVE WebInv'
  BY <1>11, BridgeSendsInv
<1>12. ASSUME NEW s \in Sockets, NEW c \in Channels, BrowserOpens(s, c) PROVE WebInv'
  BY <1>12, BrowserOpensInv
<1>13. ASSUME NEW s \in Sockets, NEW c \in Channels, BrowserSends(s, c) \/ BrowserCloses(s, c) PROVE WebInv'
  BY <1>13, BrowserSpeaksInv
<1>14. ASSUME NEW s \in Sockets, NEW fault \in {"frame", "command"},
              BrowserLogsOut(s) \/ BrowserHangsUp(s) \/ BrowserErrs(s, fault)
       PROVE  WebInv'
  BY <1>14, BrowserQuietInv
<1>15. ASSUME NEW s \in Sockets, BrowserVanishes(s) PROVE WebInv'
  BY <1>15, BrowserVanishesInv
<1> QED BY <1>1, <1>2, <1>3, <1>4, <1>5, <1>6, <1>7, <1>8, <1>9, <1>10, <1>11, <1>12, <1>13, <1>14, <1>15
        DEF WebServiceNext

\* Each socket with its browser, and each channel with what was told and has come of it, agree.
THEOREM WebInvAlways == WebServiceSpec => []WebInv
<1>1. WebServiceInit => WebInv
  BY WebInitInv
<1>2. WebInv /\ [WebServiceNext]_webvars => WebInv'
  <2>1. ASSUME WebInv, UNCHANGED webvars PROVE WebInv'
    BY <2>1 DEF webvars, WebInv, WebTypes, Upward
  <2> QED BY <2>1, WebNextInv
<1> QED BY <1>1, <1>2, PTL DEF WebServiceSpec

\* A socket that was closed without a fault has been closed by its browser.
LEMMA ToldOnceHolds ==
  ASSUME WebInv
  PROVE  ToldOnce
<1> SUFFICES ASSUME NEW c \in Channels
             PROVE  LET s == Owner[c]
                    IN /\ browser[s].fault # "command" =>
                            \A i \in DOMAIN told[c] : /\ told[c][i].type = "open" <=> i = 1
                                                      /\ told[c][i].type = "close" => i = Len(told[c])
                       /\ /\ browser[s].fault = "none" /\ socket[s].io = "closed"
                          /\ Has(told[c], "open") /\ ~service.sent_done
                          => Ended(c)
  BY DEF ToldOnce
<1>1. PICK s, k, b, t, r : s = Owner[c] /\ k = socket[s] /\ b = browser[s] /\ t = told[c] /\ r = came[c]
  OBVIOUS
<1>2. s \in Sockets
  BY <1>1, WebServiceAssumption
<1>3. Account(c, k, b, service.sent_done, t, r) /\ Line(k, b, service.sent_done)
  BY <1>1, <1>2 DEF WebInv, Chan, Sock
<1>4. b.fault # "command" => Formed(t)
  BY <1>3 DEF Account
<1>5. ASSUME b.fault = "none", k.io = "closed", Has(t, "open"), ~service.sent_done
      PROVE  Has(t, "close") \/ Has(r, "close")
  <2>1. t # <<>>
    BY <1>5 DEF Has
  <2>2. k.handshake
    BY <1>3, <2>1 DEF Account
  <2>3. k.close_received
    BY <1>3, <1>5, <2>2 DEF Line
  <2> QED BY <1>3, <1>5, <2>1, <2>3 DEF Account
<1> QED BY <1>1, <1>4, <1>5 DEF Formed, Ended

\* A socket that is open shows all that has come.
LEMMA DeliveredHolds ==
  ASSUME WebInv
  PROVE  Delivered
<1> SUFFICES ASSUME NEW c \in Channels
             PROVE  LET s == Owner[c]
                    IN /\ IsPrefix(ToBrowser(s, c), came[c])
                       /\ State(socket[s]) = "OPEN" /\ ~Has(told[c], "close") => ToBrowser(s, c) = came[c]
  BY DEF Delivered
<1>1. Shown(c, socket[Owner[c]], browser[Owner[c]], by_channel[c] # NoSocket, told[c], came[c])
  BY DEF WebInv, Chan
<1>2. ToBrowser(Owner[c], c) = View(c, browser[Owner[c]].seen, socket[Owner[c]].outgoing)
  BY DEF ToBrowser, View
<1> QED BY <1>1, <1>2 DEF Shown

\* ToldOnce (on_web_socket_closing, process_and_relay_open, process_and_relay_close): whoever closes first, and
\* whatever else goes wrong with its socket, the bridge hears an open first, a close once and last, and
\* when the browser leaves in order the end of every channel.
THEOREM ToldOnceAlways == WebServiceSpec => []ToldOnce
<1>1. WebInv => ToldOnce
  BY ToldOnceHolds
<1> QED BY <1>1, WebInvAlways, PTL

\* Delivered (on_transport_control, on_transport_recv): a browser gets of its channel what the bridge sent,
\* in order, and without a gap while its socket is open and it has not closed the channel.
THEOREM DeliveredAlways == WebServiceSpec => []Delivered
<1>1. WebInv => Delivered
  BY DeliveredHolds
<1> QED BY <1>1, WebInvAlways, PTL
=============================================================================
