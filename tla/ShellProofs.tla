----------------------------- MODULE ShellProofs -----------------------------
(***************************************************************************)
(* The shell and its frames keep the protocol of the WebSocket, channels   *)
(* go where they belong, and a frame knows whether it is hidden: for any   *)
(* windows, documents and channels.                                        *)
(*                                                                         *)
(* First come the operators of module Page, on one page: PageOK relates    *)
(* its channels to what was said of them, a set of facts.  Then the        *)
(* documents: each is in a phase, from its first channel to its unload,    *)
(* which says what its inbox, the router and the shell's window hold of    *)
(* it.  Then the facts on their way: those the server has, those on the    *)
(* WebSocket and those that frames posted, in this order.                  *)
(***************************************************************************)
EXTENDS Shell, SequenceTheorems, FiniteSetTheorems, NaturalsInduction,
        WellFoundedInduction, TLAPS

\* The types of the records that module Page works with.
Ids == Nat \X Nat

Talk == {"open", "data", "done", "close", "again"}

Kinds == Talk \cup {"init", "bye", "ready", "hint", "kill", "logout"}

Problems == {"none", "problem", "not-supported", "protocol-error", "terminated", "timeout",
             "disconnected"}

Args == Problems \cup {"hidden", "visible", "raw", Watchdog} \cup Channels \cup Windows

Message == [kind : Kinds, id : Ids, arg : Args]

Object == [stage : {"none", "valid", "closed"}, attached : BOOLEAN, id : Ids,
           registered : BOOLEAN, queue : Seq(Message),
           sent_done : BOOLEAN, received_done : BOOLEAN, ready : BOOLEAN,
           waiting : {"none", "pending", "resolved", "rejected"}, problem : Args]

Page(mine) == [ws : {"none", "opening", "open", "null"}, ready : BOOLEAN,
               waiting_for_init : BOOLEAN, seed : Nat, last : Nat, waiters : Seq(mine),
               hidden : BOOLEAN, expect : BOOLEAN, chan : [mine -> Object], out : Seq(Message)]

\* What is known of channels: <<kind, id>>.
Fact == {"open", "done", "close"} \X Ids

\* The facts of the first n messages of q.
Told(q, n) == {f \in Fact : \E i \in DOMAIN q : i <= n /\ f = <<q[i].kind, q[i].id>>}

\* m may follow what B says.
Legal(m, B) ==
  /\ m.kind = "open" => <<"open", m.id>> \notin B
  /\ m.kind \in {"data", "done", "close"} => <<"open", m.id>> \in B /\ <<"close", m.id>> \notin B
  /\ m.kind \in {"data", "done"} => <<"done", m.id>> \notin B

\* Every message of q is legal after B and what was said before it.
OutOK(q, B) == \A i \in DOMAIN q : Legal(q[i], B \cup Told(q, i - 1))

\* What a channel has queued: a done is followed by a close at most, and a
\* close is the last, but for the dones of a script that goes on; a channel
\* that did not send them has queued neither.
QueueOK(k) ==
  /\ \A i \in DOMAIN k.queue :
       /\ k.queue[i].kind \in {"data", "done", "close", "again"}
       /\ k.stage = "valid" => k.queue[i].kind # "close"
       /\ k.stage = "valid" /\ ~k.sent_done => k.queue[i].kind # "done"
       /\ \A j \in DOMAIN k.queue : i < j =>
            /\ k.queue[i].kind = "close" => k.queue[j].kind = "again"
            /\ k.queue[i].kind = "done" => k.queue[j].kind \in {"close", "again"}

\* What is known of a channel that is open and has its transport.
Spoken(k, B) ==
  /\ <<"open", k.id>> \in B /\ <<"close", k.id>> \notin B
  /\ ~k.sent_done => <<"done", k.id>> \notin B

\* A channel object: its stage, its transport and its id fit together.
ObjectOK(D, c) ==
  LET k == D.chan[c] IN
  /\ QueueOK(k)
  /\ k.registered => k.stage = "valid" /\ k.attached
  /\ k.id = NoId \/ (k.attached /\ k.id[1] = D.seed /\ k.id[2] \in 1..D.last)
  /\ k.stage = "none" => k.queue = <<>> /\ ~k.attached /\ ~k.sent_done
  /\ k.stage = "valid" /\ k.attached => k.id # NoId
  /\ k.attached => D.ready

\* No two channels share an id.
Apart(D) ==
  \A a, b \in DOMAIN D.chan : a # b => D.chan[a].id = NoId \/ D.chan[a].id # D.chan[b].id

\* No id is known that the page has yet to give.
Newest(D, B) == D.ws # "null" /\ D.ready => \A f \in B : f[2][1] = D.seed => f[2][2] <= D.last

\* The listeners of "ready" are channels that were made, each once.
WaitersOK(D) ==
  /\ \A i \in DOMAIN D.waiters : D.chan[D.waiters[i]].stage # "none"
  /\ \A i, j \in DOMAIN D.waiters : D.waiters[i] = D.waiters[j] => i = j

\* A page talks of its own channels; an open names the channel.
Own(D) == \A i \in DOMAIN D.out : D.out[i].kind \in Talk =>
            /\ \E c \in DOMAIN D.chan : D.chan[c].id = D.out[i].id /\ D.chan[c].id # NoId
            /\ D.out[i].kind = "open" => D.out[i].arg \in DOMAIN D.chan

\* A page with the channels mine, when A is what was said before this event.
PageOK(D, mine, A) ==
  /\ D \in Page(mine)
  /\ D.ready => D.ws # "none"
  /\ \A c \in mine : ObjectOK(D, c)
  /\ Apart(D) /\ WaitersOK(D) /\ Own(D)
  /\ OutOK(D.out, A)
  /\ Newest(D, A \cup Told(D.out, Len(D.out)))
  /\ D.ws # "null" => \A c \in mine : D.chan[c].stage = "valid" /\ D.chan[c].attached =>
       Spoken(D.chan[c], A \cup Told(D.out, Len(D.out)))

----
\* Every set of numbers that is not empty has a least element.
LEMMA Least ==
  ASSUME NEW N \in SUBSET Nat, N # {}
  PROVE  \E n \in N : \A k \in N : n <= k
<1>1. PICK n \in N : \A k \in N : ~(<<k, n>> \in OpToRel(<, Nat))
  BY WFMin, NatLessThanWellFounded
<1>2. \A k \in N : ~(k < n)
  BY <1>1 DEF OpToRel
<1> QED BY <1>2

----
(* Sequences of messages and the facts they tell.                          *)

\* t is q, then r.
IsCat(t, q, r) ==
  /\ t \in Seq(Message) /\ Len(t) = Len(q) + Len(r)
  /\ \A i \in 1..Len(q) : t[i] = q[i]
  /\ \A i \in 1..Len(r) : t[Len(q) + i] = r[i]

\* Two sequences, one after the other.
LEMMA CatIsCat ==
  ASSUME NEW q \in Seq(Message), NEW r \in Seq(Message)
  PROVE  IsCat(q \o r, q, r)
BY DEF IsCat

\* A sequence and one message.
LEMMA AppendIsCat ==
  ASSUME NEW q \in Seq(Message), NEW m \in Message
  PROVE  IsCat(Append(q, m), q, <<m>>)
BY DEF IsCat

\* What a prefix tells.
LEMMA ToldPrefix ==
  ASSUME NEW q \in Seq(Message), NEW r \in Seq(Message), NEW t, IsCat(t, q, r),
         NEW n \in Nat, n <= Len(q)
  PROVE  Told(t, n) = Told(q, n)
<1>1. DOMAIN t = 1..(Len(q) + Len(r)) /\ DOMAIN q = 1..Len(q)
  BY DEF IsCat
<1>2. \A i \in Nat : i <= n => (i \in DOMAIN t <=> i \in DOMAIN q)
  BY <1>1
<1>3. \A i \in DOMAIN q : t[i] = q[i]
  BY <1>1 DEF IsCat
<1>4. DOMAIN q \subseteq Nat /\ DOMAIN t \subseteq Nat
  BY <1>1
<1> QED BY <1>2, <1>3, <1>4 DEF Told

\* What two sequences tell, one after the other.
LEMMA ToldCat ==
  ASSUME NEW q \in Seq(Message), NEW r \in Seq(Message), NEW t, IsCat(t, q, r),
         NEW n \in Nat, n <= Len(r)
  PROVE  Told(t, Len(q) + n) = Told(q, Len(q)) \cup Told(r, n)
<1>1. PICK a \in Nat, b \in Nat : a = Len(q) /\ b = Len(r)
  OBVIOUS
<1>2. DOMAIN t = 1..(a + b) /\ DOMAIN q = 1..a /\ DOMAIN r = 1..b
  BY <1>1 DEF IsCat
<1>3. \A i \in 1..a : t[i] = q[i]
  BY <1>1 DEF IsCat
<1>4. \A i \in 1..b : t[a + i] = r[i]
  BY <1>1 DEF IsCat
<1>5. ASSUME NEW f, f \in Told(t, a + n)
      PROVE  f \in Told(q, a) \cup Told(r, n)
  <2>1. PICK i \in 1..(a + b) : i <= a + n /\ f = <<t[i].kind, t[i].id>>
    BY <1>2, <1>5 DEF Told
  <2>2. CASE i <= a
    <3>1. i \in 1..a /\ t[i] = q[i]
      BY <1>3, <2>2
    <3>2. f \in Fact
      BY <1>5 DEF Told
    <3>3. f \in Told(q, a)
      BY <1>2, <2>1, <2>2, <3>1, <3>2 DEF Told
    <3> QED BY <3>3
  <2>3. CASE ~(i <= a)
    <3>1. PICK j \in 1..b : i = a + j /\ j <= n
      <4>1. i - a \in 1..b /\ i = a + (i - a) /\ i - a <= n
        BY <1>1, <2>1, <2>3
      <4> QED BY <4>1
    <3> QED BY <1>2, <1>4, <1>5, <2>1, <3>1 DEF Told
  <2> QED BY <2>2, <2>3
<1>6. ASSUME NEW f, f \in Told(q, a)
      PROVE  f \in Told(t, a + n)
  <2>1. PICK i \in 1..a : f = <<q[i].kind, q[i].id>>
    BY <1>2, <1>6 DEF Told
  <2>2. i \in 1..(a + b) /\ i <= a + n /\ t[i] = q[i]
    BY <1>1, <1>3
  <2> QED BY <1>2, <1>6, <2>1, <2>2 DEF Told
<1>7. ASSUME NEW f, f \in Told(r, n)
      PROVE  f \in Told(t, a + n)
  <2>1. PICK i \in 1..b : i <= n /\ f = <<r[i].kind, r[i].id>>
    BY <1>2, <1>7 DEF Told
  <2>2. a + i \in 1..(a + b) /\ a + i <= a + n /\ t[a + i] = r[i]
    BY <1>1, <1>4, <2>1
  <2> QED BY <1>2, <1>7, <2>1, <2>2 DEF Told
<1>8. Told(t, a + n) = Told(q, a) \cup Told(r, n)
  BY <1>5, <1>6, <1>7
<1> QED BY <1>1, <1>8

\* What may be sent, and then what may be sent after it.
LEMMA OutCat ==
  ASSUME NEW q \in Seq(Message), NEW r \in Seq(Message), NEW t, IsCat(t, q, r), NEW A,
         OutOK(q, A), OutOK(r, A \cup Told(q, Len(q)))
  PROVE  /\ OutOK(t, A)
         /\ Told(t, Len(t)) = Told(q, Len(q)) \cup Told(r, Len(r))
<1>1. PICK a \in Nat, b \in Nat : a = Len(q) /\ b = Len(r)
  OBVIOUS
<1>2. DOMAIN t = 1..(a + b) /\ DOMAIN q = 1..a /\ DOMAIN r = 1..b /\ Len(t) = a + b
  BY <1>1 DEF IsCat
<1>3. ASSUME NEW i \in 1..(a + b)
      PROVE  Legal(t[i], A \cup Told(t, i - 1))
  <2>1. CASE i <= a
    <3>1. i \in DOMAIN q /\ i - 1 \in Nat /\ i - 1 <= Len(q) /\ t[i] = q[i]
      BY <1>1, <1>2, <2>1 DEF IsCat
    <3>2. Told(t, i - 1) = Told(q, i - 1)
      BY <3>1, ToldPrefix
    <3> QED BY <3>1, <3>2 DEF OutOK
  <2>2. CASE ~(i <= a)
    <3>1. PICK j \in 1..b : i = a + j
      <4>1. i - a \in 1..b /\ i = a + (i - a)
        BY <1>1, <2>2
      <4> QED BY <4>1
    <3>2. PICK n \in Nat : n = j - 1 /\ n <= Len(r) /\ i - 1 = Len(q) + n
      BY <1>1, <3>1
    <3>3. t[i] = r[j]
      BY <1>1, <3>1 DEF IsCat
    <3>4. Told(t, Len(q) + n) = Told(q, Len(q)) \cup Told(r, n)
      BY <3>2, ToldCat
    <3>5. Legal(r[j], (A \cup Told(q, Len(q))) \cup Told(r, n))
      BY <1>2, <3>1, <3>2 DEF OutOK
    <3>6. (A \cup Told(q, Len(q))) \cup Told(r, n) = A \cup Told(t, i - 1)
      BY <3>2, <3>4
    <3> QED BY <3>3, <3>5, <3>6
  <2> QED BY <2>1, <2>2
<1>4. Told(t, Len(t)) = Told(q, Len(q)) \cup Told(r, Len(r))
  BY <1>1, <1>2, ToldCat
<1> QED BY <1>2, <1>3, <1>4 DEF OutOK

\* A sequence of one message.
LEMMA OneType ==
  ASSUME NEW m \in Message
  PROVE  <<m>> \in Seq(Message)
OBVIOUS

\* One message more.
LEMMA OutOne ==
  ASSUME NEW m \in Message, NEW B, Legal(m, B)
  PROVE  /\ OutOK(<<m>>, B)
         /\ Told(<<m>>, 1) = {f \in Fact : f = <<m.kind, m.id>>}
         /\ <<m>> \in Seq(Message) /\ Len(<<m>>) = 1
<1>1. DOMAIN <<m>> = {1} /\ Len(<<m>>) = 1 /\ <<m>>[1] = m /\ <<m>> \in Seq(Message)
  OBVIOUS
<1>2. Told(<<m>>, 0) = {}
  BY <1>1 DEF Told
<1>3. B \cup Told(<<m>>, 1 - 1) = B
  BY <1>2
<1>4. Told(<<m>>, 1) = {f \in Fact : f = <<m.kind, m.id>>}
  BY <1>1 DEF Told
<1> QED BY <1>1, <1>3, <1>4 DEF OutOK

----
(* The operators of Page.                                                  *)

\* The channels a page may have.
Mines == SUBSET (Channels \cup {Watchdog})

\* E has the transport of D;
Same(D, E) ==
  /\ E.ws = D.ws /\ E.seed = D.seed /\ E.hidden = D.hidden
  /\ E.waiting_for_init = D.waiting_for_init

\* its channels keep their ids;
Keeps(D, E) == \A c \in DOMAIN D.chan : D.chan[c].id # NoId => E.chan[c].id = D.chan[c].id

\* all messages are about channels.
Quiet(q) == \A i \in DOMAIN q : q[i].kind \in Talk

\* A step of a page that leaves its transport alone.
Goes(D, E) ==
  /\ Same(D, E) /\ Keeps(D, E) /\ E.ready = D.ready
  /\ Quiet(D.out) => Quiet(E.out)
  /\ D.ws = "null" \/ ~D.ready => E.out = D.out

\* An id and its parts.
LEMMA IdType ==
  ASSUME NEW a \in Nat, NEW b \in Nat
  PROVE  <<a, b>> \in Ids /\ <<a, b>>[1] = a /\ <<a, b>>[2] = b
BY DEF Ids

\* A message and its fields.
LEMMA MsgType ==
  ASSUME NEW kind \in Kinds, NEW id \in Ids, NEW arg \in Args
  PROVE  /\ Msg(kind, id, arg) \in Message
         /\ Msg(kind, id, arg).kind = kind /\ Msg(kind, id, arg).id = id
         /\ Msg(kind, id, arg).arg = arg
BY DEF Msg, Message

\* What was queued, with the id the channel got.
LEMMA NamedType ==
  ASSUME NEW q \in Seq(Message), NEW id \in Ids
  PROVE  /\ Named(q, id) \in Seq(Message) /\ Len(Named(q, id)) = Len(q)
         /\ \A i \in 1..Len(q) : Named(q, id)[i].kind = q[i].kind /\ Named(q, id)[i].id = id
<1>1. DOMAIN q = 1..Len(q) /\ Len(q) \in Nat
  OBVIOUS
<1>2. \A i \in 1..Len(q) : [q[i] EXCEPT !.id = id] \in Message
  <2>1. \A i \in 1..Len(q) : q[i] \in Message
    OBVIOUS
  <2> QED BY <2>1 DEF Message
<1>3. \A i \in 1..Len(q) : /\ [q[i] EXCEPT !.id = id].kind = q[i].kind
                           /\ [q[i] EXCEPT !.id = id].id = id
  <2>1. \A i \in 1..Len(q) : q[i] \in Message
    OBVIOUS
  <2> QED BY <2>1 DEF Message
<1>4. Named(q, id) = [i \in 1..Len(q) |-> [q[i] EXCEPT !.id = id]]
  BY <1>1 DEF Named
<1>5. Named(q, id) \in Seq(Message)
  BY <1>1, <1>2, <1>4
<1>6. PICK n \in Nat : n = Len(q)
  BY <1>1
<1>7. Len([i \in 1..n |-> [q[i] EXCEPT !.id = id]]) = n
  OBVIOUS
<1>8. Len(Named(q, id)) = Len(q)
  BY <1>4, <1>6, <1>7
<1>9. \A i \in 1..Len(q) : Named(q, id)[i] = [q[i] EXCEPT !.id = id]
  BY <1>4
<1> QED BY <1>3, <1>5, <1>8, <1>9

\* Nothing is known of id.
NoFact(B, id) == \A f \in B : f[2] # id

\* It is known that id was opened.
OpenFact(id) == {f \in Fact : f = <<"open", id>>}

\* What was queued may follow the open.
LEMMA NamedOK ==
  ASSUME NEW k \in Object, QueueOK(k), k.stage = "valid", NEW id \in Ids, NEW B, NoFact(B, id)
  PROVE  /\ OutOK(Named(k.queue, id), B \cup OpenFact(id))
         /\ \A f \in Told(Named(k.queue, id), Len(k.queue)) :
              f = <<"done", id>> /\ k.sent_done
<1> DEFINE q == k.queue
           N == Named(q, id)
           n == Len(q)
           o == OpenFact(id)
<1>1. q \in Seq(Message) /\ n \in Nat /\ DOMAIN q = 1..n
  BY DEF Object
<1>2. N \in Seq(Message) /\ Len(N) = n /\ DOMAIN N = 1..n
      /\ \A i \in 1..n : N[i].kind = q[i].kind /\ N[i].id = id
  BY <1>1, NamedType
<1>3. \A i \in 1..n :
        /\ q[i].kind \in {"data", "done", "again"}
        /\ q[i].kind = "done" => k.sent_done
        /\ \A j \in 1..n : i < j /\ q[i].kind = "done" => q[j].kind = "again"
  <2>1. \A i \in 1..n :
       /\ q[i].kind \in {"data", "done", "close", "again"}
       /\ q[i].kind # "close"
       /\ ~k.sent_done => q[i].kind # "done"
       /\ \A j \in 1..n : i < j /\ q[i].kind = "done" => q[j].kind \in {"close", "again"}
    BY <1>1 DEF QueueOK
  <2> QED BY <2>1
<1> HIDE DEF q, N, n
<1>4. ASSUME NEW m \in Nat, NEW f \in Told(N, m)
      PROVE  \E i \in 1..n : i <= m /\ f = <<"done", id>> /\ q[i].kind = "done"
  <2>1. PICK i \in 1..n : i <= m /\ f = <<q[i].kind, id>> /\ f \in Fact
    BY <1>2 DEF Told
  <2>2. f[1] = q[i].kind /\ f[1] # "data" /\ f[1] # "again"
    BY <2>1 DEF Fact
  <2> QED BY <1>3, <2>1, <2>2
<1>5. ASSUME NEW i \in 1..n
      PROVE  Legal(N[i], (B \cup o) \cup Told(N, i - 1))
  <2> SUFFICES ASSUME q[i].kind # "again"
               PROVE  Legal(N[i], (B \cup o) \cup Told(N, i - 1))
    BY <1>2 DEF Legal
  <2>0. i - 1 \in Nat
    OBVIOUS
  <2>1. Told(N, i - 1) = {}
    <3> SUFFICES ASSUME NEW f \in Told(N, i - 1) PROVE FALSE
      OBVIOUS
    <3>1. PICK j \in 1..n : j <= i - 1 /\ q[j].kind = "done"
      BY <1>4, <2>0
    <3>2. j < i
      BY <3>1
    <3> QED BY <1>3, <3>1, <3>2
  <2>2. <<"open", id>> \in o
    BY DEF Fact, OpenFact
  <2>3. <<"close", id>> \notin B \cup o /\ <<"done", id>> \notin B \cup o
    <3>1. <<"close", id>>[2] = id /\ <<"done", id>>[2] = id /\ <<"close", id>>[1] = "close"
          /\ <<"done", id>>[1] = "done" /\ <<"open", id>>[1] = "open"
      OBVIOUS
    <3> QED BY <3>1 DEF NoFact, OpenFact
  <2>4. N[i].id = id /\ N[i].kind \in {"data", "done"}
    BY <1>2, <1>3
  <2> QED BY <2>1, <2>2, <2>3, <2>4 DEF Legal
<1>6. OutOK(N, B \cup o)
  BY <1>2, <1>5 DEF OutOK
<1>7. \A f \in Told(N, n) : f = <<"done", id>> /\ k.sent_done
  BY <1>1, <1>3, <1>4
<1> QED BY <1>6, <1>7 DEF N, q, n

\* The channel's first message and what it had queued.
LEMMA FirstWords ==
  ASSUME NEW k \in Object, QueueOK(k), k.stage = "valid", NEW id \in Ids, NEW B, NoFact(B, id),
         NEW c \in Channels \cup {Watchdog}
  PROVE  LET q == <<Msg("open", id, c)>> \o Named(k.queue, id) IN
         /\ q \in Seq(Message) /\ OutOK(q, B)
         /\ \A i \in DOMAIN q : /\ q[i].kind \in Talk /\ q[i].id = id
                                /\ q[i].kind = "open" => q[i].arg = c
         /\ <<"open", id>> \in Told(q, Len(q))
         /\ \A f \in Told(q, Len(q)) :
              f = <<"open", id>> \/ (f = <<"done", id>> /\ k.sent_done)
<1> DEFINE m == Msg("open", id, c)
           N == Named(k.queue, id)
           q == <<m>> \o N
<1>1. m \in Message /\ m.kind = "open" /\ m.id = id /\ m.arg = c
  BY MsgType DEF Args, Kinds, Talk
<1>2. k.queue \in Seq(Message)
  BY DEF Object
<1>3. N \in Seq(Message) /\ Len(N) = Len(k.queue)
      /\ \A i \in 1..Len(k.queue) : N[i].kind = k.queue[i].kind /\ N[i].id = id
  BY <1>2, NamedType
<1>4. Legal(m, B)
  <2>1. <<"open", id>>[2] = id
    OBVIOUS
  <2> QED BY <1>1, <2>1 DEF Legal, NoFact
<1>5. OutOK(<<m>>, B) /\ Told(<<m>>, 1) = OpenFact(id) /\ <<m>> \in Seq(Message) /\ Len(<<m>>) = 1
  BY <1>1, <1>4, OutOne DEF OpenFact
<1>6. OutOK(N, B \cup OpenFact(id))
      /\ \A f \in Told(N, Len(k.queue)) : f = <<"done", id>> /\ k.sent_done
  BY NamedOK
<1> HIDE DEF m, N
<1>7. IsCat(q, <<m>>, N)
  BY <1>3, <1>5, CatIsCat
<1> HIDE DEF q
<1>8. OutOK(q, B) /\ Told(q, Len(q)) = Told(<<m>>, Len(<<m>>)) \cup Told(N, Len(N))
  <2>1. PICK p \in Seq(Message) : p = <<m>>
    BY <1>5
  <2>2. OutOK(N, B \cup Told(p, Len(p)))
    BY <1>5, <1>6, <2>1
  <2>3. OutOK(q, B) /\ Told(q, Len(q)) = Told(p, Len(p)) \cup Told(N, Len(N))
    BY <1>3, <1>5, <1>7, <2>1, <2>2, OutCat
  <2> QED BY <2>1, <2>3
<1>9. \A i \in DOMAIN q : q[i].kind \in Talk /\ q[i].id = id /\ (q[i].kind = "open" => q[i].arg = c)
  <2>1. PICK b \in Nat : b = Len(N) /\ DOMAIN q = 1..(1 + b) /\ DOMAIN k.queue = 1..b
    BY <1>2, <1>3, <1>5, <1>7 DEF IsCat
  <2>2. q[1] = m
    BY <1>5, <1>7 DEF IsCat
  <2>3. \A i \in 1..b : q[1 + i] = N[i]
    BY <1>5, <1>7, <2>1 DEF IsCat
  <2>4. \A i \in 1..b : N[i].kind \in Talk /\ N[i].id = id /\ N[i].kind # "open"
    BY <1>3, <2>1 DEF QueueOK, Talk
  <2>5. \A i \in 1..(1 + b) : i = 1 \/ \E j \in 1..b : i = 1 + j
    <3> SUFFICES ASSUME NEW i \in 1..(1 + b), i # 1 PROVE \E j \in 1..b : i = 1 + j
      OBVIOUS
    <3>1. i - 1 \in 1..b /\ i = 1 + (i - 1)
      OBVIOUS
    <3> QED BY <3>1
  <2>6. m.kind \in Talk /\ m.id = id /\ m.arg = c
    BY <1>1 DEF Talk
  <2>7. ASSUME NEW i \in 1..(1 + b)
        PROVE  q[i].kind \in Talk /\ q[i].id = id /\ (q[i].kind = "open" => q[i].arg = c)
    <3>1. CASE i = 1
      BY <2>2, <2>6, <3>1
    <3>2. ASSUME NEW j \in 1..b, i = 1 + j
          PROVE  q[i].kind \in Talk /\ q[i].id = id /\ q[i].kind # "open"
      BY <2>3, <2>4, <3>2
    <3> QED BY <2>5, <3>1, <3>2
  <2> QED BY <2>1, <2>7
<1>10. <<"open", id>> \in OpenFact(id) /\ \A f \in OpenFact(id) : f = <<"open", id>>
  BY DEF OpenFact, Fact
<1>11. q \in Seq(Message)
  BY <1>7 DEF IsCat
<1> QED BY <1>3, <1>5, <1>6, <1>8, <1>9, <1>10, <1>11 DEF q, m, N

\* A channel whose other end was closed in time is not opened.
LEMMA AttachClosed ==
  ASSUME NEW mine \in Mines, NEW A \in SUBSET Fact, NEW D, PageOK(D, mine, A), NEW c \in mine,
         D.ready, D.chan[c].stage = "closed"
  PROVE  /\ PageOK(Attach(D, c), mine, A) /\ Goes(D, Attach(D, c))
         /\ Attach(D, c).waiters = D.waiters
         /\ \A b \in mine : /\ Attach(D, c).chan[b].stage = D.chan[b].stage
                            /\ b # c => Attach(D, c).chan[b] = D.chan[b]
<1> DEFINE E == [D EXCEPT !.chan[c].attached = TRUE]
<1>1. Attach(D, c) = E
  BY DEF Attach
<1>2. D \in Page(mine) /\ D.chan \in [mine -> Object]
  BY DEF PageOK, Page
<1>3. /\ E \in Page(mine)
      /\ E.ws = D.ws /\ E.ready = D.ready /\ E.waiting_for_init = D.waiting_for_init
      /\ E.seed = D.seed /\ E.last = D.last /\ E.waiters = D.waiters /\ E.hidden = D.hidden
      /\ E.out = D.out /\ E.chan = [D.chan EXCEPT ![c].attached = TRUE]
  <2>1. PICK ch : ch = [D.chan EXCEPT ![c].attached = TRUE]
    OBVIOUS
  <2>2. ch \in [mine -> Object]
    <3>1. [D.chan[c] EXCEPT !.attached = TRUE] \in Object
      BY <1>2 DEF Object
    <3> QED BY <1>2, <2>1, <3>1
  <2>3. E = [D EXCEPT !.chan = ch]
    BY <1>2, <2>1 DEF Page
  <2> QED BY <1>2, <2>1, <2>2, <2>3 DEF Page
<1>4. \A b \in mine : b # c => E.chan[b] = D.chan[b]
  BY <1>2, <1>3
<1>5. E.chan[c] = [D.chan[c] EXCEPT !.attached = TRUE] /\ DOMAIN E.chan = mine /\ DOMAIN D.chan = mine
  BY <1>2, <1>3
<1>6. /\ E.chan[c].stage = "closed" /\ E.chan[c].id = D.chan[c].id
      /\ E.chan[c].registered = D.chan[c].registered
      /\ E.chan[c].queue = D.chan[c].queue /\ E.chan[c].sent_done = D.chan[c].sent_done
      /\ E.chan[c].attached
  BY <1>2, <1>5 DEF Object
<1> HIDE DEF E
<1>7. \A b \in mine : E.chan[b].id = D.chan[b].id /\ E.chan[b].stage = D.chan[b].stage
  BY <1>4, <1>6
<1>8. Apart(E) /\ WaitersOK(E) /\ Own(E)
  <2>1. Apart(E)
    BY <1>5, <1>7 DEF PageOK, Apart
  <2>2. WaitersOK(E)
    <3>1. \A i \in DOMAIN D.waiters : D.waiters[i] \in mine
      BY <1>2 DEF Page
    <3> QED BY <1>3, <1>7, <3>1 DEF PageOK, WaitersOK
  <2>3. Own(E)
    BY <1>3, <1>5, <1>7 DEF PageOK, Own
  <2> QED BY <2>1, <2>2, <2>3
<1>9. \A b \in mine : ObjectOK(E, b)
  <2> SUFFICES ASSUME NEW b \in mine PROVE ObjectOK(E, b)
    OBVIOUS
  <2>1. ObjectOK(D, b)
    BY DEF PageOK
  <2>2. CASE b # c
    BY <1>3, <1>4, <2>1, <2>2 DEF ObjectOK
  <2>3. CASE b = c
    <3>1. QueueOK(E.chan[c])
      BY <1>6, <2>1, <2>3 DEF ObjectOK, QueueOK
    <3>2. ~E.chan[c].registered
      BY <1>6, <2>1, <2>3 DEF ObjectOK
    <3> QED BY <1>3, <1>6, <2>1, <2>3, <3>1, <3>2 DEF ObjectOK
  <2> QED BY <2>2, <2>3
<1>10. E.ready => E.ws # "none"
  BY <1>3 DEF PageOK
<1>11. OutOK(E.out, A) /\ Newest(E, A \cup Told(E.out, Len(E.out)))
  BY <1>3 DEF PageOK, Newest
<1>12. E.ws # "null" => \A b \in mine : E.chan[b].stage = "valid" /\ E.chan[b].attached =>
         Spoken(E.chan[b], A \cup Told(E.out, Len(E.out)))
  BY <1>3, <1>4, <1>6 DEF PageOK
<1>13. PageOK(E, mine, A)
  BY <1>3, <1>8, <1>9, <1>10, <1>11, <1>12 DEF PageOK
<1>14. Goes(D, E)
  BY <1>3, <1>5, <1>7 DEF Goes, Same, Keeps
<1> QED BY <1>1, <1>3, <1>4, <1>7, <1>13, <1>14

\* A channel gets its id, and what it queued is sent.
LEMMA AttachValid ==
  ASSUME NEW mine \in Mines, NEW A \in SUBSET Fact, NEW D, PageOK(D, mine, A), NEW c \in mine,
         D.ready, D.chan[c].stage = "valid", ~D.chan[c].attached
  PROVE  /\ PageOK(Attach(D, c), mine, A) /\ Goes(D, Attach(D, c))
         /\ Attach(D, c).waiters = D.waiters
         /\ \A b \in mine : /\ Attach(D, c).chan[b].stage = D.chan[b].stage
                            /\ b # c => Attach(D, c).chan[b] = D.chan[b]
<1> DEFINE k == D.chan[c]
           id == <<D.seed, D.last + 1>>
           q == <<Msg("open", id, c)>> \o Named(k.queue, id)
           B == A \cup Told(D.out, Len(D.out))
           E == Attach(D, c)
<1>0. D \in Page(mine) /\ D.chan \in [mine -> Object] /\ k \in Object /\ D.last \in Nat /\ D.seed \in Nat
      /\ D.out \in Seq(Message) /\ D.waiters \in Seq(mine)
  BY DEF PageOK, Page
<1>1. id \in Ids /\ id[1] = D.seed /\ id[2] = D.last + 1 /\ id # NoId
  <2>1. id \in Ids /\ id[1] = D.seed /\ id[2] = D.last + 1
    BY <1>0, IdType
  <2>2. NoId[2] = 0
    BY DEF NoId
  <2> QED BY <1>0, <2>1, <2>2
<1>2. ObjectOK(D, c) /\ QueueOK(k) /\ k.id = NoId
  BY DEF PageOK, ObjectOK
<1> HIDE DEF id
<1> DEFINE kk == [k EXCEPT !.attached = TRUE, !.id = id, !.registered = TRUE, !.queue = <<>>]
           ch == [D.chan EXCEPT ![c] = kk]
<1>3. /\ kk \in Object /\ kk.attached /\ kk.id = id /\ kk.registered /\ kk.queue = <<>>
      /\ kk.stage = "valid" /\ kk.sent_done = k.sent_done
  <2>1. k \in Object /\ id \in Ids /\ <<>> \in Seq(Message) /\ k.stage = "valid"
    BY <1>0, <1>1
  <2> HIDE DEF k
  <2> QED BY <2>1 DEF Object
<1>4. Name(D, c) = [D EXCEPT !.last = @ + 1, !.chan[c] = kk]
  BY DEF Name, id
<1> HIDE DEF kk
<1>5. ch \in [mine -> Object] /\ ch[c] = kk /\ \A b \in mine : b # c => ch[b] = D.chan[b]
  BY <1>0, <1>3
<1> HIDE DEF ch
<1>6. Name(D, c) = [D EXCEPT !.last = @ + 1, !.chan = ch]
  BY <1>0, <1>4 DEF ch, Page
<1>7. E = SendAll(Name(D, c), q)
  BY DEF Attach, id
<1> HIDE DEF E, q
<1>8. \E o \in Seq(Message) :
         /\ E.out = o
         /\ D.ws = "null" => o = D.out
         /\ D.ws # "null" => o = D.out \o q
         /\ E = [D EXCEPT !.last = D.last + 1, !.chan = ch, !.out = o]
  <2>1. CASE D.ws = "null"
    <3>1. E = [D EXCEPT !.last = D.last + 1, !.chan = ch, !.out = D.out]
      BY <1>0, <1>6, <1>7, <2>1 DEF SendAll, Page
    <3>2. E.out = D.out
      BY <1>0, <3>1 DEF Page
    <3> QED BY <1>0, <2>1, <3>1, <3>2
  <2>2. CASE D.ws # "null"
    <3>1. E = [D EXCEPT !.last = D.last + 1, !.chan = ch, !.out = D.out \o q]
      BY <1>0, <1>6, <1>7, <2>2 DEF SendAll, Page
    <3>2. E.out = D.out \o q
      BY <1>0, <3>1 DEF Page
    <3>3. NoFact(B, id)
      BY <2>2, <1>0, <1>1 DEF PageOK, Newest, NoFact
    <3>4. q \in Seq(Message)
      BY <1>0, <1>1, <1>2, <3>3, FirstWords DEF q, Mines
    <3>5. D.out \o q \in Seq(Message)
      BY <1>0, <3>4
    <3> QED BY <2>2, <3>1, <3>2, <3>5
  <2> QED BY <2>1, <2>2
<1>9. PICK o \in Seq(Message) :
         /\ E.out = o
         /\ D.ws = "null" => o = D.out
         /\ D.ws # "null" => o = D.out \o q
         /\ E = [D EXCEPT !.last = D.last + 1, !.chan = ch, !.out = o]
  BY <1>8
<1>10. /\ E \in Page(mine)
       /\ E.ws = D.ws /\ E.ready = D.ready /\ E.waiting_for_init = D.waiting_for_init
       /\ E.seed = D.seed /\ E.last = D.last + 1 /\ E.waiters = D.waiters /\ E.hidden = D.hidden
       /\ E.out = o /\ E.chan = ch
  <2>1. D \in Page(mine) /\ D.last + 1 \in Nat /\ ch \in [mine -> Object] /\ o \in Seq(Message)
    BY <1>0, <1>5
  <2> QED BY <1>9, <2>1 DEF Page
<1>11. DOMAIN E.chan = mine /\ DOMAIN D.chan = mine
  BY <1>0, <1>5, <1>10
<1>12. \A b \in mine : /\ E.chan[b].stage = D.chan[b].stage
                       /\ b # c => E.chan[b] = D.chan[b]
  BY <1>3, <1>5, <1>10
<1>13. \A b \in mine : b # c => D.chan[b].id # id
  <2> SUFFICES ASSUME NEW b \in mine, D.chan[b].id = id PROVE FALSE
    OBVIOUS
  <2>1. ObjectOK(D, b)
    BY DEF PageOK
  <2>2. id[2] \in 1..D.last
    BY <1>1, <2>1 DEF ObjectOK
  <2> QED BY <1>0, <1>1, <2>2
<1>14. E.chan[c].id = id /\ E.chan[c] = kk
  BY <1>3, <1>5, <1>10
<1>15. Apart(E) /\ WaitersOK(E)
  <2>1. Apart(E)
    BY <1>11, <1>12, <1>13, <1>14 DEF PageOK, Apart
  <2>2. \A i \in DOMAIN D.waiters : D.waiters[i] \in mine
    BY <1>0
  <2>3. WaitersOK(E)
    BY <1>10, <1>12, <2>2 DEF PageOK, WaitersOK
  <2> QED BY <2>1, <2>3
<1>16. ASSUME NEW b \in mine PROVE ObjectOK(E, b)
  <2>1. ObjectOK(D, b)
    BY DEF PageOK
  <2>2. CASE b # c
    <3>1. E.chan[b] = D.chan[b]
      BY <1>12, <2>2
    <3>2. D.chan[b].id[2] \in 1..D.last => D.chan[b].id[2] \in 1..(D.last + 1)
      BY <1>0
    <3> QED BY <1>10, <2>1, <3>1, <3>2 DEF ObjectOK
  <2>3. CASE b = c
    <3>1. QueueOK(kk)
      BY <1>3 DEF QueueOK
    <3>2. id[2] \in 1..(D.last + 1)
      BY <1>0, <1>1
    <3> QED BY <1>1, <1>3, <1>10, <1>14, <2>3, <3>1, <3>2 DEF ObjectOK
  <2> QED BY <2>2, <2>3
<1>17. E.ready => E.ws # "none"
  BY <1>10 DEF PageOK
<1>18. CASE D.ws = "null"
  <2>1. E.out = D.out
    BY <1>9, <1>18
  <2>2. Own(E)
    <3>1. \A b \in mine : D.chan[b].id # NoId => E.chan[b].id = D.chan[b].id
      BY <1>2, <1>12
    <3> QED BY <1>11, <2>1, <3>1 DEF PageOK, Own
  <2>3. OutOK(E.out, A) /\ Newest(E, A \cup Told(E.out, Len(E.out)))
    BY <1>10, <1>18, <2>1 DEF PageOK, Newest
  <2>4. PageOK(E, mine, A)
    BY <1>10, <1>15, <1>16, <1>17, <1>18, <2>2, <2>3 DEF PageOK
  <2>5. Goes(D, E)
    BY <1>2, <1>10, <1>11, <1>12, <2>1 DEF Goes, Same, Keeps
  <2> QED BY <1>10, <1>12, <2>4, <2>5 DEF E
<1>19. CASE D.ws # "null"
  <2>1. E.out = D.out \o q
    BY <1>9, <1>19
  <2>2. NoFact(B, id)
    BY <1>19, <1>0, <1>1 DEF PageOK, Newest, NoFact
  <2>3. /\ q \in Seq(Message) /\ OutOK(q, B)
        /\ \A i \in DOMAIN q : /\ q[i].kind \in Talk /\ q[i].id = id
                               /\ q[i].kind = "open" => q[i].arg = c
        /\ <<"open", id>> \in Told(q, Len(q))
        /\ \A f \in Told(q, Len(q)) :
             f = <<"open", id>> \/ (f = <<"done", id>> /\ k.sent_done)
    <3>1. c \in Channels \cup {Watchdog} /\ k \in Object /\ QueueOK(k) /\ k.stage = "valid" /\ id \in Ids
      BY <1>0, <1>1, <1>2 DEF Mines
    <3> HIDE DEF k, B
    <3> QED BY <2>2, <3>1, FirstWords DEF q
  <2>4. IsCat(E.out, D.out, q)
    BY <1>0, <2>1, <2>3, CatIsCat
  <2>5. OutOK(D.out, A)
    BY DEF PageOK
  <2>6. OutOK(E.out, A) /\ Told(E.out, Len(E.out)) = Told(D.out, Len(D.out)) \cup Told(q, Len(q))
    BY <1>0, <2>3, <2>4, <2>5, OutCat
  <2> DEFINE C == A \cup Told(E.out, Len(E.out))
  <2>7. /\ \A f \in C : f \in B \/ f = <<"open", id>> \/ (f = <<"done", id>> /\ k.sent_done)
        /\ B \subseteq C /\ <<"open", id>> \in C
    BY <2>3, <2>6
  <2>8. \A i \in DOMAIN E.out : \/ i \in DOMAIN D.out /\ E.out[i] = D.out[i]
                                \/ /\ E.out[i].kind \in Talk /\ E.out[i].id = id
                                   /\ E.out[i].kind = "open" => E.out[i].arg = c
    <3>1. PICK a \in Nat, b \in Nat : a = Len(D.out) /\ b = Len(q) /\ DOMAIN D.out = 1..a /\ DOMAIN q = 1..b
      BY <1>0, <2>3
    <3>2. DOMAIN E.out = 1..(a + b) /\ \A i \in 1..a : E.out[i] = D.out[i]
      BY <2>4, <3>1 DEF IsCat
    <3>3. \A i \in 1..b : E.out[a + i] = q[i]
      BY <2>4, <3>1 DEF IsCat
    <3> SUFFICES ASSUME NEW i \in 1..(a + b), ~(i \in 1..a) PROVE E.out[i].kind \in Talk /\ E.out[i].id = id /\ (E.out[i].kind = "open" => E.out[i].arg = c)
      <4>1. DOMAIN E.out = 1..(a + b) /\ DOMAIN D.out = 1..a
        BY <3>1, <3>2
      <4> QED BY <3>2, <4>1
    <3>4. i - a \in 1..b /\ i = a + (i - a)
      OBVIOUS
    <3>5. PICK j \in 1..b : i = a + j
      BY <3>4
    <3>6. E.out[i] = q[j] /\ j \in DOMAIN q
      BY <3>1, <3>3, <3>5
    <3>7. q[j].kind \in Talk /\ q[j].id = id /\ (q[j].kind = "open" => q[j].arg = c)
      BY <2>3, <3>6, Zenon
    <3> QED BY <3>6, <3>7, Zenon
  <2> HIDE DEF C
  <2>9. Own(E)
    <3>1. \A b \in mine : D.chan[b].id # NoId => E.chan[b].id = D.chan[b].id
      BY <1>2, <1>12
    <3> QED BY <1>1, <1>11, <1>14, <2>8, <3>1 DEF PageOK, Own
  <2>10. Newest(E, C)
    <3>1. \A f \in B : f[2][1] = D.seed => f[2][2] <= D.last
      BY <1>19 DEF PageOK, Newest
    <3>2. <<"open", id>>[2] = id /\ <<"done", id>>[2] = id
      OBVIOUS
    <3>3. B \subseteq Fact
      BY DEF Told
    <3>4. \A f \in Fact : f[2][2] \in Nat
      BY DEF Fact, Ids
    <3>5. ASSUME NEW f \in C, f[2][1] = D.seed
          PROVE  f[2][2] <= D.last + 1
      <4>1. CASE f \in B
        <5>1. f[2][2] <= D.last /\ f[2][2] \in Nat
          BY <3>1, <3>3, <3>4, <3>5, <4>1
        <5> HIDE DEF B
        <5> QED BY <1>0, <5>1
      <4>2. CASE f[2] = id
        BY <1>0, <1>1, <4>2
      <4> QED BY <2>7, <3>2, <4>1, <4>2
    <3> QED BY <1>10, <3>5 DEF Newest
  <2>11. \A b \in mine : E.chan[b].stage = "valid" /\ E.chan[b].attached => Spoken(E.chan[b], C)
    <3> SUFFICES ASSUME NEW b \in mine, E.chan[b].stage = "valid", E.chan[b].attached
                 PROVE  Spoken(E.chan[b], C)
      OBVIOUS
    <3>1. CASE b = c
      <4>1. <<"close", id>> \notin C /\ (~k.sent_done => <<"done", id>> \notin C)
        <5>1. <<"close", id>>[2] = id /\ <<"done", id>>[2] = id /\ <<"close", id>>[1] = "close"
              /\ <<"done", id>>[1] = "done" /\ <<"open", id>>[1] = "open"
          OBVIOUS
        <5> HIDE DEF B, k
        <5> QED BY <2>2, <2>7, <5>1 DEF NoFact
      <4> QED BY <1>3, <1>14, <2>7, <3>1, <4>1 DEF Spoken
    <3>2. CASE b # c
      <4>1. Spoken(D.chan[b], B) /\ E.chan[b] = D.chan[b] /\ D.chan[b].id # id
        BY <1>12, <1>13, <1>19, <3>2 DEF PageOK
      <4>2. PICK i : i = D.chan[b].id
        OBVIOUS
      <4>3. <<"close", i>>[2] = i /\ <<"done", i>>[2] = i /\ <<"open", id>>[2] = id /\ <<"done", id>>[2] = id
        OBVIOUS
      <4>4. <<"close", i>> \notin B => <<"close", i>> \notin C
        BY <2>7, <4>1, <4>2, <4>3
      <4>5. <<"done", i>> \notin B => <<"done", i>> \notin C
        BY <2>7, <4>1, <4>2, <4>3
      <4> HIDE DEF B
      <4> QED BY <2>7, <4>1, <4>2, <4>4, <4>5 DEF Spoken
    <3> QED BY <3>1, <3>2
  <2>12. PageOK(E, mine, A)
    BY <1>10, <1>15, <1>16, <1>17, <2>6, <2>9, <2>10, <2>11 DEF PageOK, C
  <2>13. Goes(D, E)
    <3>1. Quiet(D.out) => Quiet(E.out)
      BY <2>8 DEF Quiet
    <3>2. Keeps(D, E)
      BY <1>2, <1>11, <1>12 DEF Keeps
    <3> QED BY <1>10, <1>19, <3>1, <3>2 DEF Goes, Same
  <2> QED BY <1>10, <1>12, <2>12, <2>13 DEF E
<1> QED BY <1>18, <1>19

\* g[i] is the page after the first i of the listeners.
Attaches(D, s, n, g) ==
  g = [i \in 0..n |-> IF i = 0 THEN D ELSE Attach(g[i - 1], s[i])]

\* The equation of AttachAll() has one solution,
LEMMA AttachesUnique ==
  ASSUME NEW D, NEW s, NEW n \in Nat, NEW g, NEW h, Attaches(D, s, n, g), Attaches(D, s, n, h)
  PROVE  g = h
<1> DEFINE N == {i \in 0..n : g[i] # h[i]}
<1>1. N = {}
  <2> SUFFICES ASSUME N # {} PROVE FALSE
    OBVIOUS
  <2>1. N \in SUBSET Nat
    OBVIOUS
  <2>2. PICK i \in N : \A k \in N : i <= k
    <3> HIDE DEF N
    <3> QED BY <2>1, Least
  <2>3. CASE i = 0
    BY <2>3 DEF Attaches
  <2>4. CASE i # 0
    <3>1. i - 1 \in 0..n /\ ~(i <= i - 1)
      BY <2>4
    <3>2. g[i - 1] = h[i - 1]
      BY <2>2, <3>1
    <3> QED BY <2>4, <3>2 DEF Attaches
  <2> QED BY <2>3, <2>4
<1>2. \A i \in 0..n : g[i] = h[i]
  BY <1>1
<1>3. g = [i \in 0..n |-> g[i]] /\ h = [i \in 0..n |-> h[i]]
  BY DEF Attaches
<1> QED BY <1>2, <1>3

\* and it has one,
LEMMA AttachesExists ==
  ASSUME NEW D, NEW s, NEW n \in Nat
  PROVE  \E g : Attaches(D, s, n, g)
<1> DEFINE N == {k \in Nat : ~\E g : Attaches(D, s, k, g)}
<1> SUFFICES ASSUME N # {} PROVE FALSE
  OBVIOUS
<1>1. PICK m \in N : \A k \in N : m <= k
  BY Least
<1>2. CASE m = 0
  <2>1. Attaches(D, s, m, [i \in 0..m |-> D])
    BY <1>2 DEF Attaches
  <2> QED BY <1>1, <2>1
<1>3. CASE m # 0
  <2>1. m - 1 \in Nat /\ ~(m <= m - 1)
    BY <1>3
  <2>2. PICK g : Attaches(D, s, m - 1, g)
    BY <1>1, <2>1
  <2> DEFINE h == [i \in 0..m |-> IF i < m THEN g[i] ELSE Attach(g[m - 1], s[m])]
  <2>3. \A i \in 0..(m - 1) : h[i] = g[i]
    BY <2>1
  <2>4. \A i \in 0..(m - 1) : g[i] = IF i = 0 THEN D ELSE Attach(g[i - 1], s[i])
    BY <2>2 DEF Attaches
  <2>5. h[m] = Attach(g[m - 1], s[m])
    OBVIOUS
  <2>6. h = [i \in 0..m |-> h[i]]
    OBVIOUS
  <2> HIDE DEF h
  <2>7. ASSUME NEW i \in 0..m
        PROVE  h[i] = IF i = 0 THEN D ELSE Attach(h[i - 1], s[i])
    <3>1. CASE i = m
      BY <1>3, <2>3, <2>5, <3>1
    <3>2. CASE i # m
      <4>1. i \in 0..(m - 1) /\ (i # 0 => i - 1 \in 0..(m - 1))
        BY <3>2
      <4> QED BY <2>3, <2>4, <4>1
    <3> QED BY <3>1, <3>2
  <2>8. Attaches(D, s, m, h)
    BY <2>6, <2>7 DEF Attaches
  <2> QED BY <1>1, <2>8
<1> QED BY <1>2, <1>3

\* which is what AttachAll() takes.
LEMMA AttachAllValue ==
  ASSUME NEW D, NEW s, Len(s) \in Nat, NEW g, Attaches(D, s, Len(s), g)
  PROVE  AttachAll(D, s) = g[Len(s)]
<1> DEFINE G == CHOOSE h : h = [i \in 0..Len(s) |-> IF i = 0 THEN D ELSE Attach(h[i - 1], s[i])]
<1>1. AttachAll(D, s) = G[Len(s)]
  BY Zenon DEF AttachAll
<1>2. Attaches(D, s, Len(s), G)
  BY DEF Attaches
<1>3. G = g
  BY <1>2, AttachesUnique
<1> QED BY <1>1, <1>3

\* A channel that waits.
Waits(D, c) == D.chan[c].stage # "none" /\ ~D.chan[c].attached

\* One listener of "ready".
LEMMA AttachOK ==
  ASSUME NEW mine \in Mines, NEW A \in SUBSET Fact, NEW D, PageOK(D, mine, A), NEW c \in mine,
         D.ready, Waits(D, c)
  PROVE  /\ PageOK(Attach(D, c), mine, A) /\ Goes(D, Attach(D, c))
         /\ \A b \in mine : b # c /\ Waits(D, b) => Waits(Attach(D, c), b)
<1>1. D.chan[c] \in Object
  BY DEF PageOK, Page
<1>2. D.chan[c].stage \in {"valid", "closed"}
  BY <1>1 DEF Waits, Object
<1>3. CASE D.chan[c].stage = "valid"
  BY <1>3, AttachValid DEF Waits
<1>4. CASE D.chan[c].stage = "closed"
  BY <1>4, AttachClosed DEF Waits
<1> QED BY <1>2, <1>3, <1>4

\* Steps of a page, one after the other.
LEMMA GoesTrans ==
  ASSUME NEW mine, NEW D \in Page(mine), NEW E \in Page(mine), NEW F, Goes(D, E), Goes(E, F)
  PROVE  Goes(D, F)
<1>1. DOMAIN D.chan = mine /\ DOMAIN E.chan = mine
  BY DEF Page
<1> QED BY <1>1 DEF Goes, Same, Keeps

\* The listeners, one after the other.
LEMMA AttachAllOK ==
  ASSUME NEW mine \in Mines, NEW A \in SUBSET Fact, NEW D, PageOK(D, mine, A), D.ready,
         NEW s \in Seq(mine), \A i \in DOMAIN s : Waits(D, s[i]),
         \A i, j \in DOMAIN s : s[i] = s[j] => i = j
  PROVE  PageOK(AttachAll(D, s), mine, A) /\ Goes(D, AttachAll(D, s))
<1>1. PICK n \in Nat : n = Len(s) /\ DOMAIN s = 1..n
  OBVIOUS
<1>2. PICK g : Attaches(D, s, n, g)
  BY AttachesExists
<1>3. AttachAll(D, s) = g[n]
  BY <1>1, <1>2, AttachAllValue
<1>4. g[0] = D /\ \A i \in 1..n : g[i] = Attach(g[i - 1], s[i])
  BY <1>2 DEF Attaches
<1> DEFINE Good(i) == PageOK(g[i], mine, A) /\ Goes(D, g[i]) /\ \A j \in 1..n : i < j => Waits(g[i], s[j])
           N == {i \in 0..n : ~Good(i)}
<1>5. Good(0)
  <2>1. Goes(D, D)
    BY DEF Goes, Same, Keeps
  <2> QED BY <1>1, <1>4, <2>1
<1>6. ASSUME NEW i \in 1..n, Good(i - 1)
      PROVE  Good(i)
  <2>0. PICK E : E = g[i - 1]
    OBVIOUS
  <2>1. PageOK(E, mine, A) /\ Goes(D, E)
    BY <1>6, <2>0
  <2>2. \A j \in 1..n : i <= j => Waits(E, s[j])
    <3> SUFFICES ASSUME NEW j \in 1..n, i <= j PROVE Waits(E, s[j])
      OBVIOUS
    <3>1. i - 1 < j
      OBVIOUS
    <3> QED BY <1>6, <2>0, <3>1
  <2>3. Waits(E, s[i]) /\ s[i] \in mine
    BY <1>1, <2>2
  <2>4. E.ready
    BY <2>1 DEF Goes
  <2>5. /\ PageOK(Attach(E, s[i]), mine, A) /\ Goes(E, Attach(E, s[i]))
        /\ \A b \in mine : b # s[i] /\ Waits(E, b) => Waits(Attach(E, s[i]), b)
    <3>0. PICK c \in mine : c = s[i]
      BY <2>3
    <3>1. Waits(E, c)
      BY <2>3, <3>0
    <3>2. /\ PageOK(Attach(E, c), mine, A) /\ Goes(E, Attach(E, c))
          /\ \A b \in mine : b # c /\ Waits(E, b) => Waits(Attach(E, c), b)
      BY <2>1, <2>4, <3>1, AttachOK
    <3> QED BY <3>0, <3>2
  <2>6. g[i] = Attach(E, s[i])
    BY <1>4, <2>0
  <2>7. Goes(D, g[i])
    BY <2>1, <2>5, <2>6, GoesTrans DEF PageOK
  <2>8. ASSUME NEW j \in 1..n, i < j PROVE Waits(g[i], s[j])
    <3>1. s[j] \in mine /\ s[j] # s[i] /\ Waits(E, s[j])
      BY <1>1, <2>2, <2>8
    <3> QED BY <2>5, <2>6, <3>1
  <2> QED BY <2>5, <2>6, <2>7, <2>8
<1> HIDE DEF Good
<1>7. N = {}
  <2> SUFFICES ASSUME N # {} PROVE FALSE
    OBVIOUS
  <2>1. N \in SUBSET Nat
    OBVIOUS
  <2>2. PICK i \in N : \A k \in N : i <= k
    <3> HIDE DEF N
    <3> QED BY <2>1, Least
  <2>3. i # 0
    BY <1>5
  <2>4. i \in 1..n /\ i - 1 \in 0..n /\ ~(i <= i - 1)
    BY <2>3
  <2>5. Good(i - 1)
    BY <2>2, <2>4
  <2> QED BY <1>6, <2>4, <2>5
<1>8. Good(n)
  BY <1>7
<1> QED BY <1>3, <1>8 DEF Good

\* Channel c becomes k; channel c becomes k, and m is sent.
Put(D, c, k) == [D EXCEPT !.chan = [D.chan EXCEPT ![c] = k]]

Say(D, c, k, m) == [D EXCEPT !.chan = [D.chan EXCEPT ![c] = k], !.out = Append(D.out, m)]

\* What may happen to a channel that keeps its id.
Mild(k, kk) ==
  /\ kk \in Object /\ kk.id = k.id /\ kk.attached = k.attached /\ QueueOK(kk)
  /\ kk.registered => kk.stage = "valid" /\ k.attached
  /\ kk.stage # "none"
  /\ kk.stage = "valid" /\ k.attached => k.stage = "valid" /\ (~kk.sent_done => ~k.sent_done)

\* From D to E, c becomes kk.
Puts(D, E, c, kk) ==
  /\ E.chan = [D.chan EXCEPT ![c] = kk] /\ E.seed = D.seed /\ E.last = D.last
  /\ E.ready = D.ready /\ E.waiters = D.waiters

\* What Mild says of the page.
LEMMA PutFields ==
  ASSUME NEW mine \in Mines, NEW A \in SUBSET Fact, NEW D, PageOK(D, mine, A), NEW c \in mine,
         NEW kk, Mild(D.chan[c], kk), NEW E \in Page(mine), Puts(D, E, c, kk)
  PROVE  /\ E.chan[c] = kk /\ (\A b \in mine : b # c => E.chan[b] = D.chan[b])
         /\ (\A b \in mine : E.chan[b].id = D.chan[b].id)
         /\ (\A b \in mine : ObjectOK(E, b)) /\ Apart(E) /\ WaitersOK(E) /\ Keeps(D, E)
         /\ DOMAIN E.chan = mine /\ DOMAIN D.chan = mine
<1> USE DEF Puts
<1>1. D \in Page(mine) /\ D.chan \in [mine -> Object] /\ D.waiters \in Seq(mine)
  BY DEF PageOK, Page
<1>2. E.chan[c] = kk /\ (\A b \in mine : b # c => E.chan[b] = D.chan[b])
      /\ DOMAIN E.chan = mine /\ DOMAIN D.chan = mine
  BY <1>1
<1>3. \A b \in mine : E.chan[b].id = D.chan[b].id
  BY <1>2 DEF Mild
<1>4. ASSUME NEW b \in mine PROVE ObjectOK(E, b)
  <2>1. ObjectOK(D, b)
    BY DEF PageOK
  <2>2. CASE b # c
    <3>1. E.chan[b] = D.chan[b]
      BY <1>2, <2>2
    <3> QED BY <2>1, <3>1 DEF ObjectOK
  <2>3. CASE b = c
    BY <1>2, <2>1, <2>3 DEF ObjectOK, Mild
  <2> QED BY <2>2, <2>3
<1>5. Apart(E)
  BY <1>2, <1>3 DEF PageOK, Apart
<1>6. WaitersOK(E)
  <2>1. \A i \in DOMAIN D.waiters : D.waiters[i] \in mine
    BY <1>1
  <2>2. \A b \in mine : D.chan[b].stage # "none" => E.chan[b].stage # "none"
    BY <1>2 DEF Mild
  <2> QED BY <2>1, <2>2 DEF PageOK, WaitersOK
<1>7. Keeps(D, E)
  BY <1>2, <1>3 DEF Keeps
<1> QED BY <1>2, <1>3, <1>4, <1>5, <1>6, <1>7

\* A channel changes and sends nothing.
LEMMA PutOK ==
  ASSUME NEW mine \in Mines, NEW A \in SUBSET Fact, NEW D, PageOK(D, mine, A), NEW c \in mine,
         NEW kk, Mild(D.chan[c], kk)
  PROVE  /\ PageOK(Put(D, c, kk), mine, A) /\ Goes(D, Put(D, c, kk))
         /\ Put(D, c, kk).waiters = D.waiters /\ Put(D, c, kk).out = D.out
         /\ Put(D, c, kk).chan[c] = kk
<1>0. PICK E : E = Put(D, c, kk)
  OBVIOUS
<1>1. D \in Page(mine) /\ D.chan \in [mine -> Object] /\ kk \in Object
  BY DEF PageOK, Page, Mild
<1>2. [D.chan EXCEPT ![c] = kk] \in [mine -> Object]
  BY <1>1
<1>3. PICK ch \in [mine -> Object] : ch = [D.chan EXCEPT ![c] = kk]
  BY <1>2
<1>4. /\ E \in Page(mine) /\ E.chan = ch
      /\ E.ws = D.ws /\ E.ready = D.ready /\ E.waiting_for_init = D.waiting_for_init
      /\ E.seed = D.seed /\ E.last = D.last /\ E.waiters = D.waiters /\ E.hidden = D.hidden
      /\ E.out = D.out
  BY <1>0, <1>1, <1>3 DEF Put, Page
<1>4a. E.chan = [D.chan EXCEPT ![c] = kk]
  BY <1>3, <1>4
<1>5. /\ E.chan[c] = kk /\ (\A b \in mine : b # c => E.chan[b] = D.chan[b])
      /\ (\A b \in mine : E.chan[b].id = D.chan[b].id)
      /\ (\A b \in mine : ObjectOK(E, b)) /\ Apart(E) /\ WaitersOK(E) /\ Keeps(D, E)
      /\ DOMAIN E.chan = mine /\ DOMAIN D.chan = mine
  <2>1. Puts(D, E, c, kk)
    BY <1>4, <1>4a DEF Puts
  <2> QED BY <1>4, <2>1, PutFields
<1>6. Own(E)
  BY <1>4, <1>5 DEF PageOK, Own
<1>7. E.ready => E.ws # "none"
  BY <1>4 DEF PageOK
<1>8. OutOK(E.out, A) /\ Newest(E, A \cup Told(E.out, Len(E.out)))
  BY <1>4 DEF PageOK, Newest
<1>9. E.ws # "null" => \A b \in mine : E.chan[b].stage = "valid" /\ E.chan[b].attached =>
        Spoken(E.chan[b], A \cup Told(E.out, Len(E.out)))
  <2> SUFFICES ASSUME E.ws # "null", NEW b \in mine, E.chan[b].stage = "valid", E.chan[b].attached
               PROVE  Spoken(E.chan[b], A \cup Told(D.out, Len(D.out)))
    BY <1>4
  <2>1. D.chan[b].stage = "valid" /\ D.chan[b].attached => Spoken(D.chan[b], A \cup Told(D.out, Len(D.out)))
    BY <1>4 DEF PageOK
  <2>2. CASE b # c
    BY <1>5, <2>1, <2>2
  <2>3. CASE b = c
    BY <1>5, <2>1, <2>3 DEF Mild, Spoken
  <2> QED BY <2>2, <2>3
<1>10. PageOK(E, mine, A)
  BY <1>4, <1>5, <1>6, <1>7, <1>8, <1>9 DEF PageOK
<1>11. Goes(D, E)
  BY <1>4, <1>5 DEF Goes, Same
<1> QED BY <1>0, <1>4, <1>5, <1>10, <1>11

\* A channel that is attached sends m.
Says(k, kk, m) ==
  /\ k.stage = "valid" \/ (m.kind = "again" /\ k.id # NoId)
  /\ k.attached
  /\ m \in Message /\ m.id = k.id /\ m.kind \in {"data", "done", "close", "again"}
  /\ m.kind \in {"data", "done"} => ~k.sent_done
  /\ m.kind = "done" => kk.sent_done
  /\ m.kind = "close" => kk.stage # "valid"

\* A channel changes and sends m.
LEMMA SayOK ==
  ASSUME NEW mine \in Mines, NEW A \in SUBSET Fact, NEW D, PageOK(D, mine, A), NEW c \in mine,
         NEW kk, Mild(D.chan[c], kk), NEW m, Says(D.chan[c], kk, m), D.ws # "null"
  PROVE  PageOK(Say(D, c, kk, m), mine, A) /\ Goes(D, Say(D, c, kk, m))
<1>0. PICK E : E = Say(D, c, kk, m)
  OBVIOUS
<1>1. D \in Page(mine) /\ D.chan \in [mine -> Object] /\ kk \in Object /\ m \in Message /\ D.out \in Seq(Message)
  BY DEF PageOK, Page, Mild, Says
<1>2. [D.chan EXCEPT ![c] = kk] \in [mine -> Object] /\ Append(D.out, m) \in Seq(Message)
  BY <1>1
<1>3. PICK ch \in [mine -> Object], o \in Seq(Message) :
         ch = [D.chan EXCEPT ![c] = kk] /\ o = Append(D.out, m)
  BY <1>2
<1>4. /\ E \in Page(mine) /\ E.chan = ch
      /\ E.ws = D.ws /\ E.ready = D.ready /\ E.waiting_for_init = D.waiting_for_init
      /\ E.seed = D.seed /\ E.last = D.last /\ E.waiters = D.waiters /\ E.hidden = D.hidden
      /\ E.out = o
  <2>1. E = [D EXCEPT !.chan = ch, !.out = o]
    BY <1>0, <1>3 DEF Say
  <2> QED BY <1>1, <2>1 DEF Page
<1>4a. E.chan = [D.chan EXCEPT ![c] = kk]
  BY <1>3, <1>4
<1>5. /\ E.chan[c] = kk /\ (\A b \in mine : b # c => E.chan[b] = D.chan[b])
      /\ (\A b \in mine : E.chan[b].id = D.chan[b].id)
      /\ (\A b \in mine : ObjectOK(E, b)) /\ Apart(E) /\ WaitersOK(E) /\ Keeps(D, E)
      /\ DOMAIN E.chan = mine /\ DOMAIN D.chan = mine
  <2>1. Puts(D, E, c, kk)
    BY <1>4, <1>4a DEF Puts
  <2>2. E \in Page(mine)
    BY <1>4
  <2> QED BY <2>1, <2>2, PutFields
<1>6. PICK B : B = A \cup Told(D.out, Len(D.out))
  OBVIOUS
<1>7. /\ D.chan[c].stage = "valid" => Spoken(D.chan[c], B)
      /\ OutOK(D.out, A) /\ Newest(D, B) /\ D.ready
  <2>1. ObjectOK(D, c) /\ D.ready
    BY DEF PageOK, ObjectOK, Says
  <2> QED BY <1>6, <2>1 DEF PageOK, Says
<1>8. Legal(m, B)
  BY <1>7 DEF Spoken, Says, Legal
<1>9. PICK q \in Seq(Message) : q = <<m>>
  BY <1>1, OneType
<1>10. OutOK(q, B) /\ Told(q, Len(q)) = {f \in Fact : f = <<m.kind, m.id>>}
  <2>1. OutOK(<<m>>, B) /\ Told(<<m>>, 1) = {f \in Fact : f = <<m.kind, m.id>>} /\ Len(<<m>>) = 1
    BY <1>1, <1>8, OutOne
  <2> QED BY <1>9, <2>1
<1>11. IsCat(E.out, D.out, q)
  BY <1>1, <1>3, <1>4, <1>9, AppendIsCat
<1>12. OutOK(q, A \cup Told(D.out, Len(D.out)))
  BY <1>6, <1>10
<1>13. OutOK(E.out, A) /\ Told(E.out, Len(E.out)) = Told(D.out, Len(D.out)) \cup Told(q, Len(q))
  BY <1>1, <1>7, <1>11, <1>12, OutCat
<1>14. PICK C : C = A \cup Told(E.out, Len(E.out))
  OBVIOUS
<1>15. \A f : f \in C <=> f \in B \/ (f \in Fact /\ f = <<m.kind, m.id>>)
  BY <1>6, <1>10, <1>13, <1>14
<1>16. \A i \in DOMAIN E.out : (i \in DOMAIN D.out /\ E.out[i] = D.out[i]) \/ E.out[i] = m
  <2>1. PICK a \in Nat : a = Len(D.out) /\ DOMAIN D.out = 1..a /\ Len(q) = 1 /\ q[1] = m
    BY <1>1, <1>9
  <2>2. DOMAIN E.out = 1..(a + 1) /\ (\A i \in 1..a : E.out[i] = D.out[i]) /\ E.out[a + 1] = m
    BY <1>11, <2>1 DEF IsCat
  <2> QED BY <2>1, <2>2
<1>17. D.chan[c].id # NoId /\ D.chan[c].id[1] = D.seed /\ D.chan[c].id[2] <= D.last
  <2>1. ObjectOK(D, c)
    BY DEF PageOK
  <2> QED BY <2>1 DEF ObjectOK, Says
<1>18. Own(E)
  <2>1. m.id = D.chan[c].id /\ m.kind # "open"
    BY DEF Says
  <2> QED BY <1>5, <1>16, <1>17, <2>1 DEF PageOK, Own
<1>19. E.ready => E.ws # "none"
  BY <1>4 DEF PageOK
<1>20. Newest(E, C)
  <2>1. \A f \in B : f[2][1] = D.seed => f[2][2] <= D.last
    BY <1>7 DEF Newest
  <2>2. <<m.kind, m.id>>[2] = D.chan[c].id
    BY DEF Says
  <2> QED BY <1>4, <1>15, <1>17, <2>1, <2>2 DEF Newest
<1>21. \A b \in mine : E.chan[b].stage = "valid" /\ E.chan[b].attached => Spoken(E.chan[b], C)
  <2> SUFFICES ASSUME NEW b \in mine, E.chan[b].stage = "valid", E.chan[b].attached
               PROVE  Spoken(E.chan[b], C)
    OBVIOUS
  <2>1. D.chan[b].stage = "valid" /\ D.chan[b].attached => Spoken(D.chan[b], B)
    BY <1>6 DEF PageOK
  <2>2. CASE b # c
    <3>1. D.chan[b].id # m.id /\ E.chan[b] = D.chan[b] /\ Spoken(D.chan[b], B)
      BY <1>5, <1>17, <2>1, <2>2 DEF PageOK, Apart, Says
    <3>2. PICK i : i = D.chan[b].id
      OBVIOUS
    <3>3. <<"close", i>>[2] = i /\ <<"done", i>>[2] = i /\ <<m.kind, m.id>>[2] = m.id
      OBVIOUS
    <3>4. <<"close", i>> \in C => <<"close", i>> \in B
      BY <1>15, <3>1, <3>2, <3>3
    <3>5. <<"done", i>> \in C => <<"done", i>> \in B
      BY <1>15, <3>1, <3>2, <3>3
    <3> QED BY <1>15, <3>1, <3>2, <3>4, <3>5 DEF Spoken
  <2>3. CASE b = c
    <3>1. kk.stage = "valid" /\ kk.id = D.chan[c].id /\ (~kk.sent_done => ~D.chan[c].sent_done) /\ E.chan[b] = kk
          /\ Spoken(D.chan[c], B) /\ m.kind # "close" /\ (m.kind = "done" => kk.sent_done)
      BY <1>5, <1>7, <2>3 DEF Mild, Says
    <3>2. PICK i : i = D.chan[c].id
      OBVIOUS
    <3>3. <<"close", i>>[1] = "close" /\ <<"done", i>>[1] = "done" /\ <<m.kind, m.id>>[1] = m.kind
      OBVIOUS
    <3>4. <<"close", i>> \in C => <<"close", i>> \in B
      BY <1>15, <3>1, <3>3
    <3>5. ~kk.sent_done /\ <<"done", i>> \in C => <<"done", i>> \in B
      BY <1>15, <3>1, <3>3
    <3> QED BY <1>15, <3>1, <3>2, <3>4, <3>5 DEF Spoken
  <2> QED BY <2>2, <2>3
<1>22. PageOK(E, mine, A)
  BY <1>4, <1>5, <1>13, <1>14, <1>18, <1>19, <1>20, <1>21 DEF PageOK
<1>23. Goes(D, E)
  <2>1. Quiet(D.out) => Quiet(E.out)
    BY <1>16 DEF Quiet, Talk, Says
  <2> QED BY <1>4, <1>5, <1>7, <2>1 DEF Goes, Same
<1> QED BY <1>0, <1>22, <1>23

\* The last number of an interval, and the others.
LEMMA LastOr ==
  ASSUME NEW n \in Nat, NEW i \in 1..(n + 1)
  PROVE  i \in 1..n \/ i = n + 1
OBVIOUS

\* A channel that waits for its transport queues m.
LEMMA QueueOne ==
  ASSUME NEW k \in Object, QueueOK(k), NEW m \in Message, k.stage = "valid" \/ m.kind = "again",
         m.kind \in {"data", "done", "close", "again"},
         ~k.sent_done \/ m.kind \in {"close", "again"},
         NEW kk \in Object, kk.queue = Append(k.queue, m), kk.stage = "valid" => k.stage = "valid",
         m.kind = "close" => kk.stage = "closed",
         m.kind = "done" => kk.sent_done, k.sent_done => kk.sent_done
  PROVE  QueueOK(kk)
<1>1. PICK n \in Nat : n = Len(k.queue) /\ DOMAIN k.queue = 1..n /\ k.queue \in Seq(Message)
  BY DEF Object
<1>2. DOMAIN kk.queue = 1..(n + 1) /\ (\A i \in 1..n : kk.queue[i] = k.queue[i]) /\ kk.queue[n + 1] = m
  BY <1>1
<1>3. \A i \in 1..n :
       /\ k.queue[i].kind \in {"data", "done", "close", "again"}
       /\ k.stage = "valid" => k.queue[i].kind # "close"
       /\ k.stage = "valid" /\ ~k.sent_done => k.queue[i].kind # "done"
       /\ \A j \in 1..n : i < j =>
            /\ k.queue[i].kind = "close" => k.queue[j].kind = "again"
            /\ k.queue[i].kind = "done" => k.queue[j].kind \in {"close", "again"}
  BY <1>1 DEF QueueOK
<1>4. ASSUME NEW i \in 1..(n + 1)
      PROVE  /\ kk.queue[i].kind \in {"data", "done", "close", "again"}
             /\ kk.stage = "valid" => kk.queue[i].kind # "close"
             /\ kk.stage = "valid" /\ ~kk.sent_done => kk.queue[i].kind # "done"
             /\ \A j \in 1..(n + 1) : i < j =>
                  /\ kk.queue[i].kind = "close" => kk.queue[j].kind = "again"
                  /\ kk.queue[i].kind = "done" => kk.queue[j].kind \in {"close", "again"}
  <2>1. CASE i \in 1..n
    <3>1. /\ kk.queue[i].kind \in {"data", "done", "close", "again"}
          /\ kk.stage = "valid" => kk.queue[i].kind # "close"
          /\ kk.stage = "valid" /\ ~kk.sent_done => kk.queue[i].kind # "done"
      BY <1>2, <1>3, <2>1
    <3>2. ASSUME NEW j \in 1..(n + 1), i < j
          PROVE  /\ kk.queue[i].kind = "close" => kk.queue[j].kind = "again"
                 /\ kk.queue[i].kind = "done" => kk.queue[j].kind \in {"close", "again"}
      <4>1. CASE j \in 1..n
        BY <1>2, <1>3, <2>1, <3>2, <4>1
      <4>2. CASE j = n + 1
        BY <1>2, <1>3, <2>1, <4>2
      <4> QED BY <4>1, <4>2, LastOr
    <3> QED BY <3>1, <3>2
  <2>2. CASE i = n + 1
    BY <1>2, <2>2
  <2> QED BY <2>1, <2>2, LastOr
<1> QED BY <1>2, <1>4 DEF QueueOK

\* m with the id of the channel.
LEMMA Readdressed ==
  ASSUME NEW kind \in {"data", "done", "close", "again"}, NEW arg \in Args, NEW id \in Ids
  PROVE  \E m \in Message :
           /\ m = Msg(kind, NoId, arg) /\ m.kind = kind
           /\ [m EXCEPT !.id = id] \in Message
           /\ [m EXCEPT !.id = id].kind = kind /\ [m EXCEPT !.id = id].id = id
<1>1. NoId \in Ids /\ kind \in Kinds
  BY IdType DEF NoId, Kinds, Talk
<1>2. PICK m \in Message : m = Msg(kind, NoId, arg) /\ m.kind = kind
  BY <1>1, MsgType
<1>3. [m EXCEPT !.id = id] \in Message /\ [m EXCEPT !.id = id].kind = kind /\ [m EXCEPT !.id = id].id = id
  BY <1>2 DEF Message
<1> QED BY <1>2, <1>3

\* What send, control and close do to the channel, and to what was sent.
Posts(D, c, kk, m, E) ==
  \/ /\ ~D.chan[c].attached /\ E = Put(D, c, [kk EXCEPT !.queue = Append(D.chan[c].queue, m)])
  \/ /\ D.chan[c].attached /\ D.ws = "null" /\ E = Put(D, c, kk)
  \/ /\ D.chan[c].attached /\ D.ws # "null"
     /\ E = Say(D, c, kk, [m EXCEPT !.id = D.chan[c].id])

\* A call of a channel's method.
LEMMA PostsOK ==
  ASSUME NEW mine \in Mines, NEW A \in SUBSET Fact, NEW D, PageOK(D, mine, A), NEW c \in mine,
         NEW kk, Mild(D.chan[c], kk), kk.queue = D.chan[c].queue,
         NEW kind \in {"data", "done", "close", "again"}, NEW arg \in Args,
         D.chan[c].stage = "valid" \/ kind = "again", kk.stage = "valid" => D.chan[c].stage = "valid",
         D.chan[c].attached => D.chan[c].id # NoId,
         kind \in {"data", "done"} => ~D.chan[c].sent_done,
         kind = "done" => kk.sent_done, D.chan[c].sent_done => kk.sent_done,
         kind = "close" => kk.stage = "closed",
         NEW E, Posts(D, c, kk, Msg(kind, NoId, arg), E)
  PROVE  PageOK(E, mine, A) /\ Goes(D, E)
<1>0. PICK k : k = D.chan[c]
  OBVIOUS
<1>1. k \in Object /\ kk \in Object /\ k.id \in Ids /\ QueueOK(k) /\ QueueOK(kk) /\ Mild(k, kk)
  BY <1>0 DEF PageOK, Page, ObjectOK, Mild, Object
<1>2a. PICK id \in Ids : id = k.id
  BY <1>1
<1>2. PICK m \in Message :
           /\ m = Msg(kind, NoId, arg) /\ m.kind = kind
           /\ [m EXCEPT !.id = id] \in Message
           /\ [m EXCEPT !.id = id].kind = kind /\ [m EXCEPT !.id = id].id = id
  BY Readdressed
<1>3. [m EXCEPT !.id = k.id] \in Message /\ [m EXCEPT !.id = k.id].kind = kind /\ [m EXCEPT !.id = k.id].id = k.id
  BY <1>2, <1>2a
<1>4. CASE ~k.attached
  <2>1. PICK l : l = [kk EXCEPT !.queue = Append(k.queue, m)]
    OBVIOUS
  <2>2. /\ l \in Object /\ l.queue = Append(k.queue, m) /\ l.stage = kk.stage
        /\ l.sent_done = kk.sent_done /\ l.id = kk.id /\ l.attached = kk.attached
        /\ l.registered = kk.registered
    <3>1. Append(k.queue, m) \in Seq(Message)
      BY <1>1 DEF Object
    <3> QED BY <1>1, <2>1, <3>1 DEF Object
  <2>3. QueueOK(l)
    BY <1>0, <1>1, <1>2, <2>2, QueueOne
  <2>4. Mild(D.chan[c], l)
    BY <1>0, <1>1, <1>4, <2>2, <2>3 DEF Mild
  <2>5. E = Put(D, c, l)
    BY <1>0, <1>2, <1>4, <2>1 DEF Posts
  <2> QED BY <2>4, <2>5, PutOK
<1>5. CASE k.attached /\ D.ws = "null"
  <2>1. E = Put(D, c, kk)
    BY <1>0, <1>5 DEF Posts
  <2> QED BY <2>1, PutOK
<1>6. CASE k.attached /\ D.ws # "null"
  <2>1. PICK mm : mm = [m EXCEPT !.id = k.id]
    OBVIOUS
  <2>2. Says(D.chan[c], kk, mm)
    BY <1>0, <1>3, <1>6, <2>1 DEF Says
  <2>3. E = Say(D, c, kk, mm)
    BY <1>0, <1>2, <1>6, <2>1 DEF Posts
  <2> QED BY <1>6, <2>2, <2>3, SayOK
<1> QED BY <1>4, <1>5, <1>6

\* The fields of a channel.
LEMMA ObjectFields ==
  ASSUME NEW mine, NEW A, NEW D, PageOK(D, mine, A), NEW c \in mine
  PROVE  /\ D.chan[c] \in Object /\ ObjectOK(D, c) /\ QueueOK(D.chan[c])
         /\ D \in Page(mine) /\ D.chan \in [mine -> Object] /\ D.out \in Seq(Message)
  BY DEF PageOK, Page, ObjectOK

\* self.send
LEMMA SendOK ==
  ASSUME NEW mine \in Mines, NEW A \in SUBSET Fact, NEW D, PageOK(D, mine, A), NEW c \in mine,
         D.chan[c].stage = "valid", ~D.chan[c].sent_done
  PROVE  PageOK(ChannelSend(D, c), mine, A) /\ Goes(D, ChannelSend(D, c))
<1>0. PICK k : k = D.chan[c]
  OBVIOUS
<1>1. /\ k \in Object /\ ObjectOK(D, c) /\ QueueOK(k) /\ D \in Page(mine) /\ D.chan \in [mine -> Object]
  BY <1>0, ObjectFields
<1>2. Mild(D.chan[c], k)
  BY <1>0, <1>1 DEF Mild, ObjectOK
<1>3. PICK E : E = ChannelSend(D, c)
  OBVIOUS
<1>4. PICK m, a : a = (IF c \in Binary THEN "raw" ELSE "none") /\ m = Msg("data", NoId, a)
  OBVIOUS
<1>5. D.chan = [D.chan EXCEPT ![c] = k]
  BY <1>0, <1>1
<1>6. Posts(D, c, k, m, E)
  <2>1. E = ChannelPost(D, c, m)
    BY <1>3, <1>4 DEF ChannelSend
  <2>2. CASE ~k.attached
    <3>1. E = [D EXCEPT !.chan[c].queue = Append(@, m)]
      BY <1>0, <2>1, <2>2 DEF ChannelPost
    <3>2. E = [D EXCEPT !.chan = [D.chan EXCEPT ![c] = [k EXCEPT !.queue = Append(k.queue, m)]]]
      BY <1>0, <1>1, <3>1 DEF Page, Object
    <3> QED BY <1>0, <2>2, <3>2 DEF Posts, Put
  <2>3. CASE k.attached /\ D.ws = "null"
    <3>1. E = D
      BY <1>0, <2>1, <2>3 DEF ChannelPost, SendData
    <3>2. Put(D, c, k) = D
      BY <1>1, <1>5 DEF Put, Page
    <3> QED BY <1>0, <2>3, <3>1, <3>2 DEF Posts
  <2>4. CASE k.attached /\ D.ws # "null"
    <3>1. E = [D EXCEPT !.out = Append(D.out, [m EXCEPT !.id = k.id])]
      BY <1>0, <2>1, <2>4 DEF ChannelPost, SendData
    <3>2. E = Say(D, c, k, [m EXCEPT !.id = k.id])
      BY <1>1, <1>5, <3>1 DEF Say, Page
    <3> QED BY <1>0, <2>4, <3>2 DEF Posts
  <2> QED BY <2>2, <2>3, <2>4
<1>7. a \in Args /\ (k.attached => k.id # NoId)
  BY <1>0, <1>1, <1>4 DEF Args, Problems, ObjectOK
<1>8. Posts(D, c, k, Msg("data", NoId, a), E)
  BY <1>4, <1>6
<1>9. PageOK(E, mine, A) /\ Goes(D, E)
  BY <1>0, <1>2, <1>7, <1>8, PostsOK
<1> QED BY <1>3, <1>9

\* self.control of a "done"
LEMMA DoneOK ==
  ASSUME NEW mine \in Mines, NEW A \in SUBSET Fact, NEW D, PageOK(D, mine, A), NEW c \in mine,
         D.chan[c].stage # "none", D.chan[c].attached => D.chan[c].id # NoId
  PROVE  PageOK(ChannelDone(D, c), mine, A) /\ Goes(D, ChannelDone(D, c))
<1>0. PICK k : k = D.chan[c]
  OBVIOUS
<1>1. /\ k \in Object /\ ObjectOK(D, c) /\ QueueOK(k) /\ D \in Page(mine) /\ D.chan \in [mine -> Object]
  BY <1>0, ObjectFields
<1>1a. PICK kk : kk = [k EXCEPT !.sent_done = TRUE]
  OBVIOUS
<1>1b. kk \in Object /\ kk.id = k.id /\ kk.attached = k.attached /\ kk.queue = k.queue /\ kk.stage = k.stage
       /\ kk.sent_done /\ kk.registered = k.registered
  BY <1>1, <1>1a DEF Object
<1>2. Mild(D.chan[c], kk)
  <2>1. QueueOK(kk)
    BY <1>1, <1>1b DEF QueueOK
  <2> QED BY <1>0, <1>1, <1>1b, <2>1 DEF Mild, ObjectOK
<1>3. PICK E : E = ChannelDone(D, c)
  OBVIOUS
<1>4. PICK m, kind : /\ kind = (IF k.sent_done \/ k.stage = "closed" THEN "again" ELSE "done")
                    /\ m = Msg(kind, NoId, "none")
  OBVIOUS
<1>5. PICK F : F = Put(D, c, kk)
  OBVIOUS
<1>5a. /\ F \in Page(mine) /\ F.chan = [D.chan EXCEPT ![c] = kk] /\ F.chan[c] = kk /\ F.ws = D.ws /\ F.out = D.out
  BY <1>1, <1>1b, <1>5 DEF Put, Page
<1>5b. [D EXCEPT !.chan[c].sent_done = TRUE] = F
  BY <1>0, <1>1, <1>1a, <1>5 DEF Put, Page
<1>6. Posts(D, c, kk, m, E)
  <2>1. E = ChannelPost(F, c, m)
    BY <1>0, <1>3, <1>4, <1>5b DEF ChannelDone
  <2>2. CASE ~k.attached
    <3>1. E = [F EXCEPT !.chan[c].queue = Append(@, m)]
      BY <1>1b, <1>5a, <2>1, <2>2 DEF ChannelPost
    <3>2. E = [F EXCEPT !.chan = [F.chan EXCEPT ![c] = [kk EXCEPT !.queue = Append(k.queue, m)]]]
      BY <1>1b, <1>5a, <3>1 DEF Page, Object
    <3>3. PICK l : l = [kk EXCEPT !.queue = Append(k.queue, m)]
      OBVIOUS
    <3>4. [F.chan EXCEPT ![c] = l] = [D.chan EXCEPT ![c] = l]
      BY <1>1, <1>5a
    <3>5. E = Put(D, c, l)
      BY <1>1, <1>5, <3>2, <3>3, <3>4 DEF Put, Page
    <3> QED BY <1>0, <2>2, <3>3, <3>5 DEF Posts
  <2>3. CASE k.attached /\ D.ws = "null"
    <3>1. E = F
      BY <1>1b, <1>5a, <2>1, <2>3 DEF ChannelPost, SendData
    <3> QED BY <1>0, <1>5, <2>3, <3>1 DEF Posts
  <2>4. CASE k.attached /\ D.ws # "null"
    <3>1. E = [F EXCEPT !.out = Append(D.out, [m EXCEPT !.id = k.id])]
      BY <1>1b, <1>5a, <2>1, <2>4 DEF ChannelPost, SendData
    <3>2. E = Say(D, c, kk, [m EXCEPT !.id = k.id])
      BY <1>1, <1>5, <3>1 DEF Say, Put, Page
    <3> QED BY <1>0, <2>4, <3>2 DEF Posts
  <2> QED BY <2>2, <2>3, <2>4
<1>7. /\ "none" \in Args /\ kind \in {"data", "done", "close", "again"}
      /\ D.chan[c].stage = "valid" \/ kind = "again"
      /\ kind \in {"data", "done"} => ~D.chan[c].sent_done
      /\ kind # "close" /\ (kk.stage = "valid" => D.chan[c].stage = "valid") /\ kk.sent_done
  BY <1>0, <1>1, <1>1b, <1>4 DEF Args, Problems, Object
<1>8. Posts(D, c, kk, Msg(kind, NoId, "none"), E)
  BY <1>4, <1>6
<1>8a. kk.queue = D.chan[c].queue
  BY <1>0, <1>1b
<1>9. PageOK(E, mine, A) /\ Goes(D, E)
  BY <1>2, <1>7, <1>8, <1>8a, PostsOK
<1> QED BY <1>3, <1>9

\* A channel that is closed, and was made.
LEMMA ClosedMild ==
  ASSUME NEW k \in Object, QueueOK(k), NEW problem1 \in Args
  PROVE  /\ Mild(k, Closed(k, problem1)) /\ Closed(k, problem1).stage = "closed"
         /\ Closed(k, problem1).queue = k.queue /\ Closed(k, problem1).sent_done = k.sent_done
         /\ Closed(k, problem1).attached = k.attached /\ Closed(k, problem1).id = k.id
         /\ ~Closed(k, problem1).registered
<1> DEFINE w == IF k.waiting = "pending" THEN "rejected" ELSE k.waiting
<1>1. w \in {"none", "pending", "resolved", "rejected"}
  BY DEF Object
<1>2. PICK kk : kk = Closed(k, problem1)
  OBVIOUS
<1>3. kk = [k EXCEPT !.stage = "closed", !.registered = FALSE, !.problem = problem1, !.waiting = w]
  BY <1>2 DEF Closed
<1> HIDE DEF w
<1>4. kk \in Object /\ kk.id = k.id /\ kk.attached = k.attached /\ kk.queue = k.queue
      /\ kk.stage = "closed" /\ kk.sent_done = k.sent_done /\ ~kk.registered
  BY <1>1, <1>3 DEF Object
<1>5. QueueOK(kk)
  BY <1>4 DEF QueueOK
<1>6. Mild(k, kk)
  BY <1>4, <1>5 DEF Mild
<1> QED BY <1>2, <1>4, <1>6

\* self.close
LEMMA CloseOK ==
  ASSUME NEW mine \in Mines, NEW A \in SUBSET Fact, NEW D, PageOK(D, mine, A), NEW c \in mine,
         D.chan[c].stage = "valid", NEW problem1 \in Args
  PROVE  PageOK(ChannelClose(D, c, problem1), mine, A) /\ Goes(D, ChannelClose(D, c, problem1))
<1>0. PICK k : k = D.chan[c]
  OBVIOUS
<1>1. /\ k \in Object /\ ObjectOK(D, c) /\ QueueOK(k) /\ D \in Page(mine) /\ D.chan \in [mine -> Object]
      /\ D.out \in Seq(Message)
  BY <1>0, ObjectFields
<1>1a. PICK kk : kk = Closed(k, problem1)
  OBVIOUS
<1>1b. /\ Mild(k, kk) /\ kk.stage = "closed" /\ kk.queue = k.queue /\ kk.sent_done = k.sent_done
       /\ kk.attached = k.attached /\ kk.id = k.id
  BY <1>1, <1>1a, ClosedMild
<1>2. Mild(D.chan[c], kk)
  BY <1>0, <1>1b
<1>3. PICK E : E = ChannelClose(D, c, problem1)
  OBVIOUS
<1>4. PICK m : m = Msg("close", NoId, problem1)
  OBVIOUS
<1>5. PICK F : F = ChannelPost(D, c, m)
  OBVIOUS
<1>5a. E = [F EXCEPT !.chan[c] = Closed(F.chan[c], problem1)]
  BY <1>3, <1>4, <1>5 DEF ChannelClose
<1>6. Posts(D, c, kk, m, E)
  <2>2. CASE ~k.attached
    <3>1. F = [D EXCEPT !.chan[c].queue = Append(@, m)]
      BY <1>0, <1>5, <2>2 DEF ChannelPost
    <3>3. PICK l : l = [k EXCEPT !.queue = Append(k.queue, m)]
      OBVIOUS
    <3>4. F = [D EXCEPT !.chan = [D.chan EXCEPT ![c] = l]] /\ F.chan[c] = l
      BY <1>0, <1>1, <3>1, <3>3 DEF Page
    <3>5. Closed(l, problem1) = [kk EXCEPT !.queue = Append(k.queue, m)]
      BY <1>1, <1>1a, <3>3 DEF Closed, Object
    <3>6. PICK z : z = Closed(l, problem1)
      OBVIOUS
    <3>7. E = [D EXCEPT !.chan = [D.chan EXCEPT ![c] = z]]
      BY <1>1, <1>5a, <3>4, <3>6 DEF Page
    <3> QED BY <1>0, <2>2, <3>5, <3>6, <3>7 DEF Posts, Put
  <2>3. CASE k.attached /\ D.ws = "null"
    <3>1. F = D
      BY <1>0, <1>5, <2>3 DEF ChannelPost, SendData
    <3>2. E = Put(D, c, kk)
      BY <1>0, <1>1, <1>1a, <1>5a, <3>1 DEF Put, Page
    <3> QED BY <1>0, <2>3, <3>2 DEF Posts
  <2>4. CASE k.attached /\ D.ws # "null"
    <3>1. F = [D EXCEPT !.out = Append(D.out, [m EXCEPT !.id = k.id])]
      BY <1>0, <1>5, <2>4 DEF ChannelPost, SendData
    <3>2. F.chan[c] = k
      BY <1>0, <1>1, <3>1 DEF Page
    <3>3. E = Say(D, c, kk, [m EXCEPT !.id = k.id])
      BY <1>1, <1>1a, <1>5a, <3>1, <3>2 DEF Say, Page
    <3> QED BY <1>0, <2>4, <3>3 DEF Posts
  <2> QED BY <2>2, <2>3, <2>4
<1>8. Posts(D, c, kk, Msg("close", NoId, problem1), E)
  BY <1>4, <1>6
<1>8a. /\ kk.queue = D.chan[c].queue /\ (D.chan[c].sent_done => kk.sent_done)
       /\ kk.stage # "valid" /\ (k.attached => k.id # NoId)
  BY <1>0, <1>1, <1>1b DEF ObjectOK
<1>9. PageOK(E, mine, A) /\ Goes(D, E)
  BY <1>0, <1>1b, <1>2, <1>8, <1>8a, PostsOK
<1> QED BY <1>3, <1>9

\* self.wait
LEMMA WaitOK ==
  ASSUME NEW mine \in Mines, NEW A \in SUBSET Fact, NEW D, PageOK(D, mine, A), NEW c \in mine,
         D.chan[c].stage # "none"
  PROVE  PageOK(ChannelWait(D, c), mine, A) /\ Goes(D, ChannelWait(D, c))
<1>0. PICK k : k = D.chan[c]
  OBVIOUS
<1>1. /\ k \in Object /\ ObjectOK(D, c) /\ QueueOK(k) /\ D \in Page(mine) /\ D.chan \in [mine -> Object]
  BY <1>0, ObjectFields
<1>2. PICK w : w = (IF k.stage = "closed" THEN "rejected" ELSE IF k.ready THEN "resolved" ELSE "pending")
  OBVIOUS
<1>3. w \in {"none", "pending", "resolved", "rejected"}
  BY <1>2
<1>4. PICK kk : kk = [k EXCEPT !.waiting = w]
  OBVIOUS
<1>5. kk \in Object /\ kk.id = k.id /\ kk.attached = k.attached /\ kk.queue = k.queue /\ kk.stage = k.stage
       /\ kk.sent_done = k.sent_done /\ kk.registered = k.registered
  BY <1>1, <1>3, <1>4 DEF Object
<1>6. Mild(D.chan[c], kk)
  <2>1. QueueOK(kk)
    BY <1>1, <1>5 DEF QueueOK
  <2> QED BY <1>0, <1>1, <1>5, <2>1 DEF Mild, ObjectOK
<1>7. ChannelWait(D, c) = [D EXCEPT !.chan[c].waiting = w]
  BY <1>0, <1>2 DEF ChannelWait
<1>8. ChannelWait(D, c) = Put(D, c, kk)
  BY <1>0, <1>1, <1>4, <1>7 DEF Put, Page
<1> QED BY <1>6, <1>8, PutOK

\* A page that gets its transport.
Starts(D, E) ==
  /\ D.ws = "none" /\ E.ws = "opening" /\ E.seed = D.seed /\ E.hidden = D.hidden
  /\ E.waiting_for_init = D.waiting_for_init /\ Keeps(D, E) /\ E.ready = D.ready /\ E.out = D.out

\* The constructor of a channel.
LEMMA CreateOK ==
  ASSUME NEW mine \in Mines, NEW A \in SUBSET Fact, NEW D, PageOK(D, mine, A), NEW c \in mine,
         D.chan[c].stage = "none"
  PROVE  /\ PageOK(CreateChannel(D, c), mine, A)
         /\ D.ws # "none" => Goes(D, CreateChannel(D, c))
         /\ D.ws = "none" => Starts(D, CreateChannel(D, c))
<1>0. PICK k : k = D.chan[c]
  OBVIOUS
<1>1. /\ k \in Object /\ ObjectOK(D, c) /\ QueueOK(k) /\ D \in Page(mine) /\ D.chan \in [mine -> Object]
      /\ D.waiters \in Seq(mine)
  BY <1>0, ObjectFields DEF Page
<1>2. k.stage = "none" /\ k.queue = <<>> /\ ~k.attached /\ ~k.sent_done /\ ~k.registered
  BY <1>0, <1>1 DEF ObjectOK
<1>4. PICK kk : kk = [k EXCEPT !.stage = "valid"]
  OBVIOUS
<1>5. kk \in Object /\ kk.id = k.id /\ kk.attached = k.attached /\ kk.queue = k.queue /\ kk.stage = "valid"
       /\ kk.sent_done = k.sent_done /\ kk.registered = k.registered
  BY <1>1, <1>4 DEF Object
<1>6. Mild(D.chan[c], kk)
  <2>1. QueueOK(kk)
    BY <1>2, <1>5 DEF QueueOK
  <2> QED BY <1>0, <1>2, <1>5, <2>1 DEF Mild
<1>7. PICK F : F = Put(D, c, kk)
  OBVIOUS
<1>8. [D EXCEPT !.chan[c].stage = "valid"] = F
  BY <1>0, <1>1, <1>4, <1>7 DEF Put, Page
<1>9. PageOK(F, mine, A) /\ Goes(D, F) /\ F.waiters = D.waiters /\ F.out = D.out /\ F.chan[c] = kk
  BY <1>6, <1>7, PutOK
<1>10. PICK E : E = CreateChannel(D, c)
  OBVIOUS
<1>11. E = EnsureTransport(F, c)
  BY <1>8, <1>10 DEF CreateChannel
<1>12. F.ws = D.ws /\ F.ready = D.ready /\ F \in Page(mine) /\ (D.ready => D.ws # "none")
  BY <1>9 DEF Goes, Same, PageOK
<1>13. CASE D.ready
  <2>1. Waits(F, c)
    BY <1>2, <1>5, <1>9 DEF Waits
  <2>2. E = Attach(F, c)
    BY <1>11, <1>12, <1>13 DEF EnsureTransport
  <2>3. PageOK(E, mine, A) /\ Goes(F, E)
    BY <1>9, <1>12, <1>13, <2>1, <2>2, AttachOK
  <2>4. Goes(D, E)
    BY <1>1, <1>9, <1>12, <2>3, GoesTrans
  <2> QED BY <1>10, <1>12, <1>13, <2>3, <2>4
<1>14. CASE ~D.ready
  <2>1. PICK w, ws : w = Append(D.waiters, c) /\ ws = IF D.ws = "none" THEN "opening" ELSE D.ws
    OBVIOUS
  <2>2. E = [F EXCEPT !.ws = ws, !.waiters = w]
    BY <1>9, <1>11, <1>12, <1>14, <2>1 DEF EnsureTransport
  <2>3. w \in Seq(mine) /\ ws \in {"none", "opening", "open", "null"} /\ ws # "none"
    BY <1>1, <2>1 DEF Page
  <2>4. /\ E \in Page(mine) /\ E.ws = ws /\ E.waiters = w /\ E.ready = F.ready /\ E.seed = F.seed
        /\ E.last = F.last /\ E.hidden = F.hidden /\ E.waiting_for_init = F.waiting_for_init
        /\ E.chan = F.chan /\ E.out = F.out
    BY <1>12, <2>2, <2>3 DEF Page
  <2>5. \A b \in mine : ObjectOK(E, b)
    BY <1>9, <2>4 DEF PageOK, ObjectOK
  <2>6. Apart(E) /\ Own(E) /\ OutOK(E.out, A)
    BY <1>9, <2>4 DEF PageOK, Apart, Own
  <2>7. \A b \in mine : ~E.chan[b].attached
    BY <1>12, <1>14, <2>4, <2>5 DEF ObjectOK
  <2>8. WaitersOK(E)
    <3>1. PICK n \in Nat : n = Len(D.waiters) /\ DOMAIN D.waiters = 1..n
      BY <1>1
    <3>2. DOMAIN w = 1..(n + 1) /\ (\A i \in 1..n : w[i] = D.waiters[i]) /\ w[n + 1] = c
      BY <1>1, <2>1, <3>1
    <3>3. \A i \in 1..n : D.chan[D.waiters[i]].stage # "none" /\ D.waiters[i] # c
      BY <1>0, <1>2, <3>1 DEF PageOK, WaitersOK
    <3>4. \A i, j \in 1..n : D.waiters[i] = D.waiters[j] => i = j
      BY <3>1 DEF PageOK, WaitersOK
    <3>5. \A i \in 1..n : F.chan[D.waiters[i]].stage # "none"
      BY <1>9, <3>1 DEF PageOK, WaitersOK
    <3>6. \A i \in 1..(n + 1) : i \in 1..n \/ i = n + 1
      BY <3>1, LastOr
    <3>7. \A i \in 1..(n + 1) : E.chan[w[i]].stage # "none"
      BY <1>5, <1>9, <2>4, <3>2, <3>5, <3>6
    <3>8. \A i, j \in 1..(n + 1) : w[i] = w[j] => i = j
      BY <3>2, <3>3, <3>4, <3>6
    <3> QED BY <2>4, <3>2, <3>7, <3>8 DEF WaitersOK
  <2>9. PageOK(E, mine, A)
    BY <1>12, <1>14, <2>3, <2>4, <2>5, <2>6, <2>7, <2>8 DEF PageOK, Newest
  <2>10. Keeps(D, E)
    BY <1>9, <2>4 DEF Goes, Keeps
  <2>11. D.ws # "none" => Goes(D, E)
    BY <1>9, <2>1, <2>4, <2>10 DEF Goes, Same
  <2>12. D.ws = "none" => Starts(D, E)
    BY <1>9, <2>1, <2>4, <2>10 DEF Goes, Same, Starts
  <2> QED BY <1>10, <2>9, <2>11, <2>12
<1> QED BY <1>13, <1>14

\* What a channel does with a message.
LEMMA OnMessageOK ==
  ASSUME NEW mine \in Mines, NEW A \in SUBSET Fact, NEW D, PageOK(D, mine, A), NEW c \in mine,
         D.chan[c].registered
  PROVE  PageOK(OnMessage(D, c), mine, A) /\ Goes(D, OnMessage(D, c))
<1>1. D.chan[c].stage = "valid" /\ "protocol-error" \in Args
  BY DEF PageOK, ObjectOK, Args, Problems
<1>2. PageOK(ChannelClose(D, c, "protocol-error"), mine, A) /\ Goes(D, ChannelClose(D, c, "protocol-error"))
  BY <1>1, CloseOK
<1>3. Goes(D, D)
  BY DEF Goes, Same, Keeps
<1> QED BY <1>2, <1>3 DEF OnMessage

\* What a channel does with a control message.
LEMMA OnControlOK ==
  ASSUME NEW mine \in Mines, NEW A \in SUBSET Fact, NEW D, PageOK(D, mine, A), NEW c \in mine,
         D.chan[c].registered, NEW m \in Message, m.kind \in {"ready", "done", "close"}
  PROVE  PageOK(OnControl(D, c, m), mine, A) /\ Goes(D, OnControl(D, c, m))
<1>0. PICK k : k = D.chan[c]
  OBVIOUS
<1>1. /\ k \in Object /\ ObjectOK(D, c) /\ QueueOK(k) /\ D \in Page(mine) /\ D.chan \in [mine -> Object]
      /\ k.stage = "valid" /\ k.attached
  BY <1>0, ObjectFields DEF ObjectOK
<1>2. "protocol-error" \in Args /\ m.arg \in Args
  BY DEF Args, Problems, Message
<1>3. CASE m.kind = "close"
  <2>0. PICK p \in Args : p = m.arg
    BY <1>2
  <2>1. PICK kk : kk = Closed(k, p)
    OBVIOUS
  <2>2. Mild(D.chan[c], kk)
    <3>1. Mild(k, kk)
      BY <1>1, <2>1, ClosedMild
    <3> QED BY <1>0, <3>1
  <2>3. OnControl(D, c, m) = [D EXCEPT !.chan[c] = Closed(@, p)]
    BY <1>3, <2>0 DEF OnControl
  <2>4. OnControl(D, c, m) = Put(D, c, kk)
    BY <1>0, <1>1, <2>1, <2>3 DEF Put, Page
  <2> QED BY <2>2, <2>4, PutOK
<1>4. CASE m.kind = "ready"
  <2>1. PICK w : w = IF k.waiting = "pending" THEN "resolved" ELSE k.waiting
    OBVIOUS
  <2>2. w \in {"none", "pending", "resolved", "rejected"}
    BY <1>1, <2>1 DEF Object
  <2>3. PICK kk : kk = [k EXCEPT !.ready = TRUE, !.waiting = w]
    OBVIOUS
  <2>4. kk \in Object /\ kk.id = k.id /\ kk.attached = k.attached /\ kk.queue = k.queue /\ kk.stage = k.stage
        /\ kk.sent_done = k.sent_done /\ kk.registered = k.registered
    BY <1>1, <2>2, <2>3 DEF Object
  <2>5. QueueOK(kk)
    BY <1>1, <2>4 DEF QueueOK
  <2>6. Mild(D.chan[c], kk)
    BY <1>0, <1>1, <2>4, <2>5 DEF Mild
  <2>7. OnControl(D, c, m) = [D EXCEPT !.chan[c] = kk]
    <3>1. OnControl(D, c, m) = [D EXCEPT !.chan[c] = Readied(@)]
      BY <1>4 DEF OnControl
    <3>2. Readied(k) = kk
      BY <2>1, <2>3 DEF Readied
    <3> QED BY <1>0, <3>1, <3>2
  <2>8. OnControl(D, c, m) = Put(D, c, kk)
    BY <1>1, <2>7 DEF Put, Page
  <2> QED BY <2>6, <2>8, PutOK
<1>5. CASE m.kind = "done"
  <2>1. PICK kk : kk = [k EXCEPT !.received_done = TRUE]
    OBVIOUS
  <2>4. kk \in Object /\ kk.id = k.id /\ kk.attached = k.attached /\ kk.queue = k.queue /\ kk.stage = k.stage
        /\ kk.sent_done = k.sent_done /\ kk.registered = k.registered
    BY <1>1, <2>1 DEF Object
  <2>5. QueueOK(kk)
    BY <1>1, <2>4 DEF QueueOK
  <2>6. Mild(D.chan[c], kk)
    BY <1>0, <1>1, <2>4, <2>5 DEF Mild
  <2>7. PageOK(Put(D, c, kk), mine, A) /\ Goes(D, Put(D, c, kk))
    BY <2>6, PutOK
  <2>8. PageOK(ChannelClose(D, c, "protocol-error"), mine, A) /\ Goes(D, ChannelClose(D, c, "protocol-error"))
    BY <1>0, <1>1, <1>2, CloseOK
  <2>9. CASE D.chan[c].received_done
    <3>1. OnControl(D, c, m) = ChannelClose(D, c, "protocol-error")
      BY <1>5, <2>9 DEF OnControl
    <3> QED BY <2>8, <3>1
  <2>10. CASE ~D.chan[c].received_done
    <3>1. OnControl(D, c, m) = [D EXCEPT !.chan[c].received_done = TRUE]
      BY <1>5, <2>10 DEF OnControl
    <3>2. OnControl(D, c, m) = Put(D, c, kk)
      BY <1>0, <1>1, <2>1, <3>1 DEF Put, Page
    <3> QED BY <2>7, <3>2
  <2> QED BY <2>9, <2>10
<1> QED BY <1>3, <1>4, <1>5

\* Like Goes(), for a page whose transport becomes ready.
Readies(D, E) ==
  /\ Same(D, E) /\ Keeps(D, E) /\ E.ready
  /\ Quiet(D.out) => Quiet(E.out)
  /\ D.ws = "null" => E.out = D.out

\* ready_for_channels
LEMMA ReadyOK ==
  ASSUME NEW mine \in Mines, NEW A \in SUBSET Fact, NEW D, PageOK(D, mine, A), D.ws # "none",
         D.ready \/ D.ws = "null" \/ \A f \in A \cup Told(D.out, Len(D.out)) : f[2][1] # D.seed
  PROVE  PageOK(ReadyForChannels(D), mine, A) /\ Readies(D, ReadyForChannels(D))
<1>1. CASE D.ready
  <2>1. ReadyForChannels(D) = D
    BY <1>1 DEF ReadyForChannels
  <2> QED BY <1>1, <2>1 DEF Readies, Same, Keeps
<1>2. CASE ~D.ready
  <2>1. PICK E : E = [D EXCEPT !.ready = TRUE, !.waiters = <<>>]
    OBVIOUS
  <2>2. ReadyForChannels(D) = AttachAll(E, D.waiters)
    BY <1>2, <2>1 DEF ReadyForChannels
  <2>3. D \in Page(mine) /\ D.waiters \in Seq(mine) /\ <<>> \in Seq(mine)
    BY DEF PageOK, Page
  <2>4. /\ E \in Page(mine) /\ E.ws = D.ws /\ E.waiters = <<>> /\ E.ready /\ E.seed = D.seed
        /\ E.last = D.last /\ E.hidden = D.hidden /\ E.waiting_for_init = D.waiting_for_init
        /\ E.chan = D.chan /\ E.out = D.out
    BY <2>1, <2>3 DEF Page
  <2>5. \A b \in mine : ~D.chan[b].attached
    BY <1>2 DEF PageOK, ObjectOK
  <2>6. \A b \in mine : ObjectOK(E, b)
    BY <2>4 DEF PageOK, ObjectOK
  <2>7. Apart(E) /\ Own(E) /\ OutOK(E.out, A) /\ WaitersOK(E)
    BY <2>4 DEF PageOK, Apart, Own, WaitersOK
  <2>8. Newest(E, A \cup Told(E.out, Len(E.out)))
    BY <1>2, <2>4 DEF Newest
  <2>9. PageOK(E, mine, A)
    BY <2>4, <2>5, <2>6, <2>7, <2>8 DEF PageOK
  <2>10. \A i \in DOMAIN D.waiters : Waits(E, D.waiters[i])
    <3>1. \A i \in DOMAIN D.waiters : D.waiters[i] \in mine
      BY <2>3
    <3> QED BY <2>4, <2>5, <3>1 DEF PageOK, WaitersOK, Waits
  <2>11. \A i, j \in DOMAIN D.waiters : D.waiters[i] = D.waiters[j] => i = j
    BY DEF PageOK, WaitersOK
  <2>12. PICK s \in Seq(mine) : s = D.waiters
    BY <2>3
  <2>13. (\A i \in DOMAIN s : Waits(E, s[i])) /\ \A i, j \in DOMAIN s : s[i] = s[j] => i = j
    BY <2>10, <2>11, <2>12
  <2>14. PageOK(AttachAll(E, s), mine, A) /\ Goes(E, AttachAll(E, s))
    BY <2>4, <2>9, <2>13, AttachAllOK
  <2>15. Readies(D, AttachAll(E, s))
    BY <2>4, <2>14 DEF Readies, Goes, Same, Keeps
  <2> QED BY <2>2, <2>12, <2>14, <2>15
<1> QED BY <1>1, <1>2

\* The transport is gone, and every channel hears of it.
LEMMA BroadcastOK ==
  ASSUME NEW mine \in Mines, NEW A \in SUBSET Fact, NEW D, PageOK(D, mine, A), D.ws = "null",
         NEW problem1 \in Args
  PROVE  /\ PageOK(Broadcast(D, problem1), mine, A) /\ Same(D, Broadcast(D, problem1))
         /\ Keeps(D, Broadcast(D, problem1)) /\ Broadcast(D, problem1).ready = D.ready
         /\ Broadcast(D, problem1).out = D.out
<1>0. PICK ch : ch = [c \in mine |-> IF D.chan[c].registered THEN Closed(D.chan[c], problem1) ELSE D.chan[c]]
  OBVIOUS
<1>1. D \in Page(mine) /\ D.chan \in [mine -> Object] /\ D.waiters \in Seq(mine) /\ DOMAIN D.chan = mine
  BY DEF PageOK, Page
<1>2. ASSUME NEW c \in mine
      PROVE  /\ D.chan[c] \in Object /\ ObjectOK(D, c)
             /\ ch[c] = D.chan[c] \/ (D.chan[c].registered /\ Mild(D.chan[c], ch[c]))
  <2>1. D.chan[c] \in Object /\ ObjectOK(D, c) /\ QueueOK(D.chan[c])
    BY ObjectFields
  <2>2. PICK k \in Object : k = D.chan[c]
    BY <2>1
  <2>3. QueueOK(k)
    BY <2>1, <2>2
  <2>4. Mild(k, Closed(k, problem1))
    BY <2>3, ClosedMild
  <2> QED BY <1>0, <2>1, <2>2, <2>4
<1>3. \A c \in mine : ch[c] \in Object
  BY <1>2 DEF Mild
<1>4. ch \in [mine -> Object]
  BY <1>0, <1>3
<1>5. PICK E : E = Broadcast(D, problem1)
  OBVIOUS
<1>6. E = [D EXCEPT !.chan = ch]
  BY <1>0, <1>1, <1>5 DEF Broadcast
<1>7. /\ E \in Page(mine) /\ E.ws = D.ws /\ E.waiters = D.waiters /\ E.ready = D.ready /\ E.seed = D.seed
      /\ E.last = D.last /\ E.hidden = D.hidden /\ E.waiting_for_init = D.waiting_for_init
      /\ E.chan = ch /\ E.out = D.out /\ DOMAIN E.chan = mine
  BY <1>1, <1>4, <1>6 DEF Page
<1>8. ASSUME NEW c \in mine PROVE ObjectOK(E, c)
  <2>1. CASE ch[c] = D.chan[c]
    BY <1>2, <1>7, <2>1 DEF ObjectOK
  <2>2. CASE D.chan[c].registered /\ Mild(D.chan[c], ch[c])
    BY <1>2, <1>7, <2>2 DEF ObjectOK, Mild
  <2> QED BY <1>2, <2>1, <2>2
<1>9. \A c \in mine : E.chan[c].id = D.chan[c].id /\ (D.chan[c].stage # "none" => E.chan[c].stage # "none")
  BY <1>2, <1>7 DEF Mild
<1>10. Apart(E)
  BY <1>1, <1>7, <1>9 DEF PageOK, Apart
<1>11. Own(E)
  BY <1>1, <1>7, <1>9 DEF PageOK, Own
<1>12. WaitersOK(E)
  <2>1. \A i \in DOMAIN D.waiters : D.waiters[i] \in mine
    BY <1>1
  <2> QED BY <1>7, <1>9, <2>1 DEF PageOK, WaitersOK
<1>13. OutOK(E.out, A) /\ E.ws # "none"
  BY <1>7 DEF PageOK
<1>14. Newest(E, A \cup Told(E.out, Len(E.out)))
  BY <1>7 DEF Newest
<1>15. PageOK(E, mine, A)
  BY <1>7, <1>8, <1>10, <1>11, <1>12, <1>13, <1>14 DEF PageOK
<1>16. Keeps(D, E) /\ Same(D, E)
  BY <1>1, <1>7, <1>9 DEF Keeps, Same
<1> QED BY <1>5, <1>7, <1>15, <1>16

\* A page that loses its transport.
Ends(D, E, frame) ==
  /\ E.ws = "null" /\ E.seed = D.seed /\ E.hidden = D.hidden
  /\ E.waiting_for_init = D.waiting_for_init /\ (D.ready => E.ready) /\ Keeps(D, E)
  /\ E.out = IF frame /\ D.ws # "null" THEN Append(D.out, Msg("bye", NoId, "none")) ELSE D.out

\* Transport.close
LEMMA TransportCloseOK ==
  ASSUME NEW mine \in Mines, NEW A \in SUBSET Fact, NEW D, PageOK(D, mine, A),
         NEW problem1 \in Args, NEW frame \in BOOLEAN
  PROVE  /\ PageOK(TransportClose(D, problem1, frame), mine, A)
         /\ Ends(D, TransportClose(D, problem1, frame), frame)
<1>1. D \in Page(mine) /\ D.out \in Seq(Message)
  BY DEF PageOK, Page
<1>2. PICK m \in Message : m = Msg("bye", NoId, "none") /\ m.kind = "bye"
  <2>1. NoId \in Ids
    BY IdType DEF NoId
  <2> QED BY <2>1, MsgType DEF Kinds, Talk, Args, Problems
<1>3. PICK o : o = IF frame /\ D.ws # "null" THEN Append(D.out, m) ELSE D.out
  OBVIOUS
<1>4. o \in Seq(Message)
  BY <1>1, <1>3
<1>5. PICK E : E = [D EXCEPT !.ws = "null", !.out = o]
  OBVIOUS
<1>6. /\ E \in Page(mine) /\ E.ws = "null" /\ E.waiters = D.waiters /\ E.ready = D.ready /\ E.seed = D.seed
      /\ E.last = D.last /\ E.hidden = D.hidden /\ E.waiting_for_init = D.waiting_for_init
      /\ E.chan = D.chan /\ E.out = o
  BY <1>1, <1>4, <1>5 DEF Page
<1>7. OutOK(o, A) /\ \A i \in DOMAIN o : o[i].kind \in Talk => i \in DOMAIN D.out /\ o[i] = D.out[i]
  <2>1. CASE o = D.out
    BY <2>1 DEF PageOK
  <2>2. CASE o = Append(D.out, m)
    <3>1. IsCat(o, D.out, <<m>>)
      BY <1>1, <2>2, AppendIsCat
    <3>2. Legal(m, A \cup Told(D.out, Len(D.out)))
      BY <1>2 DEF Legal
    <3>3. PICK q \in Seq(Message) : q = <<m>>
      BY OneType
    <3>4. OutOK(q, A \cup Told(D.out, Len(D.out)))
      BY <3>2, <3>3, OutOne
    <3>5. OutOK(D.out, A)
      BY DEF PageOK
    <3>6. IsCat(o, D.out, q)
      BY <3>1, <3>3
    <3>7. OutOK(o, A)
      BY <1>1, <3>4, <3>5, <3>6, OutCat
    <3>8. PICK a \in Nat : a = Len(D.out) /\ DOMAIN D.out = 1..a
      BY <1>1
    <3>9. DOMAIN o = 1..(a + 1) /\ (\A i \in 1..a : o[i] = D.out[i]) /\ o[a + 1] = m
      BY <1>1, <2>2, <3>8
    <3> QED BY <1>2, <3>7, <3>8, <3>9, LastOr DEF Talk
  <2> QED BY <1>3, <2>1, <2>2
<1>8. PageOK(E, mine, A)
  <2>1. \A b \in mine : ObjectOK(E, b)
    BY <1>6 DEF PageOK, ObjectOK
  <2>2. Apart(E) /\ WaitersOK(E)
    BY <1>6 DEF PageOK, Apart, WaitersOK
  <2>3. Own(E)
    BY <1>6, <1>7 DEF PageOK, Own
  <2>4. Newest(E, A \cup Told(E.out, Len(E.out)))
    BY <1>6 DEF Newest
  <2> QED BY <1>6, <1>7, <2>1, <2>2, <2>3, <2>4 DEF PageOK
<1>9. PICK F : F = ReadyForChannels(E)
  OBVIOUS
<1>10. PageOK(F, mine, A) /\ Readies(E, F)
  BY <1>6, <1>8, <1>9, ReadyOK
<1>11. PICK p \in Args : p = IF frame /\ D.ws # "null" THEN "disconnected" ELSE problem1
  BY DEF Args, Problems
<1>12. F.ws = "null"
  BY <1>6, <1>10 DEF Readies, Same
<1>13. PICK G : G = Broadcast(F, p)
  OBVIOUS
<1>14. PageOK(G, mine, A) /\ Same(F, G) /\ Keeps(F, G) /\ G.ready = F.ready /\ G.out = F.out
  BY <1>10, <1>12, <1>13, BroadcastOK
<1>15. TransportClose(D, problem1, frame) = IF D.expect THEN E ELSE G
  <2>1. [D EXCEPT !.ws = "null",
                     !.out = IF frame /\ D.ws # "null" THEN Append(@, Msg("bye", NoId, "none"))
                             ELSE @] = E
    BY <1>2, <1>3, <1>5
  <2> QED BY <1>9, <1>11, <1>13, <2>1 DEF TransportClose
<1>16. Keeps(D, E) /\ Keeps(D, G)
  <2>1. DOMAIN D.chan = mine /\ DOMAIN E.chan = mine /\ DOMAIN F.chan = mine
    BY <1>1, <1>6, <1>10 DEF PageOK, Page
  <2>2. Keeps(D, E)
    BY <1>6 DEF Keeps
  <2>3. Keeps(E, F)
    BY <1>10 DEF Readies
  <2> QED BY <1>14, <2>1, <2>2, <2>3 DEF Keeps
<1>17. Ends(D, E, frame) /\ Ends(D, G, frame)
  BY <1>2, <1>3, <1>6, <1>10, <1>14, <1>16 DEF Ends, Readies, Same
<1> QED BY <1>8, <1>14, <1>15, <1>17

\* What a message may do to a page: its transport becomes ready,
Inits(D, m, E) ==
  /\ m.kind = "init" /\ m.arg = "none"
  /\ E.ws = D.ws /\ E.seed = m.id[1] /\ ~E.waiting_for_init /\ E.ready /\ E.hidden = D.hidden
  /\ Keeps(D, E) /\ Quiet(E.out)

\* or is gone,
Quits(D, E, frame) ==
  /\ E.ws = "null" /\ E.seed = D.seed /\ (D.ready => E.ready) /\ Keeps(D, E)
  /\ E.out = IF frame /\ D.ws # "null" THEN <<Msg("bye", NoId, "none")>> ELSE <<>>

\* or is left alone.
Tells(D, m, E) ==
  /\ m.kind = "data" \/ (m.kind # "init" /\ ~D.waiting_for_init)
  /\ E.ws = D.ws /\ E.seed = D.seed /\ E.waiting_for_init = D.waiting_for_init /\ E.ready = D.ready
  /\ E.hidden = IF m.kind = "hint" THEN m.arg = "hidden" ELSE D.hidden
  /\ Keeps(D, E) /\ Quiet(E.out)
  /\ D.ws = "null" \/ ~D.ready => E.out = <<>>

\* An init may come once, with a seed that nobody has used.
Welcome(D, m, A) ==
  m.kind = "init" => /\ D.ws = "open" /\ D.waiting_for_init /\ ~D.ready
                     /\ \A f \in A : f[2][1] # m.id[1]

\* process_init
LEMMA ProcessInitOK ==
  ASSUME NEW mine \in Mines, NEW A \in SUBSET Fact, NEW D, PageOK(D, mine, A), D.out = <<>>,
         NEW m \in Message, m.kind = "init", Welcome(D, m, A), NEW frame \in BOOLEAN
  PROVE  /\ PageOK(ProcessInit(D, m, frame), mine, A)
         /\ \/ Inits(D, m, ProcessInit(D, m, frame))
            \/ m.arg # "none" /\ Quits(D, ProcessInit(D, m, frame), frame)
<1>1. m.arg \in Args /\ m.id \in Ids /\ m.id[1] \in Nat
  BY DEF Message, Ids
<1>2. CASE m.arg # "none"
  <2>1. PICK p \in Args : p = m.arg
    BY <1>1
  <2>2. PICK E : E = TransportClose(D, p, frame)
    OBVIOUS
  <2>3. PageOK(E, mine, A) /\ Ends(D, E, frame)
    BY <2>2, TransportCloseOK
  <2>4. ProcessInit(D, m, frame) = E
    BY <1>2, <2>1, <2>2 DEF ProcessInit
  <2>5. Quits(D, E, frame)
    <3>1. PICK b : b = Msg("bye", NoId, "none")
      OBVIOUS
    <3>2. Append(<<>>, b) = <<b>>
      OBVIOUS
    <3> QED BY <2>3, <3>1, <3>2 DEF Ends, Quits
  <2> QED BY <1>2, <2>3, <2>4, <2>5
<1>3. CASE m.arg = "none"
  <2>1. PICK E : E = [D EXCEPT !.seed = m.id[1], !.waiting_for_init = FALSE]
    OBVIOUS
  <2>2. D \in Page(mine) /\ D.ws = "open" /\ D.waiting_for_init /\ ~D.ready
    BY DEF PageOK, Welcome
  <2>3. /\ E \in Page(mine) /\ E.ws = D.ws /\ E.waiters = D.waiters /\ E.ready = D.ready /\ E.seed = m.id[1]
        /\ E.last = D.last /\ E.hidden = D.hidden /\ ~E.waiting_for_init
        /\ E.chan = D.chan /\ E.out = D.out
    BY <1>1, <2>1, <2>2 DEF Page
  <2>4. \A b \in mine : ~D.chan[b].attached /\ D.chan[b].id = NoId
    BY <2>2 DEF PageOK, ObjectOK
  <2>5. \A b \in mine : ObjectOK(E, b)
    BY <2>3, <2>4 DEF PageOK, ObjectOK
  <2>6. Apart(E) /\ Own(E) /\ WaitersOK(E) /\ OutOK(E.out, A)
    BY <2>3 DEF PageOK, Apart, Own, WaitersOK
  <2>7. Newest(E, A \cup Told(E.out, Len(E.out)))
    BY <2>2, <2>3 DEF Newest
  <2>8. PageOK(E, mine, A)
    BY <2>2, <2>3, <2>4, <2>5, <2>6, <2>7 DEF PageOK
  <2>9. Told(E.out, Len(E.out)) = {}
    BY <2>3 DEF Told
  <2>10. \A f \in A \cup Told(E.out, Len(E.out)) : f[2][1] # E.seed
    BY <2>3, <2>9 DEF Welcome
  <2>11. PICK F : F = ReadyForChannels(E)
    OBVIOUS
  <2>12. PageOK(F, mine, A) /\ Readies(E, F)
    BY <2>2, <2>3, <2>8, <2>10, <2>11, ReadyOK
  <2>13. ProcessInit(D, m, frame) = F
    <3>1. [[D EXCEPT !.seed = m.id[1]] EXCEPT !.waiting_for_init = FALSE] = E
      BY <2>1, <2>2 DEF Page
    <3> QED BY <1>3, <2>2, <2>11, <3>1 DEF ProcessInit
  <2>14. Quiet(E.out)
    BY <2>3 DEF Quiet
  <2>15. Inits(D, m, F)
    BY <1>3, <2>3, <2>12, <2>14 DEF Inits, Readies, Same, Keeps
  <2> QED BY <2>12, <2>13, <2>15
<1> QED BY <1>2, <1>3

\* What PageOK looks at is the same in D and in E.
Alike(D, E) ==
  /\ E.ws = D.ws /\ E.ready = D.ready /\ E.seed = D.seed /\ E.last = D.last
  /\ E.waiters = D.waiters /\ E.chan = D.chan /\ E.out = D.out

\* Pages that differ in waiting_for_init and hidden only.
LEMMA AlikeOK ==
  ASSUME NEW mine \in Mines, NEW A \in SUBSET Fact, NEW D, PageOK(D, mine, A),
         NEW E \in Page(mine), Alike(D, E)
  PROVE  PageOK(E, mine, A)
<1>1. \A c \in mine : ObjectOK(E, c)
  BY DEF PageOK, ObjectOK, Alike
<1>2. Apart(E) /\ WaitersOK(E)
  BY DEF PageOK, Apart, WaitersOK, Alike
<1>3. Own(E)
  BY DEF PageOK, Own, Alike
<1>4. OutOK(E.out, A) /\ Newest(E, A \cup Told(E.out, Len(E.out)))
  BY DEF PageOK, Newest, Alike
<1>5. E.ws # "null" => \A c \in mine : E.chan[c].stage = "valid" /\ E.chan[c].attached =>
       Spoken(E.chan[c], A \cup Told(E.out, Len(E.out)))
  BY DEF PageOK, Alike
<1>6. E.ready => E.ws # "none"
  BY DEF PageOK, Alike
<1> QED BY <1>1, <1>2, <1>3, <1>4, <1>5, <1>6 DEF PageOK

\* A step that leaves the transport alone, as an answer to m.
LEMMA GoesTells ==
  ASSUME NEW D, NEW E, Goes(D, E), D.out = <<>>, NEW m,
         m.kind = "data" \/ (m.kind \notin {"init", "hint"} /\ ~D.waiting_for_init)
  PROVE  Tells(D, m, E)
<1>1. Quiet(D.out)
  BY DEF Quiet
<1> QED BY <1>1 DEF Goes, Same, Tells

\* The messages a page gets.
Incoming == {"init", "hint", "ready", "done", "close", "data"}

\* dispatch_data
LEMMA DispatchOK ==
  ASSUME NEW mine \in Mines, NEW A \in SUBSET Fact, NEW D, PageOK(D, mine, A), D.out = <<>>,
         NEW m \in Message, m.kind \in Incoming, Welcome(D, m, A), NEW frame \in BOOLEAN
  PROVE  /\ PageOK(Dispatch(D, m, frame), mine, A)
         /\ \/ Inits(D, m, Dispatch(D, m, frame))
            \/ /\ Quits(D, Dispatch(D, m, frame), frame)
               /\ IF m.kind = "init" THEN m.arg # "none" ELSE D.waiting_for_init /\ m.kind # "data"
            \/ Tells(D, m, Dispatch(D, m, frame))
<1>0. DOMAIN D.chan = mine /\ D \in Page(mine)
  BY DEF PageOK, Page
<1>1. PICK to : to = {c \in mine : D.chan[c].registered /\ D.chan[c].id = m.id}
  OBVIOUS
<1>2. Goes(D, D)
  BY DEF Goes, Same, Keeps
<1>3. PICK E : E = Dispatch(D, m, frame)
  OBVIOUS
<1>4. CASE m.kind = "data"
  <2>1. E = IF to = {} THEN D ELSE OnMessage(D, CHOOSE c \in to : TRUE)
    BY <1>0, <1>1, <1>3, <1>4 DEF Dispatch
  <2>2. CASE to = {}
    BY <1>2, <1>3, <1>4, <2>1, <2>2, GoesTells
  <2>3. CASE to # {}
    <3>1. PICK c : c = CHOOSE b \in to : TRUE
      OBVIOUS
    <3>2. c \in mine /\ D.chan[c].registered
      BY <1>1, <2>3, <3>1
    <3>3. PageOK(OnMessage(D, c), mine, A) /\ Goes(D, OnMessage(D, c))
      BY <3>2, OnMessageOK
    <3>4. E = OnMessage(D, c)
      BY <2>1, <2>3, <3>1
    <3> QED BY <1>3, <1>4, <3>3, <3>4, GoesTells
  <2> QED BY <2>2, <2>3
<1>5. CASE m.kind = "init"
  <2>1. E = ProcessInit(D, m, frame)
    BY <1>3, <1>5 DEF Dispatch
  <2>2. PageOK(E, mine, A) /\ (Inits(D, m, E) \/ (m.arg # "none" /\ Quits(D, E, frame)))
    BY <1>5, <2>1, ProcessInitOK
  <2> QED BY <1>3, <1>5, <2>2
<1>6. CASE m.kind \notin {"init", "data"} /\ D.waiting_for_init
  <2>1. PICK F : F = [D EXCEPT !.waiting_for_init = FALSE]
    OBVIOUS
  <2>2. E = TransportClose(F, "protocol-error", frame)
    BY <1>3, <1>6, <2>1 DEF Dispatch
  <2>3. /\ F \in Page(mine) /\ F.ws = D.ws /\ F.waiters = D.waiters /\ F.ready = D.ready /\ F.seed = D.seed
        /\ F.last = D.last /\ F.hidden = D.hidden
        /\ F.chan = D.chan /\ F.out = D.out
    BY <1>0, <2>1 DEF Page
  <2>4. PageOK(F, mine, A)
    BY <2>3, AlikeOK DEF Alike
  <2>5. PICK p \in Args : p = "protocol-error"
    BY DEF Args, Problems
  <2>6. PageOK(TransportClose(F, p, frame), mine, A) /\ Ends(F, TransportClose(F, p, frame), frame)
    BY <2>4, TransportCloseOK
  <2>7. PageOK(E, mine, A) /\ Ends(F, E, frame)
    BY <2>2, <2>5, <2>6
  <2>8. Quits(D, E, frame)
    <3>1. PICK b : b = Msg("bye", NoId, "none")
      OBVIOUS
    <3>2. Append(<<>>, b) = <<b>>
      OBVIOUS
    <3> QED BY <2>3, <2>7, <3>1, <3>2 DEF Ends, Quits, Keeps
  <2> QED BY <1>3, <1>6, <2>7, <2>8
<1>7. CASE m.kind = "hint" /\ ~D.waiting_for_init
  <2>1. PICK h : h = (m.arg = "hidden") /\ h \in BOOLEAN
    OBVIOUS
  <2>2. E = [D EXCEPT !.hidden = h]
    BY <1>3, <1>7, <2>1 DEF Dispatch
  <2>3. /\ E \in Page(mine) /\ E.ws = D.ws /\ E.waiters = D.waiters /\ E.ready = D.ready /\ E.seed = D.seed
        /\ E.last = D.last /\ E.hidden = h /\ E.waiting_for_init = D.waiting_for_init
        /\ E.chan = D.chan /\ E.out = D.out
    BY <1>0, <2>1, <2>2 DEF Page
  <2>4. PageOK(E, mine, A)
    BY <2>3, AlikeOK DEF Alike
  <2>5. Tells(D, m, E)
    BY <1>7, <2>1, <2>3 DEF Tells, Keeps, Quiet
  <2> QED BY <1>3, <2>4, <2>5
<1>8. CASE m.kind \in {"ready", "done", "close"} /\ ~D.waiting_for_init
  <2>1. E = IF to = {} THEN D ELSE OnControl(D, CHOOSE c \in to : TRUE, m)
    BY <1>0, <1>1, <1>3, <1>8 DEF Dispatch
  <2>2. CASE to = {}
    BY <1>2, <1>3, <1>8, <2>1, <2>2, GoesTells
  <2>3. CASE to # {}
    <3>1. PICK c : c = CHOOSE b \in to : TRUE
      OBVIOUS
    <3>2. c \in mine /\ D.chan[c].registered
      BY <1>1, <2>3, <3>1
    <3>3. PageOK(OnControl(D, c, m), mine, A) /\ Goes(D, OnControl(D, c, m))
      BY <1>8, <3>2, OnControlOK
    <3>4. E = OnControl(D, c, m)
      BY <2>1, <2>3, <3>1
    <3> QED BY <1>3, <1>8, <3>3, <3>4, GoesTells
  <2> QED BY <2>2, <2>3
<1> QED BY <1>4, <1>5, <1>6, <1>7, <1>8 DEF Incoming

\* A page on its own, whatever the others do.
Sound(D, mine) ==
  /\ D.out = <<>>
  /\ \E A \in SUBSET Fact : PageOK(D, mine, A) /\ (~D.ready => A = {})

----
(* The documents, one by one.                                              *)

\* What a frame is told last: b, by a hint in its inbox or before.
Final(D, box, b) ==
  \/ \E i \in DOMAIN box :
       /\ box[i].kind = "hint" /\ (box[i].arg = "hidden") = b
       /\ \A j \in DOMAIN box : i < j => box[j].kind # "hint"
  \/ (\A i \in DOMAIN box : box[i].kind # "hint") /\ D.hidden = b

\* A channel of D has this id.
Has(D, id) == \E c \in DOMAIN D.chan : D.chan[c].id = id

\* The messages a page gets after its init.
Plain == {"hint", "ready", "done", "close", "data"}

\* No transport, or one that is not open: nothing was posted yet.
Fresh(D, box, src, S) ==
  /\ D.ws \in {"none", "opening"} /\ D.waiting_for_init /\ ~D.ready /\ ~D.hidden
  /\ box = <<>> /\ src = 0 /\ S = {}

\* Its init is on its way to the router.
Asked(D, box, src, S) ==
  /\ D.ws = "open" /\ D.waiting_for_init /\ ~D.ready /\ ~D.hidden
  /\ box = <<>> /\ src = 0 /\ S # {} /\ \A m \in S : m.kind = "init"

\* The reply is on its way back.
Answered(D, box, src, hid, S) ==
  /\ D.ws = "open" /\ D.waiting_for_init /\ ~D.ready /\ src # 0
  /\ box # <<>> /\ box[1].kind = "init" /\ box[1].id = <<src, 0>>
  /\ \A i \in DOMAIN box : i # 1 => box[i].kind \in Plain
  /\ Final(D, box, hid) /\ S = {}

\* The reply was handled.
Running(D, box, src, hid, S) ==
  /\ D.ws = "open" /\ ~D.waiting_for_init /\ D.ready /\ src # 0 /\ D.seed = src
  /\ \A i \in DOMAIN box : box[i].kind \in Plain
  /\ Final(D, box, hid)
  /\ \A m \in S : m.kind \in Talk /\ m.id[1] = src /\ Has(D, m.id)

\* The transport was closed.
Shut(D, box, src, S) ==
  /\ D.ws = "null"
  /\ \A i \in DOMAIN box : box[i].kind \in Plain
  /\ \A m \in S : /\ m.kind \in Talk \cup {"bye"}
                  /\ src # 0 /\ m.kind \in Talk => m.id[1] = src /\ Has(D, m.id)

\* A document that is not loaded: all it posted will be dropped.
Away(D, box, src, S) ==
  /\ D.ws \in {"none", "null"}
  /\ \A i \in DOMAIN box : box[i].kind \in Plain
  /\ \A m \in S : m.kind \in Talk \cup {"bye"} /\ src = 0

\* Where a document is between its first channel and its unload.
Phase(D, box, src, hid, S, on) ==
  IF on THEN \/ Fresh(D, box, src, S) \/ Asked(D, box, src, S)
             \/ Answered(D, box, src, hid, S) \/ Running(D, box, src, hid, S)
             \/ Shut(D, box, src, S)
  ELSE Away(D, box, src, S)

\* What d posted and the router has not looked at.
Sent(q, d) == {m \in Message : \E i \in DOMAIN q : q[i].from = d /\ q[i].msg = m}

\* Every document is in such a phase.
PhaseOK ==
  \A d \in Docs : Phase(doc[d], inbox[d], source[Window(d)], current # Window(d),
                        Sent(posted, d), d \in loaded)

----
(* The shell.                                                              *)

\* A message for the shell's window.
Post == [from : Docs, msg : Message]

\* The types of the variables.
Types ==
  /\ DOMAIN doc = Docs \cup {Top}
  /\ \A d \in Docs \cup {Top} : Sound(doc[d], Mine(d))
  /\ shown \in [Windows -> Nat] /\ loaded \in SUBSET Docs
  /\ source \in [Windows -> Nat] /\ unique_id \in Nat
  /\ current \in Windows \cup {"none"}
  /\ posted \in Seq(Post)
  /\ inbox \in [Docs -> Seq(Message)]
  /\ up \in Seq(Message) /\ down \in Seq(Message)
  /\ served \in SUBSET [id : Ids, group : Args, is : {"open", "done", "ended", "closed"}]
  /\ IsFiniteSet(served)

\* A window shows the last of its documents that were loaded, or none.
FramesOK ==
  /\ \A w \in Windows : shown[w] <= Len(Documents[w]) /\ source[w] <= unique_id
  /\ \A v, w \in Windows : source[v] = source[w] /\ source[v] # 0 => v = w
  /\ \A d \in loaded : shown[Window(d)] # 0 /\ d = Documents[Window(d)][shown[Window(d)]]
  /\ IF link = "gone" THEN loaded = {}
     ELSE \A w \in Windows : source[w] # 0 => InWindow(w) # {}

\* The documents that were never shown.
NextOK ==
  link # "gone" => \A w \in Windows : \A n \in DOMAIN Documents[w] : n > shown[w] =>
    LET d == Documents[w][n] IN
    doc[d] = NewPage(Mine(d)) /\ inbox[d] = <<>> /\ Sent(posted, d) = {}

\* An init is the last message of its window; the names in the others were
\* given by the router, and belong to the sender's window or to none.
PostedOK ==
  /\ \A i, j \in DOMAIN posted :
       posted[i].msg.kind = "init" /\ i < j => Window(posted[j].from) # Window(posted[i].from)
  /\ \A i \in DOMAIN posted : posted[i].msg.kind \in Talk =>
       /\ posted[i].msg.id[1] \in 1..unique_id
       /\ \A v \in Windows : source[v] = posted[i].msg.id[1] => v = Window(posted[i].from)

\* The shell's own transport.
TopOK ==
  LET T == doc[Top] IN
  /\ T.ws \in {"opening", "open", "null"} /\ T.seed = 0
  /\ \A i \in DOMAIN down : down[i].kind \in {"init", "ready", "done", "close", "data"}
  /\ \A i \in DOMAIN up : up[i].kind \in Talk \cup {"init", "kill", "logout"}
  /\ T.ws # "null" /\ T.waiting_for_init =>
       /\ ~T.ready /\ served = {} /\ Len(up) + Len(down) <= 1
       /\ \A i \in DOMAIN up : up[i].kind = "init"
       /\ \A i \in DOMAIN down : down[i].kind = "init" /\ down[i].id = NoId
       /\ \A w \in Windows : source[w] = 0
  /\ T.ws = "opening" => T.waiting_for_init /\ up = <<>> /\ down = <<>>
  /\ ~(T.ws = "open" /\ T.waiting_for_init) =>
       /\ \A i \in DOMAIN up : up[i].kind # "init"
       /\ \A i \in DOMAIN down : down[i].kind # "init"
  /\ T.ws = "open" /\ ~T.waiting_for_init => T.ready
  /\ T.ws = "null" /\ link = "up" => up = <<>> /\ served = {}
  /\ link # "up" => \A i \in DOMAIN up : up[i].kind # "init"

\* What holds of the frames, the router and the transports.
Base == Types /\ FramesOK /\ NextOK /\ PostedOK /\ PhaseOK /\ TopOK

----
(* What is known of the channels, as long as the shell is connected.       *)

\* The shell is connected.
Conn == link = "up" /\ doc[Top].ws # "null"

\* What the server knows: of served entries,
ServedFact(S) ==
  {f \in Fact : \E s \in S :
     /\ f[2] = s.id
     /\ f[1] = "open" \/ (f[1] = "done" /\ s.is = "done") \/ (f[1] = "close" /\ s.is = "closed")}

\* from the first n messages frames posted,
PostTold(q, n) == {f \in Fact : \E i \in DOMAIN q : i <= n /\ f = <<q[i].msg.kind, q[i].msg.id>>}

\* after i of the messages on the WebSocket,
UpFact(i) == ServedFact(served) \cup Told(up, i)

\* after all of them and i of the posted ones,
PostedFact(i) == UpFact(Len(up)) \cup PostTold(posted, i)

\* and after all that is on its way.
AllFacts == PostedFact(Len(posted))

\* The router passes on what d posts.
Going(d) == d \in loaded /\ source[Window(d)] # 0

\* Binary data of a document that the router knows no more.
Lost == {m \in Message : /\ m.kind = "data" /\ m.arg = "raw" /\ m.id[1] \in 1..unique_id
                         /\ \A w \in Windows : source[w] # m.id[1]}

\* All that is on its way is lost, or legal after what comes before it, and
\* every page agrees with what was said.
StreamOK ==
  /\ \A f \in UpFact(Len(up)) : f[2][1] <= unique_id
  /\ \A s, t \in served : s.id = t.id => s = t
  /\ \A d \in Docs \cup {Top} : PageOK(doc[d], Mine(d), AllFacts)
  /\ \A d \in loaded : Going(d) /\ doc[d].waiting_for_init /\ doc[d].ws # "null" =>
       \A f \in AllFacts : f[2][1] # source[Window(d)]
  /\ \A i \in DOMAIN up : up[i] \in Lost \/ Legal(up[i], UpFact(i - 1))
  /\ \A i \in DOMAIN posted : Going(posted[i].from) => Legal(posted[i].msg, PostedFact(i - 1))

\* The router hands messages for id to w, and w shows the document whose it is.
Owned(w, id) ==
  source[w] # 0 /\ source[w] = id[1] /\ \E d \in InWindow(w) : Has(doc[d], id)

\* A channel that is open, or will be, is owned or about to be killed.
RoutesOK ==
  /\ \A s \in served : s.is \in {"open", "done"} /\ s.group \in Windows =>
       OnTheWay(Msg("kill", NoId, s.group)) \/ Owned(s.group, s.id)
  /\ \A i \in DOMAIN up : up[i].kind = "open" /\ up[i].arg \in Windows =>
       \/ \E j \in DOMAIN up : i < j /\ up[j] = Msg("kill", NoId, up[i].arg)
       \/ Owned(up[i].arg, up[i].id)

----
(* The constants.                                                          *)

\* A document belongs to one window.
LEMMA DocWindow ==
  ASSUME NEW d \in Docs
  PROVE  /\ Window(d) \in Windows /\ d \in ToSet(Documents[Window(d)])
         /\ \A w \in Windows : d \in ToSet(Documents[w]) => w = Window(d)
<1>1. \E w \in Windows : d \in ToSet(Documents[w])
  BY DEF Docs
<1>2. Window(d) \in Windows /\ d \in ToSet(Documents[Window(d)])
  BY <1>1 DEF Window
<1>3. ASSUME NEW w \in Windows, d \in ToSet(Documents[w])
      PROVE  w = Window(d)
  <2>1. PICK v \in Windows : v = Window(d)
    BY <1>2
  <2>2. PICK i \in DOMAIN Documents[w] : Documents[w][i] = d
    BY <1>3 DEF ToSet
  <2>3. PICK j \in DOMAIN Documents[v] : Documents[v][j] = d
    BY <1>2, <2>1 DEF ToSet
  <2>4. w = v
    BY <2>2, <2>3, ShellAssumption
  <2> QED BY <2>1, <2>4
<1> QED BY <1>2, <1>3

\* The documents of a window by their place.
LEMMA DocumentAt ==
  ASSUME NEW w \in Windows, NEW n \in DOMAIN Documents[w]
  PROVE  /\ Documents[w][n] \in Docs /\ Window(Documents[w][n]) = w
         /\ \A k \in DOMAIN Documents[w] : Documents[w][k] = Documents[w][n] => k = n
<1>1. Documents[w][n] \in ToSet(Documents[w])
  BY DEF ToSet
<1>2. Documents[w][n] \in Docs
  BY <1>1 DEF Docs
<1>3. PICK d \in Docs : d = Documents[w][n]
  BY <1>2
<1>4. Window(d) = w
  BY <1>1, <1>3, DocWindow
<1>5. \A k \in DOMAIN Documents[w] : Documents[w][k] = Documents[w][n] => k = n
  BY ShellAssumption
<1> QED BY <1>2, <1>3, <1>4, <1>5

\* The channels of a document.
LEMMA MineType ==
  ASSUME NEW d \in Docs \cup {Top}
  PROVE  Mine(d) \in Mines
BY DEF Mine, Mines

\* The document of a channel.
LEMMA MakerType ==
  ASSUME NEW c \in Channels
  PROVE  Maker[c] \in Docs /\ Maker[c] # Top /\ c \in Mine(Maker[c])
BY ShellAssumption DEF Mine

----
(* Pages and what is known.                                                *)

\* B tells a document with this seed as much as A does.
Covers(B, A, seed) ==
  /\ \A f \in B : f[2][1] = seed => f \in A
  /\ \A f \in A : f[2][1] = seed /\ f[1] = "open" => f \in B

\* The facts may change, as long as those of the page's own channels stay.
LEMMA PageCovers ==
  ASSUME NEW mine \in Mines, NEW A \in SUBSET Fact, NEW B \in SUBSET Fact, NEW D,
         PageOK(D, mine, A), D.out = <<>>,
         D.ws = "null" \/ ~D.ready \/ Covers(B, A, D.seed)
  PROVE  PageOK(D, mine, B)
<1>1. Told(D.out, Len(D.out)) = {}
  BY DEF Told
<1>2. OutOK(D.out, B)
  BY DEF OutOK
<1>3. Newest(D, B \cup Told(D.out, Len(D.out)))
  BY <1>1 DEF PageOK, Newest, Covers
<1>4. ASSUME D.ws # "null", NEW c \in mine, D.chan[c].stage = "valid", D.chan[c].attached
      PROVE  Spoken(D.chan[c], B \cup Told(D.out, Len(D.out)))
  <2>1. ObjectOK(D, c) /\ D.chan[c] \in Object
    BY DEF PageOK, Page
  <2>2. D.ready /\ D.chan[c].id # NoId /\ D.chan[c].id[1] = D.seed /\ D.chan[c].id \in Ids
    BY <1>4, <2>1 DEF ObjectOK, Object
  <2>3. Spoken(D.chan[c], A)
    <3>1. Spoken(D.chan[c], A \cup Told(D.out, Len(D.out)))
      BY <1>4 DEF PageOK
    <3> QED BY <1>1, <3>1
  <2>4. Covers(B, A, D.seed)
    BY <1>4, <2>2
  <2>5. PICK id \in Ids : id = D.chan[c].id
    BY <2>2
  <2>6. id[1] = D.seed /\ <<"open", id>>[2] = id /\ <<"close", id>>[2] = id /\ <<"done", id>>[2] = id
        /\ <<"open", id>>[1] = "open"
    BY <2>2, <2>5
  <2>7. Spoken(D.chan[c], B)
    BY <2>3, <2>4, <2>5, <2>6 DEF Spoken, Covers
  <2> QED BY <1>1, <2>7
<1> QED BY <1>2, <1>3, <1>4 DEF PageOK

\* What a page sent is on its way: it is known.
LEMMA PageSent ==
  ASSUME NEW mine \in Mines, NEW A \in SUBSET Fact, NEW D, PageOK(D, mine, A),
         NEW E, E = [D EXCEPT !.out = <<>>]
  PROVE  /\ PageOK(E, mine, A \cup Told(D.out, Len(D.out))) /\ E.out = <<>>
         /\ E.ws = D.ws /\ E.ready = D.ready /\ E.seed = D.seed /\ E.last = D.last
         /\ E.hidden = D.hidden /\ E.waiting_for_init = D.waiting_for_init /\ E.chan = D.chan
         /\ Told(D.out, Len(D.out)) \in SUBSET Fact
<1>1. D \in Page(mine) /\ D.out \in Seq(Message)
  BY DEF PageOK, Page
<1>2. /\ E \in Page(mine) /\ E.ws = D.ws /\ E.waiters = D.waiters /\ E.ready = D.ready /\ E.seed = D.seed
      /\ E.last = D.last /\ E.hidden = D.hidden /\ E.waiting_for_init = D.waiting_for_init
      /\ E.chan = D.chan /\ E.out = <<>>
  <2>1. PICK o \in Seq(Message) : o = <<>>
    BY EmptySeq
  <2>2. E = [D EXCEPT !.out = o]
    BY <2>1
  <2> QED BY <1>1, <2>1, <2>2 DEF Page
<1>3. PICK B \in SUBSET Fact : B = A \cup Told(D.out, Len(D.out))
  BY DEF Told
<1>4. Told(E.out, Len(E.out)) = {}
  BY <1>2 DEF Told
<1>5. \A c \in mine : ObjectOK(E, c)
  BY <1>2 DEF PageOK, ObjectOK
<1>6. Apart(E) /\ WaitersOK(E)
  BY <1>2 DEF PageOK, Apart, WaitersOK
<1>7. Own(E) /\ OutOK(E.out, B)
  BY <1>2 DEF Own, OutOK
<1>8. Newest(E, B \cup Told(E.out, Len(E.out)))
  BY <1>2, <1>3, <1>4 DEF PageOK, Newest
<1>9. E.ws # "null" => \A c \in mine : E.chan[c].stage = "valid" /\ E.chan[c].attached =>
       Spoken(E.chan[c], B \cup Told(E.out, Len(E.out)))
  <2>1. B \cup Told(E.out, Len(E.out)) = A \cup Told(D.out, Len(D.out))
    BY <1>3, <1>4
  <2> QED BY <1>2, <2>1 DEF PageOK
<1>10. E.ready => E.ws # "none"
  BY <1>2 DEF PageOK
<1>11. PageOK(E, mine, B)
  BY <1>2, <1>5, <1>6, <1>7, <1>8, <1>9, <1>10 DEF PageOK
<1>12. Told(D.out, Len(D.out)) \in SUBSET Fact
  BY DEF Told
<1> QED BY <1>2, <1>3, <1>11, <1>12

\* A sound page, after a step that sends nothing before it is ready.
LEMMA SoundStep ==
  ASSUME NEW mine \in Mines, NEW D, Sound(D, mine), NEW E,
         \A A \in SUBSET Fact : PageOK(D, mine, A) /\ (~D.ready => A = {}) => PageOK(E, mine, A),
         ~E.ready => ~D.ready /\ \A i \in DOMAIN E.out : E.out[i].kind \notin {"open", "done", "close"}
  PROVE  Sound([E EXCEPT !.out = <<>>], mine)
<1>1. PICK A \in SUBSET Fact : PageOK(D, mine, A) /\ (~D.ready => A = {})
  BY DEF Sound
<1>2. PageOK(E, mine, A)
  BY <1>1
<1>3. PICK F : F = [E EXCEPT !.out = <<>>]
  OBVIOUS
<1>4. PICK B \in SUBSET Fact : B = A \cup Told(E.out, Len(E.out))
  BY DEF Told
<1>5. PageOK(F, mine, B) /\ F.out = <<>> /\ F.ready = E.ready
  BY <1>2, <1>3, <1>4, PageSent
<1>6. ~F.ready => B = {}
  <2> SUFFICES ASSUME ~F.ready PROVE B = {}
    OBVIOUS
  <2>1. A = {} /\ \A i \in DOMAIN E.out : E.out[i].kind \notin {"open", "done", "close"}
    BY <1>1, <1>5
  <2>2. \A f \in Fact : f[1] \in {"open", "done", "close"}
    BY DEF Fact
  <2>3. Told(E.out, Len(E.out)) = {}
    BY <2>1, <2>2 DEF Told
  <2> QED BY <1>4, <2>1, <2>3
<1> QED BY <1>3, <1>5, <1>6 DEF Sound
----
(* Queues of messages.                                                     *)

\* t is s without its first element.
Tails(t, s) == Len(s) # 0 /\ Len(t) = Len(s) - 1 /\ \A i \in 1..Len(t) : t[i] = s[i + 1]

\* Tail takes the first element away.
LEMMA TailTails ==
  ASSUME NEW X, NEW s \in Seq(X), s # <<>>
  PROVE  /\ Tails(Tail(s), s) /\ Tail(s) \in Seq(X) /\ Head(s) = s[1] /\ s[1] \in X
         /\ 1 \in DOMAIN s
<1>1. Len(s) \in Nat \ {0} /\ DOMAIN s = 1..Len(s)
  BY EmptySeq
<1>2. Tail(s) \in Seq(X) /\ Len(Tail(s)) = Len(s) - 1
  BY <1>1
<1>3. \A i \in 1..Len(Tail(s)) : Tail(s)[i] = s[i + 1]
  BY <1>1, <1>2
<1>4. Head(s) = s[1] /\ s[1] \in X /\ 1 \in DOMAIN s
  BY <1>1
<1> QED BY <1>1, <1>2, <1>3, <1>4 DEF Tails

\* Where an element of a queue is after the first one was taken.
LEMMA TailsElem ==
  ASSUME NEW X, NEW s \in Seq(X), NEW t \in Seq(X), Tails(t, s)
  PROVE  /\ DOMAIN s = 1..Len(s) /\ DOMAIN t = 1..(Len(s) - 1)
         /\ \A i \in DOMAIN t : i + 1 \in DOMAIN s /\ i + 1 # 1 /\ t[i] = s[i + 1]
         /\ \A i \in DOMAIN s : i # 1 => i - 1 \in DOMAIN t /\ t[i - 1] = s[i]
<1>1. PICK n \in Nat : n = Len(s) /\ DOMAIN s = 1..n
  OBVIOUS
<1>2. Len(t) = n - 1 /\ DOMAIN t = 1..(n - 1) /\ n # 0
  BY <1>1 DEF Tails
<1>3. \A i \in 1..(n - 1) : t[i] = s[i + 1]
  BY <1>2 DEF Tails
<1>4. \A i \in 1..(n - 1) : i + 1 \in 1..n /\ i + 1 # 1
  BY <1>2
<1>5. \A i \in 1..n : i # 1 => i - 1 \in 1..(n - 1) /\ (i - 1) + 1 = i
  BY <1>2
<1> QED BY <1>1, <1>2, <1>3, <1>4, <1>5

\* t is s and then m.
Appends(t, s, m) ==
  Len(t) = Len(s) + 1 /\ t[Len(s) + 1] = m /\ \A i \in 1..Len(s) : t[i] = s[i]

\* Append puts its argument last.
LEMMA AppendAppends ==
  ASSUME NEW X, NEW s \in Seq(X), NEW m \in X
  PROVE  Appends(Append(s, m), s, m) /\ Append(s, m) \in Seq(X)
BY DEF Appends

\* The elements of a queue that has grown by one.
LEMMA AppendsElem ==
  ASSUME NEW X, NEW s \in Seq(X), NEW t \in Seq(X), NEW m, Appends(t, s, m)
  PROVE  /\ \A i \in DOMAIN s : i \in DOMAIN t /\ t[i] = s[i] /\ i # Len(s) + 1 /\ i < Len(s) + 1
         /\ \A i \in DOMAIN t : (i \in DOMAIN s /\ t[i] = s[i]) \/ (i = Len(s) + 1 /\ t[i] = m)
         /\ Len(s) + 1 \in DOMAIN t /\ t[Len(s) + 1] = m /\ (s = <<>> <=> Len(s) = 0)
<1>1. PICK n \in Nat : n = Len(s) /\ DOMAIN s = 1..n
  OBVIOUS
<1>2. DOMAIN t = 1..(n + 1) /\ t[n + 1] = m /\ \A i \in 1..n : t[i] = s[i]
  BY <1>1 DEF Appends
<1>3. \A i \in 1..n : i \in 1..(n + 1) /\ i # n + 1 /\ i < n + 1
  OBVIOUS
<1>4. \A i \in 1..(n + 1) : i \in 1..n \/ i = n + 1
  BY LastOr
<1>5. n + 1 \in 1..(n + 1)
  OBVIOUS
<1>6. s = <<>> <=> n = 0
  BY <1>1, EmptySeq
<1> QED BY <1>1, <1>2, <1>3, <1>4, <1>5, <1>6

\* t is s and then what d sent.
Adds(t, s, d, q) ==
  /\ t \in Seq(Post) /\ Len(t) = Len(s) + Len(q)
  /\ \A i \in 1..Len(s) : t[i] = s[i]
  /\ \A i \in 1..Len(q) : t[Len(s) + i].from = d /\ t[Len(s) + i].msg = q[i]

\* What Becomes does to posted.
LEMMA PostAdds ==
  ASSUME NEW s \in Seq(Post), NEW d \in Docs, NEW q \in Seq(Message)
  PROVE  Adds(s \o [i \in DOMAIN q |-> [from |-> d, msg |-> q[i]]], s, d, q)
<1>1. PICK p : p = [i \in DOMAIN q |-> [from |-> d, msg |-> q[i]]]
  OBVIOUS
<1>2. DOMAIN q = 1..Len(q) /\ Len(q) \in Nat /\ \A i \in 1..Len(q) : q[i] \in Message
  OBVIOUS
<1>3. \A i \in 1..Len(q) : p[i] \in Post /\ p[i].from = d /\ p[i].msg = q[i]
  BY <1>1, <1>2 DEF Post
<1>4. p = [i \in 1..Len(q) |-> [from |-> d, msg |-> q[i]]]
  BY <1>1, <1>2
<1>5. p \in [1..Len(q) -> Post]
  BY <1>3, <1>4
<1>6. p \in Seq(Post) /\ Len(p) = Len(q)
  BY <1>2, <1>5
<1>7. Adds(s \o p, s, d, q)
  BY <1>2, <1>3, <1>6 DEF Adds
<1> QED BY <1>1, <1>7

\* The elements of what was posted.
LEMMA AddsElem ==
  ASSUME NEW s \in Seq(Post), NEW t, NEW d, NEW q \in Seq(Message), Adds(t, s, d, q)
  PROVE  /\ \A i \in DOMAIN s : i \in DOMAIN t /\ t[i] = s[i] /\ i <= Len(s)
         /\ \A i \in DOMAIN t : \/ i \in DOMAIN s /\ t[i] = s[i]
                                \/ \E j \in DOMAIN q : i = Len(s) + j /\ t[i].from = d /\ t[i].msg = q[j]
         /\ \A j \in DOMAIN q : Len(s) + j \in DOMAIN t /\ t[Len(s) + j].from = d /\ t[Len(s) + j].msg = q[j]
<1>1. PICK a \in Nat, b \in Nat : a = Len(s) /\ b = Len(q) /\ DOMAIN s = 1..a /\ DOMAIN q = 1..b
  OBVIOUS
<1>2. DOMAIN t = 1..(a + b) /\ (\A i \in 1..a : t[i] = s[i])
      /\ \A i \in 1..b : t[a + i].from = d /\ t[a + i].msg = q[i]
  <2>1. t \in Seq(Post) /\ Len(t) = a + b
    BY <1>1 DEF Adds
  <2>2. DOMAIN t = 1..(a + b)
    BY <2>1
  <2>3. (\A i \in 1..a : t[i] = s[i]) /\ \A i \in 1..b : t[a + i].from = d /\ t[a + i].msg = q[i]
    BY <1>1 DEF Adds
  <2> QED BY <2>2, <2>3
<1>3. \A i \in 1..a : i \in 1..(a + b) /\ i <= a
  OBVIOUS
<1>4. \A j \in 1..b : a + j \in 1..(a + b)
  OBVIOUS
<1>5. ASSUME NEW i \in 1..(a + b)
      PROVE  i \in 1..a \/ \E j \in 1..b : i = a + j
  <2>1. CASE i <= a
    BY <2>1
  <2>2. CASE ~(i <= a)
    <3>1. i - a \in 1..b /\ i = a + (i - a)
      BY <2>2
    <3> QED BY <3>1
  <2> QED BY <2>1, <2>2
<1>6. \A i \in DOMAIN s : i \in DOMAIN t /\ t[i] = s[i] /\ i <= Len(s)
  BY <1>1, <1>2, <1>3
<1>7. \A j \in DOMAIN q : Len(s) + j \in DOMAIN t /\ t[Len(s) + j].from = d /\ t[Len(s) + j].msg = q[j]
  BY <1>1, <1>2, <1>4
<1>8. ASSUME NEW i \in DOMAIN t
      PROVE  \/ i \in DOMAIN s /\ t[i] = s[i]
             \/ \E j \in DOMAIN q : i = Len(s) + j /\ t[i].from = d /\ t[i].msg = q[j]
  <2>1. i \in 1..(a + b)
    BY <1>2
  <2>2. CASE i \in 1..a
    BY <1>1, <1>2, <2>2
  <2>3. CASE \E j \in 1..b : i = a + j
    <3>1. PICK j \in 1..b : i = a + j
      BY <2>3
    <3>2. j \in DOMAIN q /\ i = Len(s) + j
      BY <1>1, <3>1
    <3> QED BY <1>7, <3>2
  <2> QED BY <1>5, <2>1, <2>2, <2>3
<1> QED BY <1>6, <1>7, <1>8

\* The messages of q.
Msgs(q) == {m \in Message : \E i \in DOMAIN q : q[i] = m}

\* Who sent what, after more was posted.
LEMMA AddsSent ==
  ASSUME NEW s \in Seq(Post), NEW t, NEW d, NEW q \in Seq(Message), Adds(t, s, d, q)
  PROVE  /\ Sent(t, d) = Sent(s, d) \cup Msgs(q)
         /\ \A e : e # d => Sent(t, e) = Sent(s, e)
<1>1. /\ \A i \in DOMAIN s : i \in DOMAIN t /\ t[i] = s[i] /\ i <= Len(s)
      /\ \A i \in DOMAIN t : \/ i \in DOMAIN s /\ t[i] = s[i]
                             \/ \E j \in DOMAIN q : i = Len(s) + j /\ t[i].from = d /\ t[i].msg = q[j]
      /\ \A j \in DOMAIN q : Len(s) + j \in DOMAIN t /\ t[Len(s) + j].from = d /\ t[Len(s) + j].msg = q[j]
  BY AddsElem
<1>2. Sent(t, d) \subseteq Sent(s, d) \cup Msgs(q)
  BY <1>1 DEF Sent, Msgs
<1>3. Sent(s, d) \subseteq Sent(t, d)
  BY <1>1 DEF Sent
<1>4. Msgs(q) \subseteq Sent(t, d)
  BY <1>1 DEF Sent, Msgs
<1>5. \A e : e # d => Sent(t, e) = Sent(s, e)
  BY <1>1 DEF Sent
<1> QED BY <1>2, <1>3, <1>4, <1>5

\* Who sent what, after the router took the first message.
LEMMA TailsSent ==
  ASSUME NEW s \in Seq(Post), NEW t \in Seq(Post), Tails(t, s), NEW d
  PROVE  /\ Sent(t, d) \subseteq Sent(s, d)
         /\ s[1].from # d => Sent(t, d) = Sent(s, d)
         /\ \A m \in Sent(s, d) : m \in Sent(t, d) \/ (s[1].from = d /\ m = s[1].msg)
<1>1. /\ \A i \in DOMAIN t : i + 1 \in DOMAIN s /\ i + 1 # 1 /\ t[i] = s[i + 1]
      /\ \A i \in DOMAIN s : i # 1 => i - 1 \in DOMAIN t /\ t[i - 1] = s[i]
  BY TailsElem
<1>2. Sent(t, d) \subseteq Sent(s, d)
  BY <1>1 DEF Sent
<1>3. \A m \in Sent(s, d) : m \in Sent(t, d) \/ (s[1].from = d /\ m = s[1].msg)
  BY <1>1 DEF Sent
<1> QED BY <1>2, <1>3
----
(* What one document goes through.                                         *)

\* F is E with its messages handed over.
Emptied(E, F) ==
  /\ F.ws = E.ws /\ F.ready = E.ready /\ F.seed = E.seed /\ F.hidden = E.hidden
  /\ F.waiting_for_init = E.waiting_for_init /\ F.chan = E.chan

\* What a page says is about its own channels.
LEMMA OutIds ==
  ASSUME NEW mine \in Mines, NEW A \in SUBSET Fact, NEW E, PageOK(E, mine, A)
  PROVE  \A m \in Msgs(E.out) : m.kind \in Talk => m.id[1] = E.seed /\ Has(E, m.id)
<1> SUFFICES ASSUME NEW m \in Msgs(E.out), m.kind \in Talk
             PROVE  m.id[1] = E.seed /\ Has(E, m.id)
  OBVIOUS
<1>1. PICK i \in DOMAIN E.out : E.out[i] = m
  BY DEF Msgs
<1>2. PICK c \in DOMAIN E.chan : E.chan[c].id = m.id /\ E.chan[c].id # NoId
  BY <1>1 DEF PageOK, Own
<1>3. DOMAIN E.chan = mine
  BY DEF PageOK, Page
<1>4. ObjectOK(E, c)
  BY <1>2, <1>3 DEF PageOK
<1> QED BY <1>2, <1>4 DEF ObjectOK, Has

\* A page keeps the ids of its channels.
LEMMA KeepsHas ==
  ASSUME NEW mine, NEW D, NEW E, NEW F, DOMAIN D.chan = mine, DOMAIN E.chan = mine, Keeps(D, E),
         Emptied(E, F), NEW id, id # NoId, Has(D, id)
  PROVE  Has(F, id)
BY DEF Keeps, Has, Emptied

\* Nothing but the first message of a page that is not ready.
LEMMA NoMsgs ==
  ASSUME NEW q, q = <<>>
  PROVE  Msgs(q) = {}
BY DEF Msgs

\* A call of a method of a channel.
LEMMA GoesPhase ==
  ASSUME NEW mine \in Mines, NEW A \in SUBSET Fact, NEW D \in Page(mine), D.out = <<>>,
         NEW E, PageOK(E, mine, A), Goes(D, E), NEW F, Emptied(E, F),
         NEW box, NEW src, NEW hid, NEW S, Phase(D, box, src, hid, S, TRUE)
  PROVE  Phase(F, box, src, hid, S \cup Msgs(E.out), TRUE)
<1>1. /\ F.ws = D.ws /\ F.seed = D.seed /\ F.hidden = D.hidden /\ F.waiting_for_init = D.waiting_for_init
      /\ F.ready = D.ready /\ Keeps(D, E)
  BY DEF Goes, Same, Emptied
<1>2. D.ws = "null" \/ ~D.ready => S \cup Msgs(E.out) = S
  BY NoMsgs DEF Goes
<1>3. DOMAIN D.chan = mine /\ DOMAIN E.chan = mine
  BY DEF PageOK, Page
<1>4. CASE Fresh(D, box, src, S)
  BY <1>1, <1>2, <1>4 DEF Fresh, Phase
<1>5. CASE Asked(D, box, src, S)
  BY <1>1, <1>2, <1>5 DEF Asked, Phase
<1>6. CASE Answered(D, box, src, hid, S)
  BY <1>1, <1>2, <1>6 DEF Answered, Final, Phase
<1>7. CASE Running(D, box, src, hid, S)
  <2>1. Quiet(D.out)
    BY DEF Quiet
  <2>2. Quiet(E.out)
    BY <2>1 DEF Goes
  <2>3. ASSUME NEW m \in Msgs(E.out)
        PROVE  m.kind \in Talk /\ m.id[1] = src /\ Has(F, m.id)
    <3>1. m.kind \in Talk
      BY <2>2 DEF Quiet, Msgs
    <3>2. m.id[1] = E.seed /\ Has(E, m.id)
      BY <3>1, OutIds
    <3> QED BY <1>1, <1>7, <3>1, <3>2 DEF Running, Has, Emptied
  <2>4. ASSUME NEW m \in S
        PROVE  m.kind \in Talk /\ m.id[1] = src /\ Has(F, m.id)
    <3>1. m.kind \in Talk /\ m.id[1] = src /\ Has(D, m.id) /\ m.id # NoId
      BY <1>7 DEF Running, NoId
    <3> QED BY <1>1, <1>3, <3>1, KeepsHas
  <2>5. Final(F, box, hid)
    BY <1>1, <1>7 DEF Running, Final
  <2>6. Running(F, box, src, hid, S \cup Msgs(E.out))
    BY <1>1, <1>7, <2>3, <2>4, <2>5 DEF Running
  <2> QED BY <2>6 DEF Phase
<1>8. CASE Shut(D, box, src, S)
  <2>1. ASSUME NEW m \in S, src # 0, m.kind \in Talk
        PROVE  m.id[1] = src /\ Has(F, m.id)
    <3>1. m.id[1] = src /\ Has(D, m.id) /\ m.id # NoId
      BY <1>8, <2>1 DEF Shut, NoId
    <3> QED BY <1>1, <1>3, <3>1, KeepsHas
  <2>2. S \cup Msgs(E.out) = S
    BY <1>2, <1>8 DEF Shut
  <2>3. Shut(F, box, src, S)
    BY <1>1, <1>8, <2>1 DEF Shut
  <2> QED BY <2>2, <2>3 DEF Phase
<1> QED BY <1>4, <1>5, <1>6, <1>7, <1>8 DEF Phase

\* The first channel of a document makes the transport.
LEMMA StartsPhase ==
  ASSUME NEW D, D.out = <<>>, NEW E, Starts(D, E), NEW F, Emptied(E, F),
         NEW box, NEW src, NEW hid, NEW S, Phase(D, box, src, hid, S, TRUE)
  PROVE  Phase(F, box, src, hid, S \cup Msgs(E.out), TRUE)
<1>1. Msgs(E.out) = {}
  BY NoMsgs DEF Starts
<1>2. Fresh(D, box, src, S)
  BY DEF Phase, Fresh, Asked, Answered, Running, Shut, Starts
<1>3. Fresh(F, box, src, S \cup Msgs(E.out))
  BY <1>1, <1>2 DEF Fresh, Starts, Emptied
<1> QED BY <1>3 DEF Phase

\* The transport opens, and the init is sent.
Opens(D, E) ==
  /\ D.ws = "opening" /\ E.ws = "open" /\ E.seed = D.seed /\ E.hidden = D.hidden
  /\ E.waiting_for_init = D.waiting_for_init /\ E.ready = D.ready /\ E.chan = D.chan
  /\ E.out = <<Msg("init", NoId, "none")>>

\* A frame's transport opens.
LEMMA OpensPhase ==
  ASSUME NEW D, NEW E, Opens(D, E), NEW F, Emptied(E, F),
         NEW box, NEW src, NEW hid, NEW S, Phase(D, box, src, hid, S, TRUE)
  PROVE  /\ Phase(F, box, src, hid, S \cup Msgs(E.out), TRUE)
         /\ Fresh(D, box, src, S)
<1>1. PICK m \in Message : m = Msg("init", NoId, "none") /\ m.kind = "init"
  <2>1. NoId \in Ids
    BY IdType DEF NoId
  <2> QED BY <2>1, MsgType DEF Kinds, Talk, Args, Problems
<1>2. Msgs(E.out) = {m}
  <2>1. E.out = <<m>>
    BY <1>1 DEF Opens
  <2> QED BY <2>1 DEF Msgs
<1>3. Fresh(D, box, src, S)
  BY DEF Phase, Fresh, Asked, Answered, Running, Shut, Opens
<1>4. Asked(F, box, src, S \cup Msgs(E.out))
  BY <1>1, <1>2, <1>3 DEF Fresh, Asked, Opens, Emptied
<1> QED BY <1>3, <1>4 DEF Phase

\* The last hint, after the first message was handled.
LEMMA FinalTail ==
  ASSUME NEW D, NEW E, NEW box \in Seq(Message), NEW t \in Seq(Message), Tails(t, box), NEW b,
         Final(D, box, b),
         E.hidden = IF box[1].kind = "hint" THEN box[1].arg = "hidden" ELSE D.hidden
  PROVE  Final(E, t, b)
<1>1. /\ \A i \in DOMAIN t : i + 1 \in DOMAIN box /\ i + 1 # 1 /\ t[i] = box[i + 1]
      /\ \A i \in DOMAIN box : i # 1 => i - 1 \in DOMAIN t /\ t[i - 1] = box[i]
  BY TailsElem
<1>2. DOMAIN t \subseteq Nat /\ DOMAIN box \subseteq Nat \ {0}
  OBVIOUS
<1>3. CASE \E i \in DOMAIN box :
             /\ box[i].kind = "hint" /\ (box[i].arg = "hidden") = b
             /\ \A j \in DOMAIN box : i < j => box[j].kind # "hint"
  <2>1. PICK i \in DOMAIN box :
             /\ box[i].kind = "hint" /\ (box[i].arg = "hidden") = b
             /\ \A j \in DOMAIN box : i < j => box[j].kind # "hint"
    BY <1>3
  <2>2. CASE i = 1
    <3>1. ASSUME NEW j \in DOMAIN t
          PROVE  t[j].kind # "hint"
      <4>1. j + 1 \in DOMAIN box /\ t[j] = box[j + 1] /\ 1 < j + 1
        BY <1>1, <1>2
      <4> QED BY <2>1, <2>2, <4>1
    <3> QED BY <2>1, <2>2, <3>1 DEF Final
  <2>3. CASE i # 1
    <3>1. i - 1 \in DOMAIN t /\ t[i - 1].kind = "hint" /\ (t[i - 1].arg = "hidden") = b
      BY <1>1, <2>1, <2>3
    <3>2. \A j \in DOMAIN t : i - 1 < j => t[j].kind # "hint"
      BY <1>1, <1>2, <2>1
    <3> QED BY <3>1, <3>2 DEF Final
  <2> QED BY <2>2, <2>3
<1>4. CASE (\A i \in DOMAIN box : box[i].kind # "hint") /\ D.hidden = b
  <2>1. 1 \in DOMAIN box
    BY DEF Tails
  <2> QED BY <1>1, <1>4, <2>1 DEF Final
<1> QED BY <1>3, <1>4 DEF Final

\* The last hint, after another message was posted.
LEMMA FinalAppend ==
  ASSUME NEW D, NEW box \in Seq(Message), NEW t \in Seq(Message), NEW m, Appends(t, box, m)
  PROVE  /\ m.kind # "hint" => \A b : Final(D, box, b) => Final(D, t, b)
         /\ m.kind = "hint" => Final(D, t, m.arg = "hidden")
<1>1. /\ \A i \in DOMAIN box : i \in DOMAIN t /\ t[i] = box[i] /\ i # Len(box) + 1 /\ i < Len(box) + 1
      /\ \A i \in DOMAIN t : (i \in DOMAIN box /\ t[i] = box[i]) \/ (i = Len(box) + 1 /\ t[i] = m)
      /\ Len(box) + 1 \in DOMAIN t /\ t[Len(box) + 1] = m
  BY AppendsElem
<1>2. ASSUME m.kind # "hint", NEW b, Final(D, box, b)
      PROVE  Final(D, t, b)
  <2>1. CASE \E i \in DOMAIN box :
             /\ box[i].kind = "hint" /\ (box[i].arg = "hidden") = b
             /\ \A j \in DOMAIN box : i < j => box[j].kind # "hint"
    <3>1. PICK i \in DOMAIN box :
             /\ box[i].kind = "hint" /\ (box[i].arg = "hidden") = b
             /\ \A j \in DOMAIN box : i < j => box[j].kind # "hint"
      BY <2>1
    <3>2. \A j \in DOMAIN t : i < j => t[j].kind # "hint"
      BY <1>1, <1>2, <3>1
    <3> QED BY <1>1, <3>1, <3>2 DEF Final
  <2>2. CASE (\A i \in DOMAIN box : box[i].kind # "hint") /\ D.hidden = b
    <3>1. \A i \in DOMAIN t : t[i].kind # "hint"
      BY <1>1, <1>2, <2>2
    <3> QED BY <2>2, <3>1 DEF Final
  <2> QED BY <1>2, <2>1, <2>2 DEF Final
<1>3. ASSUME m.kind = "hint"
      PROVE  Final(D, t, m.arg = "hidden")
  <2>1. PICK n : n = Len(box) + 1 /\ n \in DOMAIN t /\ t[n] = m
    BY <1>1
  <2>2. \A j \in DOMAIN t : ~(n < j)
    <3>1. n \in Nat /\ \A i \in DOMAIN box : i \in Nat
      BY <2>1
    <3> QED BY <1>1, <2>1, <3>1
  <2> QED BY <1>3, <2>1, <2>2 DEF Final
<1> QED BY <1>2, <1>3

\* A message is handled in a frame.
LEMMA MessagePhase ==
  ASSUME NEW mine \in Mines, NEW A \in SUBSET Fact, NEW D \in Page(mine), D.out = <<>>,
         NEW E, PageOK(E, mine, A), NEW F, Emptied(E, F),
         NEW box \in Seq(Message), NEW t \in Seq(Message), Tails(t, box),
         \/ Inits(D, box[1], E)
         \/ /\ Quits(D, E, TRUE)
            /\ IF box[1].kind = "init" THEN box[1].arg # "none"
               ELSE D.waiting_for_init /\ box[1].kind # "data"
         \/ Tells(D, box[1], E),
         NEW src, NEW hid, NEW S, Phase(D, box, src, hid, S, TRUE)
  PROVE  Phase(F, t, src, hid, S \cup Msgs(E.out), TRUE)
<1>1. PICK m : m = box[1]
  OBVIOUS
<1>2. DOMAIN D.chan = mine /\ DOMAIN E.chan = mine
  BY DEF PageOK, Page
<1>3. \A i \in DOMAIN t : i + 1 \in DOMAIN box /\ i + 1 # 1 /\ t[i] = box[i + 1]
  BY TailsElem
<1>4. 1 \in DOMAIN box /\ box # <<>>
  BY DEF Tails
<1>5. \A q \in Msgs(E.out) : q.kind \in Talk => q.id[1] = F.seed /\ Has(F, q.id)
  BY OutIds DEF Emptied, Has
<1>6. ASSUME NEW q \in S, src # 0, q.id[1] = src, Has(D, q.id), Keeps(D, E)
      PROVE  Has(F, q.id)
  BY <1>2, <1>6, KeepsHas DEF NoId
<1>7. CASE Answered(D, box, src, hid, S)
  <2>1. m.kind = "init" /\ m.id[1] = src /\ S = {} /\ D.ws = "open"
    BY <1>1, <1>7 DEF Answered
  <2>2. \A i \in DOMAIN t : t[i].kind \in Plain
    BY <1>3, <1>7 DEF Answered
  <2>3. CASE Inits(D, m, E)
    <3>1. F.hidden = D.hidden /\ F.seed = src /\ F.ws = "open" /\ ~F.waiting_for_init /\ F.ready
      BY <2>1, <2>3 DEF Inits, Emptied
    <3>2. Final(F, t, hid)
      BY <1>1, <1>7, <2>1, <3>1, FinalTail DEF Answered
    <3>3. \A q \in Msgs(E.out) : q.kind \in Talk
      BY <2>3 DEF Inits, Quiet, Msgs
    <3>4. Running(F, t, src, hid, S \cup Msgs(E.out))
      BY <1>5, <1>7, <2>1, <2>2, <3>1, <3>2, <3>3 DEF Running, Answered
    <3> QED BY <3>4 DEF Phase
  <2>4. CASE Quits(D, E, TRUE)
    <3>1. \A q \in Msgs(E.out) : q.kind = "bye"
      <4>1. PICK b : b = Msg("bye", NoId, "none") /\ b.kind = "bye"
        <5>1. NoId \in Ids
          BY IdType DEF NoId
        <5> QED BY <5>1, MsgType DEF Kinds, Talk, Args, Problems
      <4>2. E.out = <<b>>
        BY <2>1, <2>4, <4>1 DEF Quits
      <4> QED BY <4>1, <4>2 DEF Msgs
    <3>2. Shut(F, t, src, S \cup Msgs(E.out))
      BY <2>1, <2>2, <2>4, <3>1 DEF Shut, Quits, Emptied, Talk
    <3> QED BY <3>2 DEF Phase
  <2> QED BY <1>1, <2>1, <2>3, <2>4 DEF Tells
<1>8. CASE Running(D, box, src, hid, S)
  <2>1. m.kind \in Plain /\ ~D.waiting_for_init /\ m.kind # "init"
    BY <1>1, <1>4, <1>8 DEF Running, Plain
  <2>2. Tells(D, m, E)
    BY <1>1, <2>1 DEF Inits
  <2>3. \A i \in DOMAIN t : t[i].kind \in Plain
    BY <1>3, <1>8 DEF Running
  <2>4. F.hidden = (IF m.kind = "hint" THEN m.arg = "hidden" ELSE D.hidden) /\ F.seed = D.seed
        /\ F.ws = D.ws /\ F.ready = D.ready /\ F.waiting_for_init = D.waiting_for_init
    BY <2>2 DEF Tells, Emptied
  <2>5. Final(F, t, hid)
    BY <1>1, <1>8, <2>4, FinalTail DEF Running
  <2>6. \A q \in Msgs(E.out) : q.kind \in Talk
    BY <2>2 DEF Tells, Quiet, Msgs
  <2>7. ASSUME NEW q \in S \cup Msgs(E.out)
        PROVE  q.kind \in Talk /\ q.id[1] = src /\ Has(F, q.id)
    <3>1. CASE q \in S
      BY <1>6, <1>8, <2>2, <3>1 DEF Running, Tells
    <3>2. CASE q \in Msgs(E.out)
      BY <1>5, <1>8, <2>4, <2>6, <3>2 DEF Running
    <3> QED BY <3>1, <3>2
  <2>8. Running(F, t, src, hid, S \cup Msgs(E.out))
    BY <1>8, <2>3, <2>4, <2>5, <2>7 DEF Running
  <2> QED BY <2>8 DEF Phase
<1>9. CASE Shut(D, box, src, S)
  <2>1. m.kind \in Plain /\ m.kind # "init" /\ D.ws = "null"
    BY <1>1, <1>4, <1>9 DEF Shut, Plain
  <2>2. Quits(D, E, TRUE) \/ Tells(D, m, E)
    BY <1>1, <2>1 DEF Inits
  <2>3. F.ws = "null" /\ E.out = <<>> /\ Keeps(D, E)
    BY <2>1, <2>2 DEF Quits, Tells, Emptied
  <2>4. S \cup Msgs(E.out) = S
    BY <2>3, NoMsgs
  <2>5. \A i \in DOMAIN t : t[i].kind \in Plain
    BY <1>3, <1>9 DEF Shut
  <2>6. Shut(F, t, src, S)
    BY <1>6, <1>9, <2>3, <2>5 DEF Shut
  <2> QED BY <2>4, <2>6 DEF Phase
<1> QED BY <1>4, <1>7, <1>8, <1>9 DEF Phase, Fresh, Asked

\* onopen
LEMMA OpenOK ==
  ASSUME NEW mine \in Mines, NEW A \in SUBSET Fact, NEW D, PageOK(D, mine, A), D.out = <<>>,
         D.ws = "opening", ~D.ready
  PROVE  LET E == SendData([D EXCEPT !.ws = "open"], Msg("init", NoId, "none"))
         IN PageOK(E, mine, A) /\ Opens(D, E)
<1>1. PICK m \in Message : m = Msg("init", NoId, "none") /\ m.kind = "init"
  <2>1. NoId \in Ids
    BY IdType DEF NoId
  <2> QED BY <2>1, MsgType DEF Kinds, Talk, Args, Problems
<1>2. D \in Page(mine) /\ D.out \in Seq(Message)
  BY DEF PageOK, Page
<1>3. PICK o : o = Append(<<>>, m) /\ o = <<m>> /\ o \in Seq(Message)
  <2>1. Append(<<>>, m) = <<m>>
    OBVIOUS
  <2> QED BY <2>1, OneType
<1>4. PICK E : E = [D EXCEPT !.ws = "open", !.out = o]
  OBVIOUS
<1>5. /\ E \in Page(mine) /\ E.ws = "open" /\ E.waiters = D.waiters /\ E.ready = D.ready /\ E.seed = D.seed
      /\ E.last = D.last /\ E.hidden = D.hidden /\ E.waiting_for_init = D.waiting_for_init
      /\ E.chan = D.chan /\ E.out = o
  BY <1>2, <1>3, <1>4 DEF Page
<1>6. SendData([D EXCEPT !.ws = "open"], Msg("init", NoId, "none")) = E
  <2>1. PICK G : G = [D EXCEPT !.ws = "open"]
    OBVIOUS
  <2>2. G \in Page(mine) /\ G.ws = "open" /\ G.out = <<>>
    BY <1>2, <2>1 DEF Page
  <2>3. SendData(G, m) = [G EXCEPT !.out = o]
    BY <1>3, <2>2 DEF SendData
  <2>4. [G EXCEPT !.out = o] = E
    BY <1>2, <1>4, <2>1 DEF Page
  <2> QED BY <1>1, <2>1, <2>3, <2>4
<1>7. OutOK(o, A)
  <2>1. Legal(m, A)
    BY <1>1 DEF Legal
  <2> QED BY <1>3, <2>1, OutOne
<1>8. Own(E)
  BY <1>1, <1>3, <1>5 DEF Own, Talk
<1>9. \A c \in mine : ObjectOK(E, c)
  BY <1>5 DEF PageOK, ObjectOK
<1>10. Apart(E) /\ WaitersOK(E)
  BY <1>5 DEF PageOK, Apart, WaitersOK
<1>11. Newest(E, A \cup Told(E.out, Len(E.out)))
  BY <1>5 DEF Newest
<1>12. \A c \in mine : ~E.chan[c].attached
  BY <1>5 DEF PageOK, ObjectOK
<1>13. PageOK(E, mine, A)
  BY <1>5, <1>7, <1>8, <1>9, <1>10, <1>11, <1>12 DEF PageOK
<1>14. Opens(D, E)
  BY <1>1, <1>3, <1>5 DEF Opens
<1> QED BY <1>6, <1>13, <1>14
----
(* Steps of a document.                                                    *)

\* A window shows one document.
LEMMA OneLoaded ==
  ASSUME FramesOK, NEW d \in loaded, NEW e \in loaded, Window(d) = Window(e)
  PROVE  d = e
BY DEF FramesOK

\* The messages on their way to the router by their senders.
LEMMA PostedBy ==
  ASSUME posted \in Seq(Post), NEW i \in DOMAIN posted
  PROVE  /\ posted[i].from \in Docs /\ posted[i].msg \in Message
         /\ posted[i].msg \in Sent(posted, posted[i].from)
<1>1. posted[i] \in Post
  OBVIOUS
<1>2. posted[i].from \in Docs /\ posted[i].msg \in Message
  BY <1>1 DEF Post
<1> QED BY <1>2 DEF Sent

\* An init comes from a document that waits for the reply.
LEMMA InitLoaded ==
  ASSUME PhaseOK, NEW d \in Docs, NEW m \in Sent(posted, d), m.kind = "init"
  PROVE  d \in loaded /\ Asked(doc[d], inbox[d], source[Window(d)], Sent(posted, d))
<1>1. PICK S : S = Sent(posted, d)
  OBVIOUS
<1>2. Phase(doc[d], inbox[d], source[Window(d)], current # Window(d), S, d \in loaded) /\ m \in S
  BY <1>1 DEF PhaseOK
<1>3. ~Fresh(doc[d], inbox[d], source[Window(d)], S)
  BY <1>2 DEF Fresh
<1>4. ~Answered(doc[d], inbox[d], source[Window(d)], current # Window(d), S)
  BY <1>2 DEF Answered
<1>5. ~Running(doc[d], inbox[d], source[Window(d)], current # Window(d), S)
  BY <1>2 DEF Running, Talk
<1>6. ~Shut(doc[d], inbox[d], source[Window(d)], S) /\ ~Away(doc[d], inbox[d], source[Window(d)], S)
  BY <1>2 DEF Shut, Away, Talk
<1> QED BY <1>1, <1>2, <1>3, <1>4, <1>5, <1>6 DEF Phase

\* What d may post in one step.
Speech(d, q) ==
  /\ (\E m \in Sent(posted, d) : m.kind = "init") => q = <<>>
  /\ (\E i \in DOMAIN q : q[i].kind = "init") => Len(q) = 1
  /\ \A i \in DOMAIN q : q[i].kind \in Talk => q[i].id[1] = source[Window(d)] /\ source[Window(d)] # 0

\* Nobody else moves.
Alone == UNCHANGED <<shown, loaded, source, unique_id, current, up, down, served, link>>

\* A loaded document d becomes F, its inbox t, and it posts q.
DocStep(d, F, t, q) ==
  /\ d \in loaded /\ doc' = [doc EXCEPT ![d] = F] /\ inbox' = [inbox EXCEPT ![d] = t]
  /\ Adds(posted', posted, d, q) /\ Alone

\* The variables after a step of a document.
LEMMA DocFields ==
  ASSUME Types, NEW d \in Docs, NEW F, NEW t \in Seq(Message), NEW q \in Seq(Message), DocStep(d, F, t, q)
  PROVE  /\ doc'[d] = F /\ inbox'[d] = t
         /\ \A e \in Docs \cup {Top} : e # d => doc'[e] = doc[e]
         /\ \A e \in Docs : e # d => inbox'[e] = inbox[e]
         /\ Sent(posted', d) = Sent(posted, d) \cup Msgs(q)
         /\ \A e \in Docs : e # d => Sent(posted', e) = Sent(posted, e)
         /\ DOMAIN doc' = Docs \cup {Top} /\ inbox' \in [Docs -> Seq(Message)] /\ posted' \in Seq(Post)
         /\ d # Top
<1>1. DOMAIN doc = Docs \cup {Top} /\ inbox \in [Docs -> Seq(Message)] /\ posted \in Seq(Post)
  BY DEF Types
<1>2. doc' = [doc EXCEPT ![d] = F] /\ inbox' = [inbox EXCEPT ![d] = t] /\ Adds(posted', posted, d, q)
  BY DEF DocStep
<1>3. /\ Sent(posted', d) = Sent(posted, d) \cup Msgs(q)
      /\ \A e \in Docs : e # d => Sent(posted', e) = Sent(posted, e)
  BY <1>1, <1>2, AddsSent
<1>4. posted' \in Seq(Post)
  BY <1>2 DEF Adds
<1>5. d # Top
  BY ShellAssumption
<1> QED BY <1>1, <1>2, <1>3, <1>4, <1>5

\* The router's queue after a step of a document.
LEMMA DocPosted ==
  ASSUME Base, NEW d \in Docs, NEW F, NEW t \in Seq(Message), NEW q \in Seq(Message), DocStep(d, F, t, q),
         Speech(d, q)
  PROVE  PostedOK'
<1>1. posted \in Seq(Post) /\ d \in loaded /\ Types /\ FramesOK /\ PostedOK /\ PhaseOK
  BY DEF Base, Types, DocStep
<1>2. Adds(posted', posted, d, q) /\ source' = source /\ unique_id' = unique_id
  BY DEF DocStep, Alone
<1>3. /\ \A i \in DOMAIN posted : i \in DOMAIN posted' /\ posted'[i] = posted[i] /\ i <= Len(posted)
      /\ \A i \in DOMAIN posted' :
           \/ i \in DOMAIN posted /\ posted'[i] = posted[i]
           \/ \E j \in DOMAIN q : i = Len(posted) + j /\ posted'[i].from = d /\ posted'[i].msg = q[j]
  BY <1>1, <1>2, AddsElem
<1>4. DOMAIN q = 1..Len(q) /\ Len(q) \in Nat /\ Len(posted) \in Nat /\ DOMAIN posted = 1..Len(posted)
  BY <1>1
<1>5. ASSUME NEW i \in DOMAIN posted', NEW j \in DOMAIN posted', posted'[i].msg.kind = "init", i < j
      PROVE  Window(posted'[j].from) # Window(posted'[i].from)
  <2>1. CASE i \in DOMAIN posted /\ posted'[i] = posted[i]
    <3>1. CASE j \in DOMAIN posted /\ posted'[j] = posted[j]
      BY <1>1, <1>5, <2>1, <3>1 DEF PostedOK
    <3>2. CASE \E k \in DOMAIN q : j = Len(posted) + k /\ posted'[j].from = d /\ posted'[j].msg = q[k]
      <4>1. PICK e \in Docs : e = posted[i].from /\ posted[i].msg \in Sent(posted, e)
        BY <1>1, <2>1, PostedBy
      <4>3. posted[i].msg.kind = "init"
        BY <1>5, <2>1
      <4>4. e \in loaded
        BY <1>1, <4>1, <4>3, InitLoaded
      <4>5. CASE Window(e) = Window(d)
        <5>1. e = d
          BY <1>1, <4>4, <4>5, OneLoaded
        <5>2. q = <<>>
          BY <4>1, <4>3, <5>1 DEF Speech
        <5> QED BY <3>2, <5>2
      <4> QED BY <2>1, <3>2, <4>1, <4>5
    <3> QED BY <1>3, <3>1, <3>2
  <2>2. CASE \E k \in DOMAIN q : i = Len(posted) + k /\ posted'[i].from = d /\ posted'[i].msg = q[k]
    <3>1. PICK k \in DOMAIN q : i = Len(posted) + k /\ posted'[i].msg = q[k]
      BY <2>2
    <3>2. Len(q) = 1
      BY <1>5, <3>1 DEF Speech
    <3>3. k = 1
      BY <1>4, <3>2
    <3>4. CASE j \in DOMAIN posted
      BY <1>4, <1>5, <3>1, <3>3, <3>4
    <3>5. CASE \E l \in DOMAIN q : j = Len(posted) + l
      BY <1>4, <1>5, <3>1, <3>2, <3>3, <3>5
    <3> QED BY <1>3, <3>4, <3>5
  <2> QED BY <1>3, <2>1, <2>2
<1>6. ASSUME NEW i \in DOMAIN posted', posted'[i].msg.kind \in Talk
      PROVE  /\ posted'[i].msg.id[1] \in 1..unique_id
             /\ \A v \in Windows : source[v] = posted'[i].msg.id[1] => v = Window(posted'[i].from)
  <2>1. CASE i \in DOMAIN posted /\ posted'[i] = posted[i]
    BY <1>1, <1>6, <2>1 DEF PostedOK
  <2>2. CASE \E k \in DOMAIN q : i = Len(posted) + k /\ posted'[i].from = d /\ posted'[i].msg = q[k]
    <3>1. PICK k \in DOMAIN q : posted'[i].from = d /\ posted'[i].msg = q[k]
      BY <2>2
    <3>2. posted'[i].msg.id[1] = source[Window(d)] /\ source[Window(d)] # 0
      BY <1>6, <3>1 DEF Speech
    <3>3. PICK w \in Windows : w = Window(d)
      BY DocWindow
    <3>4. source[w] \in Nat /\ source[w] <= unique_id /\ unique_id \in Nat
          /\ \A v \in Windows : source[v] = source[w] => v = w
      BY <1>1, <3>2, <3>3 DEF FramesOK, Types
    <3> QED BY <3>1, <3>2, <3>3, <3>4
  <2> QED BY <1>3, <2>1, <2>2
<1> QED BY <1>2, <1>5, <1>6 DEF PostedOK

\* The rest of Base.
LEMMA DocBase ==
  ASSUME Base, NEW d \in Docs, NEW F, NEW t \in Seq(Message), NEW q \in Seq(Message), DocStep(d, F, t, q),
         Speech(d, q), Sound(F, Mine(d)),
         Phase(F, t, source[Window(d)], current # Window(d), Sent(posted, d) \cup Msgs(q), TRUE)
  PROVE  Base'
<1>1. Types /\ FramesOK /\ NextOK /\ PhaseOK /\ TopOK /\ d \in loaded
  BY DEF Base, DocStep
<1>2. UNCHANGED <<shown, loaded, source, unique_id, current, up, down, served, link>>
  BY DEF DocStep, Alone
<1>3. /\ doc'[d] = F /\ inbox'[d] = t
      /\ \A e \in Docs \cup {Top} : e # d => doc'[e] = doc[e]
      /\ \A e \in Docs : e # d => inbox'[e] = inbox[e]
      /\ Sent(posted', d) = Sent(posted, d) \cup Msgs(q)
      /\ \A e \in Docs : e # d => Sent(posted', e) = Sent(posted, e)
      /\ DOMAIN doc' = Docs \cup {Top} /\ inbox' \in [Docs -> Seq(Message)] /\ posted' \in Seq(Post)
      /\ d # Top
  BY <1>1, DocFields
<1>4. Types'
  <2>1. \A e \in Docs \cup {Top} : Sound(doc'[e], Mine(e))
    BY <1>1, <1>3 DEF Types
  <2> QED BY <1>1, <1>2, <1>3, <2>1 DEF Types
<1>5. FramesOK'
  BY <1>1, <1>2 DEF FramesOK, InWindow
<1>6. NextOK'
  <2> SUFFICES ASSUME link # "gone", NEW w \in Windows, NEW n \in DOMAIN Documents[w], n > shown[w],
                      NEW e, e = Documents[w][n]
               PROVE  doc'[e] = NewPage(Mine(e)) /\ inbox'[e] = <<>> /\ Sent(posted', e) = {}
    BY <1>2 DEF NextOK
  <2>1. e \in Docs /\ Window(e) = w
    BY DocumentAt
  <2>2. e # d
    <3>1. shown[w] \in Nat /\ n \in Nat
      BY <1>1, ShellAssumption DEF Types
    <3>2. CASE e = d
      <4>1. d = Documents[w][shown[w]] /\ shown[w] # 0 /\ shown[w] <= Len(Documents[w])
        BY <1>1, <2>1, <3>2 DEF FramesOK
      <4>2. shown[w] \in DOMAIN Documents[w]
        BY <3>1, <4>1, ShellAssumption
      <4>3. n = shown[w]
        BY <3>2, <4>1, <4>2, DocumentAt
      <4> QED BY <3>1, <4>3
    <3> QED BY <3>2
  <2>3. doc[e] = NewPage(Mine(e)) /\ inbox[e] = <<>> /\ Sent(posted, e) = {}
    BY <1>1 DEF NextOK
  <2> QED BY <1>3, <2>1, <2>2, <2>3
<1>7. PostedOK'
  BY DocPosted
<1>8. PhaseOK'
  <2> SUFFICES ASSUME NEW e \in Docs
               PROVE  Phase(doc'[e], inbox'[e], source[Window(e)], current # Window(e),
                            Sent(posted', e), e \in loaded)
    BY <1>2 DEF PhaseOK
  <2>1. CASE e = d
    <3>1. Phase(F, t, source[Window(d)], current # Window(d), Sent(posted, d) \cup Msgs(q), d \in loaded)
      BY <1>1 DEF Phase
    <3> QED BY <1>3, <2>1, <3>1
  <2>2. CASE e # d
    BY <1>1, <1>3, <2>2 DEF PhaseOK
  <2> QED BY <2>1, <2>2
<1>9. TopOK'
  BY <1>1, <1>2, <1>3 DEF TopOK
<1> QED BY <1>4, <1>5, <1>6, <1>7, <1>8, <1>9 DEF Base

\* What d may be told of: nothing of a name it has yet to get.
Fits(d, A) ==
  doc[d].waiting_for_init /\ doc[d].ws # "null" /\ source[Window(d)] # 0 =>
    \A f \in A : f[2][1] # source[Window(d)]

\* E is what d may become, with the inbox t.
Moves(d, E, t) ==
  /\ \A A \in SUBSET Fact : PageOK(doc[d], Mine(d), A) /\ Fits(d, A) => PageOK(E, Mine(d), A)
  /\ \A F : Emptied(E, F) => Phase(F, t, source[Window(d)], current # Window(d),
                                   Sent(posted, d) \cup Msgs(E.out), TRUE)
  /\ Speech(d, E.out)
  /\ ~E.ready => ~doc[d].ready /\ \A i \in DOMAIN E.out : E.out[i].kind \notin {"open", "done", "close"}
  /\ Keeps(doc[d], E)
  /\ E.waiting_for_init /\ E.ws # "null" => doc[d].waiting_for_init
  /\ E.ws # "null" => doc[d].ws # "null"

\* d moves, and what it said is handed over.
DocMoves(d, E, t) == DocStep(d, [E EXCEPT !.out = <<>>], t, E.out) /\ Moves(d, E, t)

\* The page after a move, as far as it can see.
LEMMA MovesSound ==
  ASSUME Base, NEW d \in Docs, NEW E, NEW t, Moves(d, E, t), d \in loaded
  PROVE  /\ Sound([E EXCEPT !.out = <<>>], Mine(d)) /\ E.out \in Seq(Message)
         /\ Emptied(E, [E EXCEPT !.out = <<>>])
         /\ E \in Page(Mine(d))
<1>1. PICK mine \in Mines : mine = Mine(d)
  BY MineType
<1>2. Sound(doc[d], mine)
  BY <1>1 DEF Base, Types
<1>3. PICK D : D = doc[d]
  OBVIOUS
<1>4. ASSUME NEW A \in SUBSET Fact, PageOK(D, mine, A), ~D.ready => A = {}
      PROVE  PageOK(E, mine, A)
  <2>1. Phase(D, inbox[d], source[Window(d)], current # Window(d), Sent(posted, d), TRUE)
    <3>1. Phase(D, inbox[d], source[Window(d)], current # Window(d), Sent(posted, d), d \in loaded)
      BY <1>3 DEF Base, PhaseOK
    <3> QED BY <3>1 DEF Phase
  <2>2. D.waiting_for_init /\ D.ws # "null" => ~D.ready
    BY <2>1 DEF Phase, Fresh, Asked, Answered, Running, Shut
  <2>3. Fits(d, A)
    BY <1>3, <1>4, <2>2 DEF Fits
  <2> QED BY <1>1, <1>3, <1>4, <2>3 DEF Moves
<1>5. ~E.ready => ~D.ready /\ \A i \in DOMAIN E.out : E.out[i].kind \notin {"open", "done", "close"}
  BY <1>3 DEF Moves
<1>6. Sound([E EXCEPT !.out = <<>>], mine)
  BY <1>2, <1>3, <1>4, <1>5, SoundStep
<1>7. PICK A \in SUBSET Fact : PageOK(D, mine, A) /\ (~D.ready => A = {})
  BY <1>2, <1>3 DEF Sound
<1>8. PageOK(E, mine, A)
  BY <1>4, <1>7
<1>9. PICK F : F = [E EXCEPT !.out = <<>>]
  OBVIOUS
<1>10. Emptied(E, F)
  BY <1>8, <1>9, PageSent DEF Emptied
<1>11. E.out \in Seq(Message) /\ E \in Page(mine)
  BY <1>8 DEF PageOK, Page
<1> QED BY <1>1, <1>6, <1>9, <1>10, <1>11

\* A move of a document keeps Base.
LEMMA MovesBase ==
  ASSUME Base, NEW d \in Docs, NEW E, NEW t \in Seq(Message), DocMoves(d, E, t)
  PROVE  Base'
<1>1. Moves(d, E, t) /\ DocStep(d, [E EXCEPT !.out = <<>>], t, E.out) /\ d \in loaded
  BY DEF DocMoves, DocStep
<1>2. PICK F : F = [E EXCEPT !.out = <<>>]
  OBVIOUS
<1>3. Sound(F, Mine(d)) /\ E.out \in Seq(Message) /\ Emptied(E, F)
  BY <1>1, <1>2, MovesSound
<1>4. PICK q \in Seq(Message) : q = E.out
  BY <1>3
<1>5. DocStep(d, F, t, q)
  BY <1>1, <1>2, <1>4
<1>6. Phase(F, t, source[Window(d)], current # Window(d), Sent(posted, d) \cup Msgs(q), TRUE)
  BY <1>1, <1>3, <1>4 DEF Moves
<1>7. Speech(d, q)
  BY <1>1, <1>4 DEF Moves
<1> QED BY <1>3, <1>5, <1>6, <1>7, DocBase

\* What was posted tells as much as before, and then what d said.
LEMMA AddsTold ==
  ASSUME NEW s \in Seq(Post), NEW t, NEW d, NEW q \in Seq(Message), Adds(t, s, d, q)
  PROVE  /\ \A n \in 0..Len(s) : PostTold(t, n) = PostTold(s, n)
         /\ \A n \in 0..Len(q) : PostTold(t, Len(s) + n) = PostTold(s, Len(s)) \cup Told(q, n)
<1>1. PICK a \in Nat, b \in Nat : a = Len(s) /\ b = Len(q) /\ DOMAIN s = 1..a /\ DOMAIN q = 1..b
  OBVIOUS
<1>2. /\ \A i \in DOMAIN s : i \in DOMAIN t /\ t[i] = s[i] /\ i <= a
      /\ \A i \in DOMAIN t : \/ i \in DOMAIN s /\ t[i] = s[i]
                             \/ \E j \in DOMAIN q : i = a + j /\ t[i].from = d /\ t[i].msg = q[j]
      /\ \A j \in DOMAIN q : a + j \in DOMAIN t /\ t[a + j].from = d /\ t[a + j].msg = q[j]
  <2>1. /\ \A i \in DOMAIN s : i \in DOMAIN t /\ t[i] = s[i] /\ i <= Len(s)
        /\ \A i \in DOMAIN t :
             \/ i \in DOMAIN s /\ t[i] = s[i]
             \/ \E j \in DOMAIN q : i = Len(s) + j /\ t[i].from = d /\ t[i].msg = q[j]
        /\ \A j \in DOMAIN q : Len(s) + j \in DOMAIN t /\ t[Len(s) + j].from = d /\ t[Len(s) + j].msg = q[j]
    BY AddsElem
  <2> QED BY <1>1, <2>1
<1>3. ASSUME NEW n \in 0..a
      PROVE  PostTold(t, n) = PostTold(s, n)
  <2>1. \A j \in DOMAIN q : ~(a + j <= n)
    BY <1>1
  <2> QED BY <1>1, <1>2, <2>1 DEF PostTold
<1>4. ASSUME NEW n \in 0..b
      PROVE  PostTold(t, a + n) = PostTold(s, a) \cup Told(q, n)
  <2>1. \A j \in DOMAIN q : a + j <= a + n <=> j <= n
    BY <1>1
  <2>2. \A i \in DOMAIN s : i <= a /\ i <= a + n
    BY <1>1
  <2>3. PostTold(t, a + n) \subseteq PostTold(s, a) \cup Told(q, n)
    BY <1>2, <2>1, <2>2 DEF PostTold, Told
  <2>4. PostTold(s, a) \subseteq PostTold(t, a + n)
    BY <1>2, <2>2 DEF PostTold
  <2>5. Told(q, n) \subseteq PostTold(t, a + n)
    BY <1>2, <2>1 DEF PostTold, Told
  <2> QED BY <2>3, <2>4, <2>5
<1> QED BY <1>1, <1>3, <1>4

\* What is known of channels is about names the router has given.
LEMMA FactTypes ==
  ASSUME Types
  PROVE  /\ \A i : UpFact(i) \in SUBSET Fact /\ PostedFact(i) \in SUBSET Fact
         /\ AllFacts \in SUBSET Fact
BY DEF UpFact, PostedFact, AllFacts, ServedFact, PostTold, Told

\* The facts of a document's messages are about its own name.
LEMMA SpeechFacts ==
  ASSUME NEW d, NEW q \in Seq(Message), Speech(d, q), NEW n, NEW f \in Told(q, n)
  PROVE  f[2][1] = source[Window(d)] /\ source[Window(d)] # 0
<1>1. PICK i \in DOMAIN q : f = <<q[i].kind, q[i].id>> /\ f \in Fact
  BY DEF Told
<1>2. PICK k, id : f = <<k, id>> /\ k = q[i].kind /\ id = q[i].id
  BY <1>1
<1>3. f[1] = k /\ f[2] = id
  BY <1>2
<1>4. f[1] \in {"open", "done", "close"}
  BY <1>1 DEF Fact
<1>5. q[i].kind \in Talk
  BY <1>2, <1>3, <1>4 DEF Talk
<1>6. q[i].id[1] = source[Window(d)] /\ source[Window(d)] # 0
  BY <1>5 DEF Speech
<1> QED BY <1>2, <1>3, <1>6

\* Pages that are ready and connected have different seeds.
LEMMA SeedsApart ==
  ASSUME Base, NEW d \in loaded, source[Window(d)] # 0, NEW e \in Docs \cup {Top}, e # d
  PROVE  doc[e].ws = "null" \/ ~doc[e].ready \/ doc[e].seed # source[Window(d)]
<1>1. Types /\ FramesOK /\ PhaseOK /\ TopOK /\ d \in Docs
  BY DEF Base, Types
<1>2. CASE e = Top
  BY <1>1, <1>2 DEF TopOK
<1>3. CASE e \in loaded
  <2>1. Phase(doc[e], inbox[e], source[Window(e)], current # Window(e), Sent(posted, e), e \in loaded)
    BY <1>1, <1>3 DEF PhaseOK, Types
  <2>2. doc[e].ws = "null" \/ ~doc[e].ready \/ doc[e].seed = source[Window(e)]
    BY <1>3, <2>1 DEF Phase, Fresh, Asked, Answered, Running, Shut
  <2>3. Window(e) # Window(d)
    BY <1>1, <1>3, OneLoaded
  <2>4. Window(d) \in Windows /\ Window(e) \in Windows
    BY <1>1, <1>3, DocWindow DEF Types
  <2>5. source[Window(e)] # source[Window(d)]
    BY <1>1, <2>3, <2>4 DEF FramesOK
  <2> QED BY <2>2, <2>5
<1>4. CASE e \in Docs \ loaded
  <2>1. Phase(doc[e], inbox[e], source[Window(e)], current # Window(e), Sent(posted, e), e \in loaded)
    BY <1>1, <1>4 DEF PhaseOK
  <2>2. doc[e].ws \in {"none", "null"}
    BY <1>4, <2>1 DEF Phase, Away
  <2>3. doc[e].ready => doc[e].ws # "none"
    BY <1>1, <1>4 DEF Types, Sound, PageOK
  <2> QED BY <2>2, <2>3
<1> QED BY <1>2, <1>3, <1>4

\* The router never gives a name again, so nothing that was lost is found.
LEMMA LostStays ==
  ASSUME unique_id \in Nat, unique_id' \in Nat, unique_id <= unique_id',
         \A v \in Windows : source'[v] \in {0, source[v], unique_id + 1}
  PROVE  Lost \subseteq Lost'
<1> SUFFICES ASSUME NEW m \in Lost PROVE m \in Lost'
  OBVIOUS
<1>1. /\ m \in Message /\ m.kind = "data" /\ m.arg = "raw" /\ m.id[1] \in 1..unique_id
      /\ \A w \in Windows : source[w] # m.id[1]
  BY DEF Lost
<1>2. m.id[1] \in 1..unique_id' /\ m.id[1] # 0 /\ m.id[1] # unique_id + 1
  BY <1>1
<1>3. \A w \in Windows : source'[w] # m.id[1]
  BY <1>1, <1>2
<1> QED BY <1>1, <1>2, <1>3 DEF Lost

\* The router's table is left alone.
LEMMA LostSame ==
  ASSUME UNCHANGED <<source, unique_id>>
  PROVE  Lost' = Lost
BY DEF Lost

\* A move of a document keeps to the protocol.
LEMMA MovesStream ==
  ASSUME Base, NEW d \in Docs, NEW E, NEW t \in Seq(Message), DocMoves(d, E, t), StreamOK
  PROVE  StreamOK'
<1>1. Moves(d, E, t) /\ DocStep(d, [E EXCEPT !.out = <<>>], t, E.out) /\ d \in loaded /\ Types
  BY DEF DocMoves, DocStep, Base
<1>2. PICK F : F = [E EXCEPT !.out = <<>>]
  OBVIOUS
<1>3. E.out \in Seq(Message) /\ Emptied(E, F)
  BY <1>1, <1>2, MovesSound
<1>4. PICK q \in Seq(Message) : q = E.out
  BY <1>3
<1>5. DocStep(d, F, t, q)
  BY <1>1, <1>2, <1>4
<1>6. /\ doc'[d] = F
      /\ \A e \in Docs \cup {Top} : e # d => doc'[e] = doc[e]
      /\ d # Top
  BY <1>1, <1>5, DocFields
<1>7. /\ Adds(posted', posted, d, q) /\ posted \in Seq(Post)
      /\ source' = source /\ unique_id' = unique_id /\ loaded' = loaded /\ up' = up /\ served' = served
  BY <1>1, <1>5 DEF DocStep, Alone, Types
<1>8. PICK T \in SUBSET Fact : T = Told(q, Len(q))
  BY DEF Told
<1>9. PICK A \in SUBSET Fact : A = AllFacts
  BY <1>1, FactTypes
<1>10. \A i : UpFact(i)' = UpFact(i)
  BY <1>7 DEF UpFact, ServedFact
<1>11. /\ \A n \in 0..Len(posted) : PostTold(posted', n) = PostTold(posted, n)
       /\ \A n \in 0..Len(q) : PostTold(posted', Len(posted) + n) = PostTold(posted, Len(posted)) \cup Told(q, n)
  BY <1>7, AddsTold
<1>12. Len(posted') = Len(posted) + Len(q) /\ Len(posted) \in Nat /\ Len(q) \in Nat
       /\ DOMAIN q = 1..Len(q) /\ DOMAIN posted = 1..Len(posted)
  BY <1>7 DEF Adds
<1>13. AllFacts' = A \cup T
  <2>1. PostTold(posted', Len(posted')) = PostTold(posted, Len(posted)) \cup T
    BY <1>8, <1>11, <1>12
  <2> QED BY <1>7, <1>9, <1>10, <2>1 DEF AllFacts, PostedFact
<1>14. Speech(d, q)
  BY <1>1, <1>4 DEF Moves
<1>15. \A f \in T : f[2][1] = source[Window(d)] /\ source[Window(d)] # 0
  BY <1>8, <1>14, SpeechFacts
<1>16. PageOK(E, Mine(d), A)
  <2>1. PageOK(doc[d], Mine(d), A)
    BY <1>9 DEF StreamOK
  <2>2. Fits(d, A)
    BY <1>1, <1>9 DEF StreamOK, Going, Fits
  <2> QED BY <1>1, <2>1, <2>2 DEF Moves
<1>17. \A e \in Docs \cup {Top} : PageOK(doc'[e], Mine(e), A \cup T)
  <2> SUFFICES ASSUME NEW e \in Docs \cup {Top}
               PROVE  PageOK(doc'[e], Mine(e), A \cup T)
    OBVIOUS
  <2>1. PICK mine \in Mines : mine = Mine(e)
    BY MineType
  <2>2. CASE e = d
    <3>1. PageOK(E, mine, A)
      BY <1>16, <2>1, <2>2
    <3>2. PageOK(F, mine, A \cup Told(E.out, Len(E.out)))
      BY <1>2, <3>1, PageSent
    <3> QED BY <1>4, <1>6, <1>8, <2>1, <2>2, <3>2
  <2>3. CASE e # d
    <3>1. PageOK(doc[e], mine, A) /\ doc[e].out = <<>>
      BY <1>1, <1>9, <2>1 DEF StreamOK, Types, Sound
    <3>2. PICK B \in SUBSET Fact : B = A \cup T
      OBVIOUS
    <3>3. doc[e].ws = "null" \/ ~doc[e].ready \/ Covers(B, A, doc[e].seed)
      <4>1. CASE T = {}
        BY <3>2, <4>1 DEF Covers
      <4>2. CASE T # {}
        <5>1. source[Window(d)] # 0
          BY <1>15, <4>2
        <5>2. doc[e].ws = "null" \/ ~doc[e].ready \/ doc[e].seed # source[Window(d)]
          BY <1>1, <2>3, <5>1, SeedsApart
        <5> QED BY <1>15, <3>2, <5>2 DEF Covers
      <4> QED BY <4>1, <4>2
    <3>4. PageOK(doc[e], mine, B)
      BY <3>1, <3>3, PageCovers
    <3> QED BY <1>6, <2>1, <2>3, <3>2, <3>4
  <2> QED BY <2>2, <2>3
<1>18. ASSUME NEW e \in loaded, source[Window(e)] # 0, doc'[e].waiting_for_init, doc'[e].ws # "null"
       PROVE  \A f \in A \cup T : f[2][1] # source[Window(e)]
  <2>1. CASE e = d
    <3>1. doc[d].waiting_for_init /\ doc[d].ws # "null"
      BY <1>1, <1>3, <1>6, <1>18, <2>1 DEF Moves, Emptied
    <3>2. \A f \in A : f[2][1] # source[Window(e)]
      BY <1>9, <1>18, <2>1, <3>1 DEF StreamOK, Going
    <3>3. Phase(F, t, source[Window(d)], current # Window(d), Sent(posted, d) \cup Msgs(q), TRUE)
      BY <1>1, <1>3, <1>4 DEF Moves
    <3>4. Msgs(q) = {}
      BY <1>6, <1>18, <2>1, <3>3 DEF Phase, Fresh, Asked, Answered, Running, Shut
    <3>5. T = {}
      BY <1>8, <3>4 DEF Told, Msgs
    <3> QED BY <3>2, <3>5
  <2>2. CASE e # d
    <3>1. \A f \in A : f[2][1] # source[Window(e)]
      BY <1>1, <1>6, <1>9, <1>18, <2>2 DEF StreamOK, Going, Types
    <3>2. Window(e) # Window(d)
      BY <1>1, <2>2, OneLoaded DEF Base
    <3>3. source[Window(d)] # source[Window(e)]
      <4>1. Window(d) \in Windows /\ Window(e) \in Windows
        BY <1>1, DocWindow DEF Types
      <4> QED BY <1>18, <3>2, <4>1 DEF Base, FramesOK
    <3> QED BY <1>15, <3>1, <3>3
  <2> QED BY <2>1, <2>2
<1>19. ASSUME NEW i \in DOMAIN posted', posted'[i].from \in loaded, source[Window(posted'[i].from)] # 0
       PROVE  Legal(posted'[i].msg, UpFact(Len(up)) \cup PostTold(posted', i - 1))
  <2>1. \/ i \in DOMAIN posted /\ posted'[i] = posted[i]
        \/ \E j \in DOMAIN q : i = Len(posted) + j /\ posted'[i].from = d /\ posted'[i].msg = q[j]
    BY <1>7, AddsElem
  <2>2. CASE i \in DOMAIN posted /\ posted'[i] = posted[i]
    <3>1. i - 1 \in 0..Len(posted)
      BY <1>12, <2>2
    <3>2. PostTold(posted', i - 1) = PostTold(posted, i - 1)
      BY <1>11, <3>1
    <3>3. Legal(posted[i].msg, PostedFact(i - 1))
      BY <1>19, <2>2 DEF StreamOK, Going
    <3> QED BY <2>2, <3>2, <3>3 DEF PostedFact
  <2>3. CASE \E j \in DOMAIN q : i = Len(posted) + j /\ posted'[i].from = d /\ posted'[i].msg = q[j]
    <3>1. PICK j \in DOMAIN q : i = Len(posted) + j /\ posted'[i].msg = q[j]
      BY <2>3
    <3>2. j - 1 \in 0..Len(q) /\ i - 1 = Len(posted) + (j - 1)
      BY <1>12, <3>1
    <3>3. PostTold(posted', i - 1) = PostTold(posted, Len(posted)) \cup Told(q, j - 1)
      BY <1>11, <3>2
    <3>4. Legal(q[j], A \cup Told(q, j - 1))
      BY <1>4, <1>16 DEF PageOK, OutOK
    <3>5. UpFact(Len(up)) \cup PostTold(posted', i - 1) = A \cup Told(q, j - 1)
      BY <1>9, <3>3 DEF AllFacts, PostedFact
    <3> QED BY <3>1, <3>4, <3>5
  <2> QED BY <2>1, <2>2, <2>3
<1>20. \A f \in UpFact(Len(up)) : f[2][1] <= unique_id
  BY DEF StreamOK
<1>21. (\A f \in UpFact(Len(up)) : f[2][1] <= unique_id)'
  BY <1>7, <1>10, <1>20
<1>22. (\A i \in DOMAIN up : up[i] \in Lost \/ Legal(up[i], UpFact(i - 1)))'
  BY <1>7, <1>10, LostSame DEF StreamOK
<1>23. (\A i \in DOMAIN posted : Going(posted[i].from) => Legal(posted[i].msg, PostedFact(i - 1)))'
  BY <1>7, <1>10, <1>19 DEF Going, PostedFact
<1>24. (\A e \in loaded : Going(e) /\ doc[e].waiting_for_init /\ doc[e].ws # "null" =>
         \A f \in AllFacts : f[2][1] # source[Window(e)])'
  BY <1>7, <1>13, <1>18 DEF Going
<1>25. (\A s, r \in served : s.id = r.id => s = r)'
  BY <1>7 DEF StreamOK
<1>26. (\A e \in Docs \cup {Top} : PageOK(doc[e], Mine(e), AllFacts))'
  BY <1>13, <1>17
<1> QED BY <1>21, <1>22, <1>23, <1>24, <1>25, <1>26 DEF StreamOK

\* A channel that belongs to a document belongs to it after a move.
LEMMA MovesRoutes ==
  ASSUME Base, NEW d \in Docs, NEW E, NEW t \in Seq(Message), DocMoves(d, E, t), RoutesOK
  PROVE  RoutesOK'
<1>1. Moves(d, E, t) /\ DocStep(d, [E EXCEPT !.out = <<>>], t, E.out) /\ d \in loaded /\ Types
  BY DEF DocMoves, DocStep, Base
<1>2. PICK F : F = [E EXCEPT !.out = <<>>]
  OBVIOUS
<1>3. E.out \in Seq(Message) /\ Emptied(E, F) /\ E \in Page(Mine(d))
  BY <1>1, <1>2, MovesSound
<1>4. PICK q \in Seq(Message) : q = E.out
  BY <1>3
<1>5. DocStep(d, F, t, q)
  BY <1>1, <1>2, <1>4
<1>6. doc'[d] = F /\ \A e \in Docs \cup {Top} : e # d => doc'[e] = doc[e]
  BY <1>1, <1>5, DocFields
<1>7. source' = source /\ loaded' = loaded /\ up' = up /\ served' = served
  BY <1>1, <1>5 DEF DocStep, Alone
<1>8. DOMAIN doc[d].chan = Mine(d) /\ DOMAIN E.chan = Mine(d)
  BY <1>1, <1>3 DEF Types, Sound, PageOK, Page
<1>9. ASSUME NEW w \in Windows, NEW id, Owned(w, id)
      PROVE  Owned(w, id)'
  <2>1. PICK e \in InWindow(w) : Has(doc[e], id)
    BY <1>9 DEF Owned
  <2>2. id # NoId
    BY <1>9 DEF Owned, NoId
  <2>3. Has(doc'[e], id)
    <3>1. CASE e = d
      BY <1>1, <1>3, <1>6, <1>8, <2>1, <2>2, <3>1, KeepsHas DEF Moves
    <3>2. CASE e # d
      BY <1>1, <1>6, <2>1, <3>2 DEF InWindow, Types
    <3> QED BY <3>1, <3>2
  <2> QED BY <1>7, <1>9, <2>1, <2>3 DEF Owned, InWindow
<1> QED BY <1>7, <1>9 DEF RoutesOK, OnTheWay

\* A document in its new phase has said what it may.
LEMMA SpeechOf ==
  ASSUME NEW d, NEW q \in Seq(Message), NEW F, NEW t, NEW hid,
         Phase(F, t, source[Window(d)], hid, Sent(posted, d) \cup Msgs(q), TRUE),
         \A i \in DOMAIN q : q[i].kind \in Talk \cup {"bye"},
         F.ws = "null" => \A i \in DOMAIN q : q[i].kind = "bye"
  PROVE  Speech(d, q)
<1>1. \A i \in DOMAIN q : q[i] \in Msgs(q)
  BY DEF Msgs
<1>2. CASE q = <<>>
  BY <1>2 DEF Speech
<1>3. CASE q # <<>>
  <2>1. 1 \in DOMAIN q
    BY <1>3, EmptySeq
  <2>2. q[1] \in Msgs(q) /\ q[1].kind # "init"
    BY <1>1, <2>1 DEF Talk
  <2>3. CASE Running(F, t, source[Window(d)], hid, Sent(posted, d) \cup Msgs(q))
    BY <1>1, <2>3 DEF Running, Speech, Talk
  <2>4. CASE Shut(F, t, source[Window(d)], Sent(posted, d) \cup Msgs(q))
    BY <1>1, <2>4 DEF Shut, Speech, Talk
  <2> QED BY <2>2, <2>3, <2>4 DEF Phase, Fresh, Asked, Answered
<1> QED BY <1>2, <1>3

\* A loaded document is in one of the phases.
LEMMA LoadedPhase ==
  ASSUME Base, NEW d \in loaded
  PROVE  /\ d \in Docs /\ Sound(doc[d], Mine(d)) /\ doc[d].out = <<>> /\ doc[d] \in Page(Mine(d))
         /\ Phase(doc[d], inbox[d], source[Window(d)], current # Window(d), Sent(posted, d), TRUE)
         /\ inbox[d] \in Seq(Message) /\ Mine(d) \in Mines
<1>1. d \in Docs /\ Sound(doc[d], Mine(d)) /\ inbox[d] \in Seq(Message)
  BY DEF Base, Types
<1>2. doc[d].out = <<>> /\ doc[d] \in Page(Mine(d))
  BY <1>1 DEF Sound, PageOK
<1>3. Phase(doc[d], inbox[d], source[Window(d)], current # Window(d), Sent(posted, d), d \in loaded)
  BY <1>1 DEF Base, PhaseOK
<1> QED BY <1>1, <1>2, <1>3, MineType DEF Phase

\* A call of a method of a channel.
LEMMA GoesMoves ==
  ASSUME Base, NEW d \in loaded, NEW E, Goes(doc[d], E),
         \A A \in SUBSET Fact : PageOK(doc[d], Mine(d), A) => PageOK(E, Mine(d), A)
  PROVE  Moves(d, E, inbox[d])
<1>1. /\ d \in Docs /\ Sound(doc[d], Mine(d)) /\ doc[d].out = <<>> /\ doc[d] \in Page(Mine(d))
      /\ Phase(doc[d], inbox[d], source[Window(d)], current # Window(d), Sent(posted, d), TRUE)
  BY LoadedPhase
<1>2. PICK mine \in Mines : mine = Mine(d)
  BY <1>1, MineType
<1>3. PICK A \in SUBSET Fact : PageOK(E, mine, A)
  BY <1>1, <1>2 DEF Sound
<1>4. E.out \in Seq(Message)
  BY <1>3 DEF PageOK, Page
<1>5. PICK S : S = Sent(posted, d)
  OBVIOUS
<1>6. PICK src : src = source[Window(d)]
  OBVIOUS
<1>7. ASSUME NEW F, Emptied(E, F)
      PROVE  Phase(F, inbox[d], src, current # Window(d), S \cup Msgs(E.out), TRUE)
  BY <1>1, <1>2, <1>3, <1>5, <1>6, <1>7, GoesPhase
<1>8. Quiet(E.out) /\ (doc[d].ws = "null" => E.out = <<>>)
  <2>1. Quiet(doc[d].out)
    BY <1>1 DEF Quiet
  <2> QED BY <1>1, <2>1 DEF Goes
<1>9. Emptied(E, E)
  BY DEF Emptied
<1>10. Speech(d, E.out)
  <2>1. PICK q \in Seq(Message) : q = E.out
    BY <1>4
  <2>2. Phase(E, inbox[d], source[Window(d)], current # Window(d), Sent(posted, d) \cup Msgs(q), TRUE)
    BY <1>5, <1>6, <1>7, <1>9, <2>1
  <2>3. \A i \in DOMAIN q : q[i].kind \in Talk \cup {"bye"}
    BY <1>8, <2>1 DEF Quiet
  <2>4. E.ws = "null" => \A i \in DOMAIN q : q[i].kind = "bye"
    BY <1>8, <2>1 DEF Goes, Same
  <2>5. Speech(d, q)
    BY <2>2, <2>3, <2>4, SpeechOf
  <2> QED BY <2>1, <2>5
<1>11. ~E.ready => ~doc[d].ready /\ E.out = <<>>
  BY <1>1 DEF Goes
<1>12. \A F : Emptied(E, F) => Phase(F, inbox[d], source[Window(d)], current # Window(d),
                                    Sent(posted, d) \cup Msgs(E.out), TRUE)
  BY <1>5, <1>6, <1>7
<1>13. \A A1 \in SUBSET Fact : PageOK(doc[d], Mine(d), A1) /\ Fits(d, A1) => PageOK(E, Mine(d), A1)
  OBVIOUS
<1>14. /\ Keeps(doc[d], E) /\ (E.waiting_for_init /\ E.ws # "null" => doc[d].waiting_for_init)
       /\ E.ws # "null" => doc[d].ws # "null"
  BY DEF Goes, Same
<1>15. ~E.ready => ~doc[d].ready /\ \A i \in DOMAIN E.out : E.out[i].kind \notin {"open", "done", "close"}
  BY <1>11
<1> QED BY <1>10, <1>12, <1>13, <1>14, <1>15 DEF Moves

\* The first channel.
LEMMA StartsMoves ==
  ASSUME Base, NEW d \in loaded, NEW E, Starts(doc[d], E),
         \A A \in SUBSET Fact : PageOK(doc[d], Mine(d), A) => PageOK(E, Mine(d), A)
  PROVE  Moves(d, E, inbox[d])
<1>1. /\ d \in Docs /\ Sound(doc[d], Mine(d)) /\ doc[d].out = <<>> /\ doc[d] \in Page(Mine(d))
      /\ Phase(doc[d], inbox[d], source[Window(d)], current # Window(d), Sent(posted, d), TRUE)
  BY LoadedPhase
<1>2. PICK S : S = Sent(posted, d)
  OBVIOUS
<1>3. ASSUME NEW F, Emptied(E, F)
      PROVE  Phase(F, inbox[d], source[Window(d)], current # Window(d), S \cup Msgs(E.out), TRUE)
  BY <1>1, <1>2, <1>3, StartsPhase
<1>4. E.out = <<>>
  BY <1>1 DEF Starts
<1>5. Speech(d, E.out)
  BY <1>4 DEF Speech
<1>6. \A F : Emptied(E, F) => Phase(F, inbox[d], source[Window(d)], current # Window(d),
                                    Sent(posted, d) \cup Msgs(E.out), TRUE)
  BY <1>2, <1>3
<1>7. \A A1 \in SUBSET Fact : PageOK(doc[d], Mine(d), A1) /\ Fits(d, A1) => PageOK(E, Mine(d), A1)
  OBVIOUS
<1>8. /\ Keeps(doc[d], E) /\ (E.waiting_for_init /\ E.ws # "null" => doc[d].waiting_for_init)
      /\ E.ws # "null" => doc[d].ws # "null"
  BY DEF Starts
<1>9. ~E.ready => ~doc[d].ready /\ \A i \in DOMAIN E.out : E.out[i].kind \notin {"open", "done", "close"}
  BY <1>4 DEF Starts
<1> QED BY <1>5, <1>6, <1>7, <1>8, <1>9 DEF Moves

\* onopen
LEMMA OpensMoves ==
  ASSUME Base, NEW d \in loaded, NEW E, Opens(doc[d], E),
         \A A \in SUBSET Fact : PageOK(doc[d], Mine(d), A) => PageOK(E, Mine(d), A)
  PROVE  Moves(d, E, inbox[d])
<1>1. /\ d \in Docs /\ Sound(doc[d], Mine(d)) /\ doc[d].out = <<>> /\ doc[d] \in Page(Mine(d))
      /\ Phase(doc[d], inbox[d], source[Window(d)], current # Window(d), Sent(posted, d), TRUE)
  BY LoadedPhase
<1>2. PICK S : S = Sent(posted, d)
  OBVIOUS
<1>3. ASSUME NEW F, Emptied(E, F)
      PROVE  /\ Phase(F, inbox[d], source[Window(d)], current # Window(d), S \cup Msgs(E.out), TRUE)
             /\ Fresh(doc[d], inbox[d], source[Window(d)], S)
  BY <1>1, <1>2, <1>3, OpensPhase
<1>4. Fresh(doc[d], inbox[d], source[Window(d)], S)
  BY <1>3 DEF Emptied
<1>5. PICK m : m = Msg("init", NoId, "none") /\ m.kind = "init"
  <2>1. NoId \in Ids
    BY IdType DEF NoId
  <2> QED BY <2>1, MsgType DEF Kinds, Talk, Args, Problems
<1>6. E.out = <<m>>
  BY <1>5 DEF Opens
<1>7. Len(E.out) = 1 /\ DOMAIN E.out = {1} /\ E.out[1].kind = "init"
  BY <1>5, <1>6
<1>8. Speech(d, E.out)
  BY <1>2, <1>4, <1>7 DEF Speech, Fresh, Talk
<1>9. Keeps(doc[d], E)
  BY DEF Opens, Keeps
<1>10. ~doc[d].ready
  BY <1>4 DEF Fresh
<1> QED BY <1>2, <1>3, <1>7, <1>8, <1>9, <1>10 DEF Moves, Opens

\* What a message event makes of a frame and its inbox.
Handles(d, E, t) ==
  /\ t = Tail(inbox[d])
  /\ E = IF doc[d].ws = "none" THEN doc[d] ELSE Dispatch(doc[d], Head(inbox[d]), TRUE)

\* A message is handled in a frame.
LEMMA MessageMoves ==
  ASSUME Base, NEW d \in loaded, inbox[d] # <<>>, NEW t, NEW E, Handles(d, E, t)
  PROVE  Moves(d, E, t) /\ t \in Seq(Message)
<1>1. /\ d \in Docs /\ Sound(doc[d], Mine(d)) /\ doc[d].out = <<>> /\ doc[d] \in Page(Mine(d))
      /\ Phase(doc[d], inbox[d], source[Window(d)], current # Window(d), Sent(posted, d), TRUE)
      /\ inbox[d] \in Seq(Message)
  BY LoadedPhase
<1>2. PICK mine \in Mines : mine = Mine(d)
  BY <1>1, MineType
<1>3. PICK box \in Seq(Message) : box = inbox[d]
  BY <1>1
<1>4. PICK m \in Message : m = box[1]
  BY <1>3, EmptySeq
<1>5. Tails(t, box) /\ t \in Seq(Message) /\ Head(box) = m /\ 1 \in DOMAIN box
  BY <1>3, <1>4, TailTails DEF Handles
<1>6. PICK D : D = doc[d]
  OBVIOUS
<1>7. PICK S : S = Sent(posted, d)
  OBVIOUS
<1>8. PICK src : src = source[Window(d)]
  OBVIOUS
<1>9. Phase(D, box, src, current # Window(d), S, TRUE) /\ D.out = <<>> /\ D \in Page(mine)
  BY <1>1, <1>2, <1>3, <1>6, <1>7, <1>8
<1>10. D.ws # "none" /\ box # <<>>
  BY <1>3, <1>9 DEF Phase, Fresh, Asked, Answered, Running, Shut
<1>11. E = Dispatch(D, m, TRUE)
  BY <1>3, <1>5, <1>6, <1>10 DEF Handles
<1>12. m.kind \in Incoming
  BY <1>4, <1>5, <1>9, <1>10 DEF Phase, Fresh, Asked, Answered, Running, Shut, Incoming, Plain
<1>13. ASSUME NEW A \in SUBSET Fact, Fits(d, A)
       PROVE  Welcome(D, m, A)
  <2> SUFFICES ASSUME m.kind = "init" PROVE Welcome(D, m, A)
    BY DEF Welcome
  <2>1. Answered(D, box, src, current # Window(d), S)
    BY <1>4, <1>5, <1>9, <1>10 DEF Phase, Fresh, Asked, Running, Shut, Plain
  <2>2. m.id[1] = src /\ src # 0 /\ D.ws = "open" /\ D.waiting_for_init /\ ~D.ready
    BY <1>4, <2>1 DEF Answered
  <2> QED BY <1>6, <1>8, <1>13, <2>2 DEF Fits, Welcome
<1>14. ASSUME NEW A \in SUBSET Fact, Fits(d, A), PageOK(D, mine, A)
       PROVE  /\ PageOK(E, mine, A)
              /\ \/ Inits(D, m, E)
                 \/ /\ Quits(D, E, TRUE)
                    /\ IF m.kind = "init" THEN m.arg # "none" ELSE D.waiting_for_init /\ m.kind # "data"
                 \/ Tells(D, m, E)
  BY <1>9, <1>11, <1>12, <1>13, <1>14, DispatchOK
<1>15. PICK A \in SUBSET Fact : PageOK(D, mine, A) /\ Fits(d, A)
  <2>1. PICK A \in SUBSET Fact : PageOK(D, mine, A) /\ (~D.ready => A = {})
    BY <1>1, <1>2, <1>6 DEF Sound
  <2>2. D.waiting_for_init /\ D.ws # "null" => ~D.ready
    BY <1>9 DEF Phase, Fresh, Asked, Answered, Running, Shut
  <2>3. Fits(d, A)
    BY <1>6, <2>1, <2>2 DEF Fits
  <2> QED BY <2>1, <2>3
<1>16. /\ PageOK(E, mine, A)
       /\ \/ Inits(D, m, E)
          \/ /\ Quits(D, E, TRUE)
             /\ IF m.kind = "init" THEN m.arg # "none" ELSE D.waiting_for_init /\ m.kind # "data"
          \/ Tells(D, m, E)
  BY <1>14, <1>15
<1>17. ASSUME NEW F, Emptied(E, F)
       PROVE  Phase(F, t, src, current # Window(d), S \cup Msgs(E.out), TRUE)
  <2>1. \/ Inits(D, box[1], E)
        \/ /\ Quits(D, E, TRUE)
           /\ IF box[1].kind = "init" THEN box[1].arg # "none"
              ELSE D.waiting_for_init /\ box[1].kind # "data"
        \/ Tells(D, box[1], E)
    BY <1>4, <1>16
  <2> QED BY <1>5, <1>9, <1>16, <1>17, <2>1, MessagePhase
<1>18. E.out \in Seq(Message)
  BY <1>16 DEF PageOK, Page
<1>19. /\ \A i \in DOMAIN E.out : E.out[i].kind \in Talk \cup {"bye"}
       /\ E.ws = "null" => \A i \in DOMAIN E.out : E.out[i].kind = "bye"
       /\ Keeps(D, E) /\ (E.waiting_for_init /\ E.ws # "null" => D.waiting_for_init)
       /\ (E.ws # "null" => D.ws # "null")
       /\ ~E.ready => ~D.ready /\ \A i \in DOMAIN E.out : E.out[i].kind = "bye"
  <2>1. CASE Inits(D, m, E)
    <3>1. D.ws # "null"
      <4>1. m.kind = "init"
        BY <2>1 DEF Inits
      <4> QED BY <1>4, <1>5, <1>9, <1>10, <4>1 DEF Phase, Fresh, Asked, Answered, Running, Shut, Plain
    <3> QED BY <2>1, <3>1 DEF Inits, Quiet
  <2>2. CASE Quits(D, E, TRUE)
    <3>1. PICK b : b = Msg("bye", NoId, "none") /\ b.kind = "bye"
      <4>1. NoId \in Ids
        BY IdType DEF NoId
      <4> QED BY <4>1, MsgType DEF Kinds, Talk, Args, Problems
    <3>2. E.out = <<b>> \/ E.out = <<>>
      BY <2>2, <3>1 DEF Quits
    <3>3. \A i \in DOMAIN E.out : E.out[i].kind = "bye"
      <4>1. CASE E.out = <<b>>
        BY <3>1, <4>1
      <4>2. CASE E.out = <<>>
        BY <4>2
      <4> QED BY <3>2, <4>1, <4>2
    <3> QED BY <2>2, <3>3 DEF Quits
  <2>3. CASE Tells(D, m, E)
    <3>1. \A i \in DOMAIN E.out : E.out[i].kind \in Talk \cup {"bye"}
      BY <2>3 DEF Tells, Quiet
    <3>2. E.ws = "null" => E.out = <<>>
      BY <2>3 DEF Tells
    <3>3. E.ws = "null" => \A i \in DOMAIN E.out : E.out[i].kind = "bye"
      BY <3>2
    <3>4. ~E.ready => \A i \in DOMAIN E.out : E.out[i].kind = "bye"
      <4>1. ~E.ready => E.out = <<>>
        BY <2>3 DEF Tells
      <4> QED BY <4>1
    <3> QED BY <2>3, <3>1, <3>3, <3>4 DEF Tells
  <2> QED BY <1>16, <2>1, <2>2, <2>3
<1>20. Emptied(E, E)
  BY DEF Emptied
<1>21. Speech(d, E.out)
  <2>1. PICK q \in Seq(Message) : q = E.out
    BY <1>18
  <2>2. Phase(E, t, source[Window(d)], current # Window(d), Sent(posted, d) \cup Msgs(q), TRUE)
    BY <1>7, <1>8, <1>17, <1>20, <2>1
  <2>3. Speech(d, q)
    BY <1>19, <2>1, <2>2, SpeechOf
  <2> QED BY <2>1, <2>3
<1>22. \A F : Emptied(E, F) => Phase(F, t, source[Window(d)], current # Window(d),
                                    Sent(posted, d) \cup Msgs(E.out), TRUE)
  BY <1>7, <1>8, <1>17
<1>23. \A A1 \in SUBSET Fact : PageOK(doc[d], Mine(d), A1) /\ Fits(d, A1) => PageOK(E, Mine(d), A1)
  BY <1>2, <1>6, <1>14
<1>24. /\ Keeps(doc[d], E) /\ (E.waiting_for_init /\ E.ws # "null" => doc[d].waiting_for_init)
       /\ E.ws # "null" => doc[d].ws # "null"
  BY <1>6, <1>19
<1>25. ~E.ready => ~doc[d].ready /\ \A i \in DOMAIN E.out : E.out[i].kind \notin {"open", "done", "close"}
  BY <1>6, <1>19
<1> QED BY <1>5, <1>21, <1>22, <1>23, <1>24, <1>25 DEF Moves

\* Becomes, for a document in a frame.
LEMMA BecomesMoves ==
  ASSUME Base, NEW d \in loaded, NEW E, NEW t \in Seq(Message), Becomes(d, E), Moves(d, E, t),
         inbox' = [inbox EXCEPT ![d] = t],
         UNCHANGED <<shown, loaded, source, unique_id, current, down, served, link>>
  PROVE  DocMoves(d, E, t)
<1>1. d \in Docs /\ posted \in Seq(Post)
  BY LoadedPhase DEF Base, Types
<1>2. PICK q \in Seq(Message) : q = E.out
  BY <1>1, MovesSound
<1>3. d # Top
  BY <1>1, ShellAssumption
<1>4. doc' = [doc EXCEPT ![d] = [E EXCEPT !.out = <<>>]] /\ up' = up
      /\ posted' = posted \o [i \in DOMAIN q |-> [from |-> d, msg |-> q[i]]]
  BY <1>2, <1>3 DEF Becomes
<1>5. Adds(posted', posted, d, q)
  BY <1>1, <1>4, PostAdds
<1>6. DocStep(d, [E EXCEPT !.out = <<>>], t, q)
  BY <1>4, <1>5 DEF DocStep, Alone
<1> QED BY <1>2, <1>6 DEF DocMoves

\* Some document moves.
SomeMoves == \E d \in Docs : \E E, t : t \in Seq(Message) /\ DocMoves(d, E, t)

\* The same when the inbox is left alone.
LEMMA BecomesSome ==
  ASSUME Base, NEW d \in loaded, NEW E, Becomes(d, E), Moves(d, E, inbox[d]), inbox' = inbox,
         UNCHANGED <<shown, loaded, source, unique_id, current, down, served, link>>
  PROVE  SomeMoves
<1>1. d \in Docs /\ inbox[d] \in Seq(Message) /\ inbox \in [Docs -> Seq(Message)]
  BY LoadedPhase DEF Base, Types
<1>2. PICK t \in Seq(Message) : t = inbox[d]
  BY <1>1
<1>3. inbox' = [inbox EXCEPT ![d] = t]
  BY <1>1, <1>2
<1>4. Moves(d, E, t)
  BY <1>2
<1>5. DocMoves(d, E, t)
  BY <1>3, <1>4, BecomesMoves
<1> QED BY <1>1, <1>5 DEF SomeMoves

\* The calls of a script.
LEMMA CallMoves ==
  ASSUME Base, NEW c \in Channels, Create(c) \/ Send(c) \/ Done(c) \/ CloseChannel(c) \/ Wait(c)
  PROVE  SomeMoves
<1>1. PICK d : d = Maker[c]
  OBVIOUS
<1>2. d \in Docs /\ c \in Mine(d)
  BY <1>1, MakerType
<1>3. d \in loaded /\ inbox' = inbox /\ UNCHANGED <<shown, loaded, source, unique_id, current, down, served, link>>
  BY <1>1 DEF Create, Send, Done, CloseChannel, Wait, frames, server
<1>4. PICK mine \in Mines : mine = Mine(d)
  BY <1>2, MineType
<1>5. PICK A0 \in SUBSET Fact : PageOK(doc[d], mine, A0)
  BY <1>3, <1>4, LoadedPhase DEF Sound
<1>6. PICK D : D = doc[d]
  OBVIOUS
<1>7. CASE Create(c)
  <2>1. D.chan[c].stage = "none" /\ Becomes(d, CreateChannel(D, c))
    BY <1>1, <1>6, <1>7 DEF Create
  <2>2. \A A \in SUBSET Fact : PageOK(D, mine, A) =>
          /\ PageOK(CreateChannel(D, c), mine, A)
          /\ D.ws # "none" => Goes(D, CreateChannel(D, c))
          /\ D.ws = "none" => Starts(D, CreateChannel(D, c))
    BY <1>2, <1>4, <2>1, CreateOK
  <2>3. PICK E : E = CreateChannel(D, c)
    OBVIOUS
  <2>4. Moves(d, E, inbox[d])
    <3>1. \A A \in SUBSET Fact : PageOK(doc[d], Mine(d), A) => PageOK(E, Mine(d), A)
      BY <1>4, <1>6, <2>2, <2>3
    <3>2. Goes(doc[d], E) \/ Starts(doc[d], E)
      BY <1>5, <1>6, <2>2, <2>3
    <3> QED BY <1>3, <3>1, <3>2, GoesMoves, StartsMoves
  <2> QED BY <1>3, <2>1, <2>3, <2>4, BecomesSome
<1>8. CASE Send(c)
  <2>1. D.chan[c].stage = "valid" /\ ~D.chan[c].sent_done /\ Becomes(d, ChannelSend(D, c))
    BY <1>1, <1>6, <1>8 DEF Send
  <2>2. \A A \in SUBSET Fact : PageOK(D, mine, A) =>
          PageOK(ChannelSend(D, c), mine, A) /\ Goes(D, ChannelSend(D, c))
    BY <1>2, <1>4, <2>1, SendOK
  <2>3. PICK E : E = ChannelSend(D, c)
    OBVIOUS
  <2>4. (\A A \in SUBSET Fact : PageOK(doc[d], Mine(d), A) => PageOK(E, Mine(d), A)) /\ Goes(doc[d], E)
    BY <1>4, <1>5, <1>6, <2>2, <2>3
  <2>5. Moves(d, E, inbox[d])
    BY <1>3, <2>4, GoesMoves
  <2> QED BY <1>3, <2>1, <2>3, <2>5, BecomesSome
<1>9. CASE Done(c)
  <2>1. /\ D.chan[c].stage # "none" /\ (D.chan[c].attached => D.chan[c].id # NoId)
        /\ Becomes(d, ChannelDone(D, c))
    BY <1>1, <1>6, <1>9 DEF Done
  <2>2. \A A \in SUBSET Fact : PageOK(D, mine, A) =>
          PageOK(ChannelDone(D, c), mine, A) /\ Goes(D, ChannelDone(D, c))
    BY <1>2, <1>4, <2>1, DoneOK
  <2>3. PICK E : E = ChannelDone(D, c)
    OBVIOUS
  <2>4. (\A A \in SUBSET Fact : PageOK(doc[d], Mine(d), A) => PageOK(E, Mine(d), A)) /\ Goes(doc[d], E)
    BY <1>4, <1>5, <1>6, <2>2, <2>3
  <2>5. Moves(d, E, inbox[d])
    BY <1>3, <2>4, GoesMoves
  <2> QED BY <1>3, <2>1, <2>3, <2>5, BecomesSome
<1>10. CASE CloseChannel(c)
  <2>1. D.chan[c].stage = "valid" /\ Becomes(d, ChannelClose(D, c, "none"))
    BY <1>1, <1>6, <1>10 DEF CloseChannel
  <2>2. PICK p \in Args : p = "none"
    BY DEF Args, Problems
  <2>3. \A A \in SUBSET Fact : PageOK(D, mine, A) =>
          PageOK(ChannelClose(D, c, p), mine, A) /\ Goes(D, ChannelClose(D, c, p))
    BY <1>2, <1>4, <2>1, CloseOK
  <2>4. PICK E : E = ChannelClose(D, c, p)
    OBVIOUS
  <2>5. (\A A \in SUBSET Fact : PageOK(doc[d], Mine(d), A) => PageOK(E, Mine(d), A)) /\ Goes(doc[d], E)
    BY <1>4, <1>5, <1>6, <2>3, <2>4
  <2>6. Moves(d, E, inbox[d])
    BY <1>3, <2>5, GoesMoves
  <2> QED BY <1>3, <2>1, <2>2, <2>4, <2>6, BecomesSome
<1>11. CASE Wait(c)
  <2>1. D.chan[c].stage # "none" /\ Becomes(d, ChannelWait(D, c))
    BY <1>1, <1>6, <1>11 DEF Wait
  <2>2. \A A \in SUBSET Fact : PageOK(D, mine, A) =>
          PageOK(ChannelWait(D, c), mine, A) /\ Goes(D, ChannelWait(D, c))
    BY <1>2, <1>4, <2>1, WaitOK
  <2>3. PICK E : E = ChannelWait(D, c)
    OBVIOUS
  <2>4. (\A A \in SUBSET Fact : PageOK(doc[d], Mine(d), A) => PageOK(E, Mine(d), A)) /\ Goes(doc[d], E)
    BY <1>4, <1>5, <1>6, <2>2, <2>3
  <2>5. Moves(d, E, inbox[d])
    BY <1>3, <2>4, GoesMoves
  <2> QED BY <1>3, <2>1, <2>3, <2>5, BecomesSome
<1> QED BY <1>7, <1>8, <1>9, <1>10, <1>11

\* A frame's transport opens.
LEMMA OpenedMoves ==
  ASSUME Base, NEW d \in Docs, Opened(d)
  PROVE  SomeMoves
<1>1. d \in loaded /\ doc[d].ws = "opening" /\ inbox' = inbox
      /\ UNCHANGED <<shown, loaded, source, unique_id, current, down, served, link>>
  BY ShellAssumption DEF Opened, frames, server
<1>2. PICK mine \in Mines : mine = Mine(d)
  BY MineType
<1>3. PICK D : D = doc[d]
  OBVIOUS
<1>4. D.out = <<>> /\ ~D.ready
  <2>1. /\ doc[d].out = <<>>
        /\ Phase(doc[d], inbox[d], source[Window(d)], current # Window(d), Sent(posted, d), TRUE)
    BY <1>1, LoadedPhase
  <2> QED BY <1>1, <1>3, <2>1 DEF Phase, Fresh, Asked, Answered, Running, Shut
<1>5. PICK E : E = SendData([D EXCEPT !.ws = "open"], Msg("init", NoId, "none"))
  OBVIOUS
<1>6. \A A \in SUBSET Fact : PageOK(D, mine, A) => PageOK(E, mine, A) /\ Opens(D, E)
  BY <1>1, <1>3, <1>4, <1>5, OpenOK
<1>7. PICK A0 \in SUBSET Fact : PageOK(D, mine, A0)
  BY <1>1, <1>2, <1>3, LoadedPhase DEF Sound
<1>8. (\A A \in SUBSET Fact : PageOK(doc[d], Mine(d), A) => PageOK(E, Mine(d), A)) /\ Opens(doc[d], E)
  BY <1>2, <1>3, <1>6, <1>7
<1>9. Moves(d, E, inbox[d])
  BY <1>1, <1>8, OpensMoves
<1>10. Becomes(d, E)
  BY <1>3, <1>5 DEF Opened
<1> QED BY <1>1, <1>9, <1>10, BecomesSome

\* A page that is about to go.
LEMMA ExpectOK ==
  ASSUME NEW mine \in Mines, NEW D \in Page(mine), NEW E, E = [D EXCEPT !.expect = TRUE]
  PROVE  /\ Goes(D, E) /\ E.out = D.out /\ E.ws = D.ws /\ E.seed = D.seed /\ E.ready = D.ready
         /\ E.waiting_for_init = D.waiting_for_init
         /\ \A A \in SUBSET Fact : PageOK(D, mine, A) => PageOK(E, mine, A)
<1>1. E \in Page(mine) /\ E.hidden = D.hidden /\ E.waiting_for_init = D.waiting_for_init
      /\ E.ws = D.ws /\ E.ready = D.ready /\ E.seed = D.seed /\ E.last = D.last
      /\ E.waiters = D.waiters /\ E.chan = D.chan /\ E.out = D.out
  BY DEF Page
<1>2. Alike(D, E)
  BY <1>1 DEF Alike
<1>3. \A A \in SUBSET Fact : PageOK(D, mine, A) => PageOK(E, mine, A)
  BY <1>1, <1>2, AlikeOK
<1>4. Goes(D, E)
  BY <1>1 DEF Goes, Same, Keeps
<1> QED BY <1>1, <1>3, <1>4

\* A frame's beforeunload.
LEMMA ExpectMoves ==
  ASSUME Base, NEW d \in Docs, BeforeUnload(d)
  PROVE  SomeMoves
<1>1. d \in loaded /\ inbox' = inbox
      /\ UNCHANGED <<shown, loaded, source, unique_id, current, down, served, link>>
  BY ShellAssumption DEF BeforeUnload, frames, server
<1>2. PICK mine \in Mines : mine = Mine(d)
  BY MineType
<1>3. PICK D \in Page(mine) : D = doc[d]
  BY <1>1, <1>2, LoadedPhase
<1>4. PICK E : E = [D EXCEPT !.expect = TRUE]
  OBVIOUS
<1>5. (\A A \in SUBSET Fact : PageOK(doc[d], Mine(d), A) => PageOK(E, Mine(d), A)) /\ Goes(doc[d], E)
  BY <1>2, <1>3, <1>4, ExpectOK
<1>6. Moves(d, E, inbox[d])
  BY <1>1, <1>5, GoesMoves
<1>7. Becomes(d, E)
  BY <1>3, <1>4 DEF BeforeUnload
<1> QED BY <1>1, <1>6, <1>7, BecomesSome

\* A message event in a frame.
LEMMA FrameMoves ==
  ASSUME Base, NEW d \in Docs, FrameMessage(d)
  PROVE  SomeMoves
<1>1. d \in loaded /\ inbox[d] # <<>>
      /\ UNCHANGED <<shown, loaded, source, unique_id, current, down, served, link>>
  BY DEF FrameMessage, frames, server
<1>2. PICK E : E = IF doc[d].ws = "none" THEN doc[d] ELSE Dispatch(doc[d], Head(inbox[d]), TRUE)
  OBVIOUS
<1>3. PICK t : t = Tail(inbox[d])
  OBVIOUS
<1>4. Moves(d, E, t) /\ t \in Seq(Message)
  BY <1>1, <1>2, <1>3, MessageMoves DEF Handles
<1>5. Becomes(d, E) /\ inbox' = [inbox EXCEPT ![d] = t]
  BY <1>2, <1>3 DEF FrameMessage
<1>6. DocMoves(d, E, t)
  BY <1>1, <1>4, <1>5, BecomesMoves
<1> QED BY <1>4, <1>6 DEF SomeMoves

----
(* Steps of the shell and of the server.                                   *)

\* The frames get no more than messages for those the router knows.
InboxGrows ==
  /\ inbox' \in [Docs -> Seq(Message)]
  /\ \A d \in Docs :
       \/ inbox'[d] = inbox[d]
       \/ /\ d \in loaded /\ source[Window(d)] # 0
          /\ \E m \in Message : m.kind \in Plain \ {"hint"} /\ Appends(inbox'[d], inbox[d], m)

\* A message for a document the router knows.
LEMMA PlainPhase ==
  ASSUME NEW D, NEW box \in Seq(Message), NEW src, src # 0, NEW hid, NEW S,
         Phase(D, box, src, hid, S, TRUE),
         NEW m \in Message, m.kind \in Plain, NEW t \in Seq(Message), Appends(t, box, m)
  PROVE  /\ m.kind # "hint" => Phase(D, t, src, hid, S, TRUE)
         /\ m.kind = "hint" => Phase(D, t, src, m.arg = "hidden", S, TRUE)
<1>1. /\ \A i \in DOMAIN box : i \in DOMAIN t /\ t[i] = box[i] /\ i # Len(box) + 1 /\ i < Len(box) + 1
      /\ \A i \in DOMAIN t : (i \in DOMAIN box /\ t[i] = box[i]) \/ (i = Len(box) + 1 /\ t[i] = m)
      /\ Len(box) + 1 \in DOMAIN t
  BY AppendsElem
<1>2. ASSUME NEW b, Final(D, box, hid) => Final(D, t, b)
      PROVE  Phase(D, t, src, b, S, TRUE)
  <2>1. CASE Answered(D, box, src, hid, S)
    <3>1. 1 \in DOMAIN box
      BY <2>1, EmptySeq DEF Answered
    <3>2. t # <<>> /\ t[1] = box[1]
      BY <1>1, <3>1
    <3>3. \A i \in DOMAIN t : i # 1 => t[i].kind \in Plain
      BY <1>1, <2>1 DEF Answered
    <3>4. Final(D, t, b)
      BY <1>2, <2>1 DEF Answered
    <3> QED BY <2>1, <3>2, <3>3, <3>4 DEF Answered, Phase
  <2>2. CASE Running(D, box, src, hid, S)
    <3>1. \A i \in DOMAIN t : t[i].kind \in Plain
      BY <1>1, <2>2 DEF Running
    <3>2. Final(D, t, b)
      BY <1>2, <2>2 DEF Running
    <3> QED BY <2>2, <3>1, <3>2 DEF Running, Phase
  <2>3. CASE Shut(D, box, src, S)
    <3>1. \A i \in DOMAIN t : t[i].kind \in Plain
      BY <1>1, <2>3 DEF Shut
    <3> QED BY <2>3, <3>1 DEF Shut, Phase
  <2> QED BY <2>1, <2>2, <2>3 DEF Phase, Fresh, Asked
<1>3. /\ m.kind # "hint" => \A c : Final(D, box, c) => Final(D, t, c)
      /\ m.kind = "hint" => Final(D, t, m.arg = "hidden")
  BY FinalAppend
<1>4. m.kind # "hint" => Phase(D, t, src, hid, S, TRUE)
  BY <1>2, <1>3
<1>5. m.kind = "hint" => Phase(D, t, src, m.arg = "hidden", S, TRUE)
  BY <1>2, <1>3
<1> QED BY <1>4, <1>5

\* The documents that were never shown are not loaded.
LEMMA NotShown ==
  ASSUME Base, NEW w \in Windows, NEW n \in DOMAIN Documents[w], n > shown[w]
  PROVE  Documents[w][n] \in Docs \ loaded
<1>1. PICK e : e = Documents[w][n]
  OBVIOUS
<1>2. e \in Docs /\ Window(e) = w
  BY <1>1, DocumentAt
<1>3. shown[w] \in Nat /\ n \in Nat
  BY ShellAssumption DEF Base, Types
<1>4. CASE e \in loaded
  <2>1. e = Documents[w][shown[w]] /\ shown[w] # 0 /\ shown[w] <= Len(Documents[w])
    BY <1>2, <1>4 DEF Base, FramesOK
  <2>2. shown[w] \in DOMAIN Documents[w]
    BY <1>3, <2>1, ShellAssumption
  <2>3. n = shown[w]
    BY <1>1, <2>1, <2>2, DocumentAt
  <2> QED BY <1>3, <2>3
<1> QED BY <1>1, <1>2, <1>4

\* Neither the frames nor what they posted change.
Still == UNCHANGED <<shown, loaded, source, unique_id, current, posted>>

\* A step of the shell's own transport or of the server keeps Base.
LEMMA TopBase ==
  ASSUME Base, NEW F, Sound(F, Mine(Top)), doc' = [doc EXCEPT ![Top] = F] \/ (doc' = doc /\ F = doc[Top]),
         Still, InboxGrows, link' = "gone" <=> link = "gone",
         up' \in Seq(Message), down' \in Seq(Message),
         served' \in SUBSET [id : Ids, group : Args, is : {"open", "done", "ended", "closed"}],
         IsFiniteSet(served'), TopOK'
  PROVE  Base'
<1>1. Types /\ FramesOK /\ NextOK /\ PostedOK /\ PhaseOK
  BY DEF Base
<1>2. UNCHANGED <<shown, loaded, source, unique_id, current, posted>>
  BY DEF Still
<1>3. /\ doc'[Top] = F /\ DOMAIN doc' = Docs \cup {Top}
      /\ \A d \in Docs : doc'[d] = doc[d]
  BY <1>1, ShellAssumption DEF Types
<1>4. Types'
  <2>1. \A d \in Docs \cup {Top} : Sound(doc'[d], Mine(d))
    BY <1>1, <1>3 DEF Types
  <2>2. inbox' \in [Docs -> Seq(Message)]
    BY DEF InboxGrows
  <2> QED BY <1>1, <1>2, <1>3, <2>1, <2>2 DEF Types
<1>5. FramesOK'
  BY <1>1, <1>2 DEF FramesOK, InWindow
<1>6. NextOK'
  <2> SUFFICES ASSUME link # "gone", NEW w \in Windows, NEW n \in DOMAIN Documents[w], n > shown[w],
                      NEW e, e = Documents[w][n]
               PROVE  doc'[e] = NewPage(Mine(e)) /\ inbox'[e] = <<>> /\ Sent(posted, e) = {}
    BY <1>2 DEF NextOK
  <2>1. e \in Docs \ loaded
    BY NotShown
  <2>2. doc[e] = NewPage(Mine(e)) /\ inbox[e] = <<>> /\ Sent(posted, e) = {}
    BY <1>1 DEF NextOK
  <2> QED BY <1>3, <2>1, <2>2 DEF InboxGrows
<1>7. PostedOK'
  BY <1>1, <1>2 DEF PostedOK
<1>8. PhaseOK'
  <2> SUFFICES ASSUME NEW d \in Docs
               PROVE  Phase(doc[d], inbox'[d], source[Window(d)], current # Window(d),
                            Sent(posted, d), d \in loaded)
    BY <1>2, <1>3 DEF PhaseOK
  <2>1. Phase(doc[d], inbox[d], source[Window(d)], current # Window(d), Sent(posted, d), d \in loaded)
    BY <1>1 DEF PhaseOK
  <2>2. CASE inbox'[d] = inbox[d]
    BY <2>1, <2>2
  <2>3. CASE inbox'[d] # inbox[d]
    <3>1. PICK m \in Message : m.kind \in Plain \ {"hint"} /\ Appends(inbox'[d], inbox[d], m)
      BY <2>3 DEF InboxGrows
    <3>2. d \in loaded /\ source[Window(d)] # 0
      BY <2>3 DEF InboxGrows
    <3>3. inbox[d] \in Seq(Message) /\ inbox'[d] \in Seq(Message)
      BY <1>1 DEF Types, InboxGrows
    <3>4. PICK src, t, box : src = source[Window(d)] /\ t = inbox'[d] /\ box = inbox[d]
      OBVIOUS
    <3>6. Phase(doc[d], box, src, current # Window(d), Sent(posted, d), TRUE)
      BY <2>1, <3>2, <3>4 DEF Phase
    <3>7. Phase(doc[d], t, src, current # Window(d), Sent(posted, d), TRUE)
      BY <3>1, <3>2, <3>3, <3>4, <3>6, PlainPhase
    <3> QED BY <3>2, <3>4, <3>7 DEF Phase
  <2> QED BY <2>2, <2>3
<1> QED BY <1>4, <1>5, <1>6, <1>7, <1>8 DEF Base

\* The elements of two sequences, one after the other.
LEMMA CatElem ==
  ASSUME NEW q \in Seq(Message), NEW r \in Seq(Message), NEW t, IsCat(t, q, r)
  PROVE  /\ t \in Seq(Message) /\ Len(t) = Len(q) + Len(r)
         /\ \A i \in DOMAIN q : i \in DOMAIN t /\ t[i] = q[i] /\ i <= Len(q)
         /\ \A i \in DOMAIN t : \/ i \in DOMAIN q /\ t[i] = q[i]
                                \/ \E j \in DOMAIN r : i = Len(q) + j /\ t[i] = r[j]
         /\ \A j \in DOMAIN r : Len(q) + j \in DOMAIN t /\ t[Len(q) + j] = r[j]
<1>1. PICK a \in Nat, b \in Nat : a = Len(q) /\ b = Len(r) /\ DOMAIN q = 1..a /\ DOMAIN r = 1..b
  OBVIOUS
<1>2. DOMAIN t = 1..(a + b) /\ (\A i \in 1..a : t[i] = q[i]) /\ (\A i \in 1..b : t[a + i] = r[i])
  BY <1>1 DEF IsCat
<1>3. \A i \in DOMAIN q : i \in DOMAIN t /\ t[i] = q[i] /\ i <= Len(q)
  BY <1>1, <1>2
<1>4. \A j \in DOMAIN r : Len(q) + j \in DOMAIN t /\ t[Len(q) + j] = r[j]
  BY <1>1, <1>2
<1>5. ASSUME NEW i \in DOMAIN t
      PROVE  \/ i \in DOMAIN q /\ t[i] = q[i]
             \/ \E j \in DOMAIN r : i = Len(q) + j /\ t[i] = r[j]
  <2>1. CASE i <= a
    BY <1>1, <1>2, <2>1
  <2>2. CASE ~(i <= a)
    <3>1. PICK j \in 1..b : i = a + j
      <4>1. i - a \in 1..b /\ i = a + (i - a)
        BY <1>2, <2>2
      <4> QED BY <4>1
    <3>2. j \in DOMAIN r /\ i = Len(q) + j
      BY <1>1, <3>1
    <3> QED BY <1>4, <3>2
  <2> QED BY <2>1, <2>2
<1>6. t \in Seq(Message) /\ Len(t) = Len(q) + Len(r)
  BY DEF IsCat
<1> QED BY <1>3, <1>4, <1>5, <1>6

\* The shell's own page.
LEMMA TopPage ==
  ASSUME Base
  PROVE  /\ Sound(doc[Top], Mine(Top)) /\ doc[Top] \in Page(Mine(Top)) /\ doc[Top].out = <<>>
         /\ Mine(Top) \in Mines /\ Top \notin Docs /\ Top \in Docs \cup {Top}
         /\ up \in Seq(Message) /\ down \in Seq(Message)
<1>1. Sound(doc[Top], Mine(Top)) /\ up \in Seq(Message) /\ down \in Seq(Message)
  BY DEF Base, Types
<1> QED BY <1>1, MineType, ShellAssumption DEF Sound, PageOK

\* send_data of the shell's transport.
LEMMA TopSends ==
  ASSUME Base, NEW m \in Message, NEW E, E = SendData(doc[Top], m)
  PROVE  /\ [E EXCEPT !.out = <<>>] = doc[Top]
         /\ E.out = IF doc[Top].ws = "null" THEN <<>> ELSE <<m>>
<1>1. PICK T \in Page(Mine(Top)) : T = doc[Top] /\ T.out = <<>>
  BY TopPage
<1>2. E = IF T.ws = "null" THEN T ELSE [T EXCEPT !.out = Append(<<>>, m)]
  BY <1>1 DEF SendData
<1>3. Append(<<>>, m) = <<m>>
  OBVIOUS
<1>4. CASE T.ws = "null"
  <2>1. E = T
    BY <1>2, <1>4
  <2>2. [T EXCEPT !.out = <<>>] = T
    BY <1>1 DEF Page
  <2> QED BY <1>1, <1>4, <2>1, <2>2
<1>5. CASE T.ws # "null"
  <2>1. PICK o : o = <<m>>
    OBVIOUS
  <2>2. E = [T EXCEPT !.out = o]
    BY <1>2, <1>3, <1>5, <2>1
  <2>3. E.out = o /\ [E EXCEPT !.out = <<>>] = T
    BY <1>1, <2>2 DEF Page
  <2> QED BY <1>1, <1>5, <2>1, <2>3
<1> QED BY <1>4, <1>5

\* What the shell sends goes to the end of up.
LEMMA UpCat ==
  ASSUME NEW s \in Seq(Message), NEW q \in Seq(Message)
  PROVE  /\ s \o q \in Seq(Message) /\ IsCat(s \o q, s, q)
         /\ q = <<>> => s \o q = s
<1>1. s \o q \in Seq(Message) /\ IsCat(s \o q, s, q)
  BY CatIsCat
<1>2. ASSUME q = <<>>
      PROVE  s \o q = s
  BY <1>2
<1> QED BY <1>1, <1>2

\* The WebSocket opens.
LEMMA TopOpened ==
  ASSUME Base, Opened(Top)
  PROVE  Base'
<1>1. PICK mine \in Mines : mine = Mine(Top)
  BY TopPage
<1>2. PICK T \in Page(mine) : T = doc[Top] /\ T.out = <<>> /\ T.ws = "opening" /\ Sound(T, mine)
  BY <1>1, TopPage DEF Opened
<1>3. /\ T.waiting_for_init /\ up = <<>> /\ down = <<>> /\ ~T.ready /\ served = {} /\ T.seed = 0
      /\ \A w \in Windows : source[w] = 0
  BY <1>2 DEF Base, TopOK
<1>4. PICK E : E = SendData([T EXCEPT !.ws = "open"], Msg("init", NoId, "none"))
  OBVIOUS
<1>5. \A A \in SUBSET Fact : PageOK(T, mine, A) => PageOK(E, mine, A) /\ Opens(T, E)
  BY <1>2, <1>3, <1>4, OpenOK
<1>6. Opens(T, E) /\ E \in Page(mine)
  BY <1>2, <1>5 DEF Sound, PageOK
<1>7. PICK m \in Message : m = Msg("init", NoId, "none") /\ m.kind = "init"
  <2>1. NoId \in Ids
    BY IdType DEF NoId
  <2> QED BY <2>1, MsgType DEF Kinds, Talk, Args, Problems
<1>8. PICK q \in Seq(Message) : q = E.out /\ q = <<m>>
  BY <1>6, <1>7, OneType DEF Opens
<1>9. PICK F : F = [E EXCEPT !.out = <<>>]
  OBVIOUS
<1>10. Sound(F, mine)
  <2>1. \A i \in DOMAIN E.out : E.out[i].kind \notin {"open", "done", "close"}
    BY <1>7, <1>8
  <2> QED BY <1>2, <1>3, <1>5, <1>9, <2>1, SoundStep
<1>11. F.ws = "open" /\ F.seed = 0 /\ F.waiting_for_init /\ ~F.ready
  BY <1>3, <1>6, <1>9 DEF Opens, Page
<1>12. /\ doc' = [doc EXCEPT ![Top] = F] /\ (up' = IF link = "up" THEN up \o q ELSE up) /\ posted' = posted
       /\ inbox' = inbox /\ UNCHANGED <<shown, loaded, source, unique_id, current, down, served, link>>
  BY <1>2, <1>4, <1>8, <1>9 DEF Opened, Becomes, frames, server
<1>13. up' = <<>> \/ up' = q
  BY <1>3, <1>12
<1>14. up' \in Seq(Message) /\ down' \in Seq(Message) /\ doc'[Top] = F
  BY <1>12, <1>13, TopPage, EmptySeq DEF Base, Types
<1>15. Len(up') <= 1 /\ Len(up') \in Nat /\ (\A i \in DOMAIN up' : up'[i].kind = "init")
       /\ (link # "up" => up' = <<>>)
  BY <1>3, <1>7, <1>8, <1>12, <1>13
<1>16. TopOK'
  <2>1. Len(down') = 0 /\ (\A i \in DOMAIN down' : FALSE) /\ served' = {} /\ source' = source /\ link' = link
    BY <1>3, <1>12
  <2>2. link # "up" => \A i \in DOMAIN up' : up'[i].kind # "init"
    BY <1>15
  <2> QED BY <1>3, <1>11, <1>14, <1>15, <2>1, <2>2 DEF TopOK
<1>17. Still /\ InboxGrows
  BY <1>12 DEF Still, InboxGrows, Base, Types
<1>18. IsFiniteSet(served') /\ served' \in SUBSET [id : Ids, group : Args, is : {"open", "done", "ended", "closed"}]
  BY <1>12 DEF Base, Types
<1> QED BY <1>1, <1>10, <1>12, <1>14, <1>16, <1>17, <1>18, TopBase

\* The shell's own beforeunload.
LEMMA TopExpects ==
  ASSUME Base, BeforeUnload(Top)
  PROVE  \E E : /\ doc' = [doc EXCEPT ![Top] = [E EXCEPT !.out = <<>>]]
                /\ E.out = <<>> /\ E.ws = doc[Top].ws /\ E.seed = doc[Top].seed /\ E.ready = doc[Top].ready
                /\ E.waiting_for_init = doc[Top].waiting_for_init /\ E \in Page(Mine(Top))
                /\ \A A \in SUBSET Fact : PageOK(doc[Top], Mine(Top), A) => PageOK(E, Mine(Top), A)
                /\ UNCHANGED <<shown, loaded, source, unique_id, current, up, down, served, confused, link,
                               posted, inbox>>
<1>1. PICK mine \in Mines : mine = Mine(Top)
  BY TopPage
<1>2. PICK T \in Page(mine) : T = doc[Top] /\ T.out = <<>>
  BY <1>1, TopPage
<1>3. PICK E : E = [T EXCEPT !.expect = TRUE]
  OBVIOUS
<1>4. /\ E.out = <<>> /\ E.ws = T.ws /\ E.seed = T.seed /\ E.ready = T.ready
      /\ E.waiting_for_init = T.waiting_for_init
      /\ \A A \in SUBSET Fact : PageOK(T, mine, A) => PageOK(E, mine, A)
  BY <1>2, <1>3, ExpectOK
<1>5. E \in Page(mine)
  BY <1>2, <1>3 DEF Page
<1>6. /\ doc' = [doc EXCEPT ![Top] = [E EXCEPT !.out = <<>>]]
      /\ (up' = IF link = "up" THEN up \o E.out ELSE up) /\ posted' = posted /\ inbox' = inbox
      /\ UNCHANGED <<shown, loaded, source, unique_id, current, down, served, confused, link>>
  BY <1>2, <1>3 DEF BeforeUnload, Becomes, frames, server
<1>7. up \o <<>> = up
  BY TopPage
<1> QED BY <1>1, <1>2, <1>4, <1>5, <1>6, <1>7

\* It leaves the transport as it is.
LEMMA ExpectBase ==
  ASSUME Base, BeforeUnload(Top)
  PROVE  Base'
<1>1. PICK E : /\ doc' = [doc EXCEPT ![Top] = [E EXCEPT !.out = <<>>]]
               /\ E.out = <<>> /\ E.ws = doc[Top].ws /\ E.seed = doc[Top].seed /\ E.ready = doc[Top].ready
               /\ E.waiting_for_init = doc[Top].waiting_for_init /\ E \in Page(Mine(Top))
               /\ \A A \in SUBSET Fact : PageOK(doc[Top], Mine(Top), A) => PageOK(E, Mine(Top), A)
               /\ UNCHANGED <<shown, loaded, source, unique_id, current, up, down, served, confused, link,
                              posted, inbox>>
  BY TopExpects
<1>2. PICK mine \in Mines : mine = Mine(Top)
  BY TopPage
<1>3. PICK T : T = doc[Top] /\ Sound(T, mine)
  BY <1>2, TopPage
<1>4. PICK F : F = [E EXCEPT !.out = <<>>]
  OBVIOUS
<1>5. Sound(F, mine)
  <2>1. \A A \in SUBSET Fact : PageOK(T, mine, A) /\ (~T.ready => A = {}) => PageOK(E, mine, A)
    BY <1>1, <1>2, <1>3
  <2>2. ~E.ready => ~T.ready /\ \A i \in DOMAIN E.out : E.out[i].kind \notin {"open", "done", "close"}
    BY <1>1, <1>3
  <2> QED BY <1>3, <1>4, <2>1, <2>2, SoundStep
<1>6. /\ F.ws = T.ws /\ F.seed = T.seed /\ F.ready = T.ready /\ F.waiting_for_init = T.waiting_for_init
  BY <1>1, <1>2, <1>3, <1>4 DEF Page
<1>7. doc'[Top] = F
  BY <1>1, <1>4 DEF Base, Types
<1>8. TopOK'
  BY <1>1, <1>3, <1>6, <1>7 DEF Base, TopOK
<1>9. Still /\ InboxGrows
  BY <1>1 DEF Still, InboxGrows, Base, Types
<1>10. /\ IsFiniteSet(served') /\ served' \in SUBSET [id : Ids, group : Args, is : {"open", "done", "ended", "closed"}]
       /\ up' \in Seq(Message) /\ down' \in Seq(Message)
  BY <1>1 DEF Base, Types
<1> QED BY <1>1, <1>2, <1>4, <1>5, <1>8, <1>9, <1>10, TopBase

\* A message goes to the server, and no init is waited for.
LEMMA UpKinds ==
  ASSUME Base, NEW q \in Seq(Message), \A i \in DOMAIN q : q[i].kind \in Talk \cup {"kill", "logout"},
         NEW u, u = up \/ u = up \o q
  PROVE  /\ u \in Seq(Message)
         /\ \A i \in DOMAIN u : u[i].kind \in Talk \cup {"init", "kill", "logout"}
         /\ (\A i \in DOMAIN up : up[i].kind # "init") => \A i \in DOMAIN u : u[i].kind # "init"
<1>1. up \in Seq(Message) /\ \A i \in DOMAIN up : up[i].kind \in Talk \cup {"init", "kill", "logout"}
  BY DEF Base, Types, TopOK
<1>2. CASE u = up
  BY <1>1, <1>2
<1>3. CASE u = up \o q
  <2>1. IsCat(u, up, q)
    BY <1>1, <1>3, UpCat
  <2>2. /\ u \in Seq(Message)
        /\ \A i \in DOMAIN u : \/ i \in DOMAIN up /\ u[i] = up[i]
                               \/ \E j \in DOMAIN q : i = Len(up) + j /\ u[i] = q[j]
    BY <1>1, <2>1, CatElem
  <2> QED BY <1>1, <2>2 DEF Talk
<1> QED BY <1>2, <1>3

\* cockpit.logout
LEMMA LogoutBase ==
  ASSUME Base, Logout
  PROVE  Base'
<1>1. PICK m \in Message : m = Msg("logout", NoId, "none") /\ m.kind = "logout"
  <2>1. NoId \in Ids
    BY IdType DEF NoId
  <2> QED BY <2>1, MsgType DEF Kinds, Talk, Args, Problems
<1>2. PICK E : E = SendData(doc[Top], m)
  OBVIOUS
<1>3. [E EXCEPT !.out = <<>>] = doc[Top] /\ E.out = <<m>>
  BY <1>2, TopSends DEF Logout
<1>4. PICK q \in Seq(Message) : q = E.out /\ q = <<m>>
  BY <1>3, OneType
<1>5. /\ doc' = [doc EXCEPT ![Top] = doc[Top]] /\ up' = up \o q /\ posted' = posted
      /\ inbox' = inbox /\ UNCHANGED <<shown, loaded, source, unique_id, current, down, served, link>>
      /\ link = "up" /\ doc[Top].ws # "null" /\ doc[Top].ready
  BY <1>1, <1>2, <1>3, <1>4 DEF Logout, Becomes, frames
<1>6. doc[Top].ws = "open" /\ ~doc[Top].waiting_for_init /\ doc[Top].seed = 0
      /\ \A i \in DOMAIN up : up[i].kind # "init"
  BY <1>5 DEF Base, TopOK
<1>7. /\ up' \in Seq(Message) /\ (\A i \in DOMAIN up' : up'[i].kind \in Talk \cup {"init", "kill", "logout"})
      /\ \A i \in DOMAIN up' : up'[i].kind # "init"
  <2>1. \A i \in DOMAIN q : q[i].kind \in Talk \cup {"kill", "logout"}
    BY <1>1, <1>4
  <2> QED BY <1>5, <1>6, <2>1, UpKinds
<1>8. doc'[Top] = doc[Top]
  BY <1>5 DEF Base, Types
<1>9. TopOK'
  BY <1>5, <1>6, <1>7, <1>8 DEF Base, TopOK
<1>10. Still /\ InboxGrows
  BY <1>5 DEF Still, InboxGrows, Base, Types
<1>11. /\ IsFiniteSet(served') /\ served' \in SUBSET [id : Ids, group : Args, is : {"open", "done", "ended", "closed"}]
       /\ down' \in Seq(Message) /\ Sound(doc[Top], Mine(Top))
  BY <1>5 DEF Base, Types
<1> QED BY <1>5, <1>7, <1>9, <1>10, <1>11, TopBase

\* The shell's transport is closed.
LEMMA TopCloses ==
  ASSUME Base, NEW p \in Args, NEW F, F = [TransportClose(doc[Top], p, FALSE) EXCEPT !.out = <<>>]
  PROVE  /\ Sound(F, Mine(Top)) /\ F.ws = "null" /\ F.seed = doc[Top].seed
         /\ Keeps(doc[Top], F)
         /\ TransportClose(doc[Top], p, FALSE).out = <<>>
<1>1. PICK mine \in Mines : mine = Mine(Top)
  BY TopPage
<1>2. PICK T \in Page(mine) : T = doc[Top] /\ T.out = <<>> /\ Sound(T, mine)
  BY <1>1, TopPage
<1>3. PICK E : E = TransportClose(T, p, FALSE)
  OBVIOUS
<1>4. PICK frame \in BOOLEAN : frame = FALSE
  OBVIOUS
<1>5. \A A \in SUBSET Fact : PageOK(T, mine, A) => PageOK(E, mine, A) /\ Ends(T, E, FALSE)
  <2>1. \A A \in SUBSET Fact : PageOK(T, mine, A) =>
          PageOK(TransportClose(T, p, frame), mine, A) /\ Ends(T, TransportClose(T, p, frame), frame)
    BY TransportCloseOK
  <2> QED BY <1>3, <1>4, <2>1
<1>6. Ends(T, E, FALSE) /\ E \in Page(mine)
  BY <1>2, <1>5 DEF Sound, PageOK
<1>7. E.ws = "null" /\ (T.ready => E.ready) /\ E.seed = T.seed /\ E.out = <<>> /\ Keeps(T, E)
  BY <1>2, <1>6 DEF Ends
<1>8. F = [E EXCEPT !.out = <<>>]
  BY <1>2, <1>3
<1>9. Sound(F, mine)
  <2>1. \A A \in SUBSET Fact : PageOK(T, mine, A) /\ (~T.ready => A = {}) => PageOK(E, mine, A)
    BY <1>5
  <2>2. ~E.ready => ~T.ready /\ \A i \in DOMAIN E.out : E.out[i].kind \notin {"open", "done", "close"}
    BY <1>7
  <2>3. Sound([E EXCEPT !.out = <<>>], mine)
    BY <1>2, <2>1, <2>2, SoundStep
  <2> QED BY <1>8, <2>3
<1>10. F.ws = "null" /\ F.seed = T.seed /\ F.chan = E.chan
  BY <1>6, <1>7, <1>8 DEF Page
<1>11. Keeps(T, F)
  BY <1>7, <1>10 DEF Keeps
<1> QED BY <1>1, <1>2, <1>3, <1>7, <1>9, <1>10, <1>11

\* The health check gives up the connection.
LEMMA HealthBase ==
  ASSUME Base, HealthCheck
  PROVE  Base'
<1>1. PICK p \in Args : p = "timeout"
  BY DEF Args, Problems
<1>2. PICK F : F = [TransportClose(doc[Top], p, FALSE) EXCEPT !.out = <<>>]
  OBVIOUS
<1>3. Sound(F, Mine(Top)) /\ F.ws = "null" /\ F.seed = doc[Top].seed
  BY <1>2, TopCloses
<1>4. /\ doc' = [doc EXCEPT ![Top] = F] /\ up' = <<>> /\ down' = <<>> /\ served' = {} /\ link' = "lost"
      /\ posted' = posted /\ inbox' = inbox /\ link \in {"up", "silent"}
      /\ UNCHANGED <<shown, loaded, source, unique_id, current>>
  BY <1>1, <1>2 DEF HealthCheck, frames
<1>5. doc'[Top] = F /\ F.seed = 0
  BY <1>3, <1>4 DEF Base, Types, TopOK
<1>6. TopOK'
  <2>1. (\A i \in DOMAIN up' : FALSE) /\ (\A i \in DOMAIN down' : FALSE)
    BY <1>4
  <2> QED BY <1>3, <1>4, <1>5, <2>1 DEF TopOK
<1>7. Still /\ InboxGrows
  BY <1>4 DEF Still, InboxGrows, Base, Types
<1>8. /\ IsFiniteSet(served') /\ served' \in SUBSET [id : Ids, group : Args, is : {"open", "done", "ended", "closed"}]
      /\ down' \in Seq(Message) /\ up' \in Seq(Message)
  BY <1>4, EmptySeq, FS_EmptySet
<1> QED BY <1>3, <1>4, <1>6, <1>7, <1>8, TopBase

\* onclose of the WebSocket, of a page that stays.
LEMMA ClosedBase ==
  ASSUME Base, SocketClosed, ~leaving
  PROVE  Base'
<1>1. PICK p \in Args : p = "disconnected"
  BY DEF Args, Problems
<1>2. PICK F : F = [TransportClose(doc[Top], p, FALSE) EXCEPT !.out = <<>>]
  OBVIOUS
<1>3. Sound(F, Mine(Top)) /\ F.ws = "null" /\ F.seed = doc[Top].seed
  BY <1>2, TopCloses
<1>4. /\ doc' = [doc EXCEPT ![Top] = F] /\ up' = up /\ down' = <<>> /\ served' = served /\ link' = "closed"
      /\ posted' = posted /\ inbox' = inbox /\ link = "lost"
      /\ UNCHANGED <<shown, loaded, source, unique_id, current>>
  BY <1>1, <1>2 DEF SocketClosed
<1>5. doc'[Top] = F /\ F.seed = 0
  BY <1>3, <1>4 DEF Base, Types, TopOK
<1>6. TopOK'
  <2>1. /\ \A i \in DOMAIN up : up[i].kind \in Talk \cup {"init", "kill", "logout"}
        /\ \A i \in DOMAIN up : up[i].kind # "init"
    BY <1>4 DEF Base, TopOK
  <2>2. \A i \in DOMAIN down' : FALSE
    BY <1>4
  <2> QED BY <1>3, <1>4, <1>5, <2>1, <2>2 DEF TopOK
<1>7. Still /\ InboxGrows
  BY <1>4 DEF Still, InboxGrows, Base, Types
<1>8. /\ IsFiniteSet(served') /\ served' \in SUBSET [id : Ids, group : Args, is : {"open", "done", "ended", "closed"}]
      /\ down' \in Seq(Message) /\ up' \in Seq(Message)
  BY <1>4, EmptySeq DEF Base, Types
<1> QED BY <1>3, <1>4, <1>6, <1>7, <1>8, TopBase

\* What the incoming filter does to the inboxes.
LEMMA FilterGrows ==
  ASSUME Types, NEW m \in Message, m.kind \in {"init", "ready", "done", "close", "data"},
         inbox' = RouterFilter(m).box
  PROVE  InboxGrows
<1>1. inbox \in [Docs -> Seq(Message)] /\ source \in [Windows -> Nat]
  BY DEF Types
<1>2. ASSUME NEW ws \in SUBSET Registered, inbox' = Posted(inbox, ws, m), m.kind \in Plain \ {"hint"}
      PROVE  InboxGrows
  <2>1. ASSUME NEW d \in Docs
        PROVE  /\ inbox'[d] \in Seq(Message)
               /\ \/ inbox'[d] = inbox[d]
                  \/ d \in loaded /\ source[Window(d)] # 0 /\ Appends(inbox'[d], inbox[d], m)
    <3>1. PICK box \in Seq(Message) : box = inbox[d]
      BY <1>1
    <3>2. Appends(Append(box, m), box, m) /\ Append(box, m) \in Seq(Message)
      BY AppendAppends
    <3>3. CASE d \in loaded /\ Window(d) \in ws
      <4>1. inbox'[d] = Append(box, m)
        BY <1>2, <3>1, <3>3 DEF Posted
      <4>2. source[Window(d)] # 0
        BY <1>2, <3>3 DEF Registered
      <4> QED BY <3>1, <3>2, <3>3, <4>1, <4>2
    <3>4. CASE ~(d \in loaded /\ Window(d) \in ws)
      <4>1. inbox'[d] = box
        BY <1>2, <3>1, <3>4 DEF Posted
      <4> QED BY <3>1, <4>1
    <3> QED BY <3>3, <3>4
  <2>2. inbox' = [d \in Docs |-> inbox'[d]]
    BY <1>2 DEF Posted
  <2>3. inbox' \in [Docs -> Seq(Message)]
    BY <2>1, <2>2
  <2> QED BY <1>2, <2>1, <2>3 DEF InboxGrows
<1>3. CASE inbox' = inbox
  BY <1>1, <1>3 DEF InboxGrows
<1>4. CASE inbox' # inbox
  <2>1. PICK owner \in SUBSET Registered : owner = {w \in Registered : source[w] = m.id[1]}
    OBVIOUS
  <2>2. CASE m.kind \in {"ready", "done", "close"}
    <3>1. inbox' = Posted(inbox, Registered, m)
      BY <2>2 DEF RouterFilter
    <3> QED BY <1>2, <2>2, <3>1 DEF Plain
  <2>3. CASE m.kind \notin {"ready", "done", "close"}
    <3>1. inbox' = Posted(inbox, owner, m) /\ m.kind = "data"
      BY <1>4, <2>1, <2>3 DEF RouterFilter
    <3> QED BY <1>2, <3>1 DEF Plain
  <2> QED BY <2>2, <2>3
<1> QED BY <1>3, <1>4

\* What a message makes of the shell's page.
TopTells(E) ==
  LET T == doc[Top] m == down[1] IN
  \/ Inits(T, m, E)
  \/ /\ Quits(T, E, FALSE)
     /\ IF m.kind = "init" THEN m.arg # "none" ELSE T.waiting_for_init /\ m.kind # "data"
  \/ Tells(T, m, E)

\* The facts the shell's page may know when its init comes.
TopFits(A) == doc[Top].waiting_for_init /\ doc[Top].ws # "null" => \A f \in A : f[2][1] # 0

\* A message for the shell's own page.
LEMMA TopDispatch ==
  ASSUME Base, down # <<>>, NEW E,
         E = Dispatch(doc[Top], down[1], FALSE) \/ (E = doc[Top] /\ down[1].kind = "data")
  PROVE  /\ \A A \in SUBSET Fact : PageOK(doc[Top], Mine(Top), A) /\ TopFits(A) => PageOK(E, Mine(Top), A)
         /\ TopTells(E) /\ Sound([E EXCEPT !.out = <<>>], Mine(Top)) /\ E \in Page(Mine(Top))
<1>1. PICK mine \in Mines : mine = Mine(Top)
  BY TopPage
<1>2. PICK T \in Page(mine) : T = doc[Top] /\ T.out = <<>> /\ Sound(T, mine)
  BY <1>1, TopPage
<1>3. PICK m \in Message : m = down[1]
  <2>1. down \in Seq(Message)
    BY DEF Base, Types
  <2> QED BY <2>1, EmptySeq
<1>4. 1 \in DOMAIN down
  <2>1. down \in Seq(Message)
    BY DEF Base, Types
  <2> QED BY <2>1, EmptySeq
<1>5. m.kind \in Incoming /\ (m.kind = "init" => /\ T.ws = "open" /\ T.waiting_for_init /\ ~T.ready /\ m.id = NoId)
  BY <1>2, <1>3, <1>4 DEF Base, TopOK, Incoming
<1>6. PICK frame \in BOOLEAN : frame = FALSE
  OBVIOUS
<1>7. ASSUME NEW A \in SUBSET Fact, PageOK(T, mine, A), TopFits(A)
      PROVE  /\ PageOK(E, mine, A)
             /\ \/ Inits(T, m, E)
                \/ /\ Quits(T, E, FALSE)
                   /\ IF m.kind = "init" THEN m.arg # "none" ELSE T.waiting_for_init /\ m.kind # "data"
                \/ Tells(T, m, E)
  <2>1. CASE E = Dispatch(doc[Top], down[1], FALSE)
    <3>1. Welcome(T, m, A)
      <4>1. NoId[1] = 0
        BY DEF NoId
      <4> QED BY <1>2, <1>5, <1>7, <4>1 DEF Welcome, TopFits
    <3>2. PICK G : G = Dispatch(T, m, frame)
      OBVIOUS
    <3>3. /\ PageOK(G, mine, A)
          /\ \/ Inits(T, m, G)
             \/ /\ Quits(T, G, frame)
                /\ IF m.kind = "init" THEN m.arg # "none" ELSE T.waiting_for_init /\ m.kind # "data"
             \/ Tells(T, m, G)
      BY <1>2, <1>5, <1>7, <3>1, <3>2, DispatchOK
    <3>4. E = G
      BY <1>2, <1>3, <1>6, <2>1, <3>2
    <3> QED BY <1>6, <3>3, <3>4
  <2>2. CASE E = doc[Top] /\ down[1].kind = "data"
    <3>1. Goes(T, T)
      BY DEF Goes, Same, Keeps
    <3>2. Tells(T, m, T)
      BY <1>2, <1>3, <2>2, <3>1, GoesTells
    <3> QED BY <1>2, <1>7, <2>2, <3>2
  <2> QED BY <2>1, <2>2
<1>8. \A A \in SUBSET Fact : PageOK(T, mine, A) /\ (~T.ready => A = {}) => TopFits(A)
  <2>1. T.waiting_for_init /\ T.ws # "null" => ~T.ready
    BY <1>2 DEF Base, TopOK
  <2> QED BY <1>2, <2>1 DEF TopFits
<1>9. TopTells(E) /\ E \in Page(mine)
  <2>1. PICK A \in SUBSET Fact : PageOK(T, mine, A) /\ (~T.ready => A = {})
    BY <1>2 DEF Sound
  <2>2. TopFits(A)
    BY <1>8, <2>1
  <2> QED BY <1>2, <1>3, <1>7, <2>1, <2>2 DEF TopTells, PageOK
<1>10. ~E.ready => ~T.ready /\ E.out = <<>>
  BY <1>2, <1>9 DEF TopTells, Inits, Quits, Tells
<1>11. ~E.ready => ~T.ready /\ \A i \in DOMAIN E.out : E.out[i].kind \notin {"open", "done", "close"}
  BY <1>10
<1>12. \A A \in SUBSET Fact : PageOK(T, mine, A) /\ (~T.ready => A = {}) => PageOK(E, mine, A)
  BY <1>7, <1>8
<1>13. Sound([E EXCEPT !.out = <<>>], mine)
  BY <1>2, <1>11, <1>12, SoundStep
<1> QED BY <1>1, <1>2, <1>7, <1>9, <1>13

\* What SocketMessage does, in one piece.
TopHears(E) ==
  /\ link \in {"up", "silent", "lost"} /\ down # <<>> /\ down' = Tail(down)
  /\ E = Dispatch(doc[Top], down[1], FALSE) \/ (E = doc[Top] /\ down[1].kind = "data")
  /\ doc' = [doc EXCEPT ![Top] = [E EXCEPT !.out = <<>>]]
  /\ up' = IF link = "up" THEN up \o E.out ELSE up
  /\ InboxGrows /\ Still
  /\ UNCHANGED <<served, confused, link>>

\* SocketMessage is such a step.
LEMMA SocketHears ==
  ASSUME Base, SocketMessage
  PROVE  \E E : TopHears(E)
<1>1. down # <<>> /\ down \in Seq(Message)
  BY DEF SocketMessage, Base, Types
<1>2. Head(down) = down[1] /\ down[1] \in Message /\ 1 \in DOMAIN down
  BY <1>1, TailTails
<1>3. PICK m \in Message : m = down[1]
  BY <1>2
<1>4. PICK E : E = IF RouterFilter(m).local THEN Dispatch(doc[Top], m, FALSE) ELSE doc[Top]
  OBVIOUS
<1>5. m.kind \in {"init", "ready", "done", "close", "data"}
  BY <1>2, <1>3 DEF Base, TopOK
<1>6. /\ link \in {"up", "silent", "lost"} /\ down' = Tail(down) /\ inbox' = RouterFilter(m).box /\ Becomes(Top, E)
      /\ UNCHANGED <<shown, loaded, source, unique_id, current, served, confused, link>>
  BY <1>2, <1>3, <1>4 DEF SocketMessage, frames
<1>7. InboxGrows
  BY <1>5, <1>6, FilterGrows DEF Base
<1>8. RouterFilter(m).local \/ m.kind = "data"
  BY DEF RouterFilter
<1>9. E = Dispatch(doc[Top], down[1], FALSE) \/ (E = doc[Top] /\ down[1].kind = "data")
  BY <1>3, <1>4, <1>8
<1>10. /\ doc' = [doc EXCEPT ![Top] = [E EXCEPT !.out = <<>>]]
       /\ up' = (IF link = "up" THEN up \o E.out ELSE up) /\ posted' = posted
  BY <1>6 DEF Becomes
<1>11. TopHears(E)
  BY <1>1, <1>6, <1>7, <1>9, <1>10 DEF TopHears, Still
<1> QED BY <1>11

\* A message on the WebSocket keeps Base.
LEMMA HearsBase ==
  ASSUME Base, NEW E, TopHears(E)
  PROVE  Base'
<1>1. /\ Sound([E EXCEPT !.out = <<>>], Mine(Top)) /\ E \in Page(Mine(Top)) /\ TopTells(E)
  BY TopDispatch DEF TopHears
<1>2. PICK F : F = [E EXCEPT !.out = <<>>]
  OBVIOUS
<1>3. Sound(F, Mine(Top)) /\ F.ws = E.ws /\ F.seed = E.seed /\ F.ready = E.ready
      /\ F.waiting_for_init = E.waiting_for_init
  BY <1>1, <1>2 DEF Page
<1>4. PICK q \in Seq(Message) : q = E.out
  BY <1>1 DEF Page
<1>5. /\ doc' = [doc EXCEPT ![Top] = F] /\ (up' = IF link = "up" THEN up \o q ELSE up) /\ down' = Tail(down)
      /\ served' = served /\ link' = link /\ link \in {"up", "silent", "lost"} /\ InboxGrows /\ Still /\ down # <<>>
  BY <1>2, <1>4 DEF TopHears
<1>6. /\ Tails(down', down) /\ down' \in Seq(Message) /\ 1 \in DOMAIN down /\ down \in Seq(Message)
      /\ up \in Seq(Message)
  BY <1>5, TailTails DEF Base, Types
<1>7. PICK m : m = down[1]
  OBVIOUS
<1>8. PICK T : T = doc[Top] /\ T.out = <<>>
  BY TopPage
<1>9. /\ T.ws \in {"opening", "open", "null"} /\ T.seed = 0
      /\ T.ws # "opening"
      /\ T.ws # "null" /\ T.waiting_for_init => m.kind = "init" /\ m.id = NoId /\ up = <<>> /\ Len(down) = 1 /\ served = {}
      /\ m.kind = "init" => T.ws = "open" /\ T.waiting_for_init
  <2>1. Len(down) \in Nat \ {0} /\ Len(up) \in Nat
    BY <1>5, <1>6, EmptySeq
  <2>2. Len(up) + Len(down) <= 1 => Len(down) = 1 /\ Len(up) = 0
    <3>1. PICK a \in Nat, b \in Nat : a = Len(up) /\ b = Len(down) /\ b # 0
      BY <2>1
    <3>2. a + b <= 1 => b = 1 /\ a = 0
      BY <3>1
    <3> QED BY <3>1, <3>2
  <2>3. Len(up) = 0 => up = <<>>
    BY <1>6, EmptySeq
  <2> QED BY <1>5, <1>6, <1>7, <1>8, <2>2, <2>3 DEF Base, TopOK
<1>10. \A i \in DOMAIN q : q[i].kind \in Talk
  BY <1>1, <1>4 DEF TopTells, Inits, Quits, Tells, Quiet
<1>11. /\ up' \in Seq(Message) /\ (\A i \in DOMAIN up' : up'[i].kind \in Talk \cup {"init", "kill", "logout"})
       /\ (\A i \in DOMAIN up : up[i].kind # "init") => \A i \in DOMAIN up' : up'[i].kind # "init"
  BY <1>5, <1>10, UpKinds
<1>12. \A i \in DOMAIN down' : i + 1 \in DOMAIN down /\ down'[i] = down[i + 1]
  BY <1>6, TailsElem
<1>13. \A i \in DOMAIN down' : down'[i].kind \in {"init", "ready", "done", "close", "data"}
  BY <1>12 DEF Base, TopOK
<1>14. doc'[Top] = F /\ source' = source
  BY <1>5 DEF Base, Types, Still
<1>15. q = <<>> => up' = up
  BY <1>5, <1>6, UpCat
<1>16. F.seed = 0 /\ F.ws # "opening" /\ F.ws \in {"open", "null"}
  BY <1>1, <1>3, <1>7, <1>8, <1>9 DEF TopTells, Inits, Quits, Tells, NoId
<1>17. ~(F.ws # "null" /\ F.waiting_for_init)
  BY <1>1, <1>3, <1>7, <1>8, <1>9 DEF TopTells, Inits, Quits, Tells
<1>18. F.ws = "open" => F.ready
  <2>1. T.ws = "open" /\ ~T.waiting_for_init => T.ready
    BY <1>8 DEF Base, TopOK
  <2> QED BY <1>1, <1>3, <1>7, <1>8, <1>9, <2>1 DEF TopTells, Inits, Quits, Tells
<1>19. /\ \A i \in DOMAIN up' : up'[i].kind # "init"
       /\ \A i \in DOMAIN down' : down'[i].kind # "init"
  <2>1. CASE T.ws = "open" /\ T.waiting_for_init
    <3>1. \A i \in DOMAIN up : FALSE
      BY <1>9, <2>1
    <3>2. Len(down') = 0
      BY <1>6, <1>9, <2>1 DEF Tails
    <3>3. \A i \in DOMAIN down' : FALSE
      BY <1>6, <3>2
    <3> QED BY <1>11, <3>1, <3>3
  <2>2. CASE ~(T.ws = "open" /\ T.waiting_for_init)
    <3>1. /\ \A i \in DOMAIN up : up[i].kind # "init"
          /\ \A i \in DOMAIN down : down[i].kind # "init"
      BY <1>8, <2>2 DEF Base, TopOK
    <3> QED BY <1>11, <1>12, <3>1
  <2> QED BY <2>1, <2>2
<1>20. F.ws = "null" /\ link = "up" => up' = <<>> /\ served = {}
  <2> SUFFICES ASSUME F.ws = "null", link = "up"
               PROVE  up' = <<>> /\ served = {}
    OBVIOUS
  <2>1. CASE T.ws = "null"
    <3>1. up = <<>> /\ served = {}
      BY <1>8, <2>1 DEF Base, TopOK
    <3>2. q = <<>>
      BY <1>1, <1>4, <1>7, <1>8, <1>9, <2>1 DEF TopTells, Inits, Quits, Tells
    <3> QED BY <1>15, <3>1, <3>2
  <2>2. CASE T.ws # "null"
    <3>1. Quits(T, E, FALSE) /\ T.waiting_for_init
      BY <1>1, <1>3, <1>7, <1>8, <1>9, <2>2 DEF TopTells, Inits, Tells
    <3>2. q = <<>> /\ up = <<>> /\ served = {}
      BY <1>4, <1>9, <2>2, <3>1 DEF Quits
    <3> QED BY <1>15, <3>2
  <2> QED BY <2>1, <2>2
<1>21. TopOK'
  BY <1>5, <1>11, <1>13, <1>14, <1>16, <1>17, <1>18, <1>19, <1>20 DEF TopOK
<1>22. IsFiniteSet(served') /\ served' \in SUBSET [id : Ids, group : Args, is : {"open", "done", "ended", "closed"}]
  BY <1>5 DEF Base, Types
<1> QED BY <1>3, <1>5, <1>6, <1>11, <1>21, <1>22, TopBase

\* What the server keeps of a channel.
Entries == [id : Ids, group : Args, is : {"open", "done", "ended", "closed"}]

\* What the server knows of an id.
LEMMA EntryOf ==
  ASSUME NEW id, Known(id)
  PROVE  Entry(id) \in served /\ Entry(id).id = id
BY DEF Known, Entry

\* An entry is replaced.
LEMMA ChangeType ==
  ASSUME Types, NEW id, NEW s \in Entries
  PROVE  Change(id, s) \in SUBSET Entries /\ IsFiniteSet(Change(id, s))
<1>1. served \in SUBSET Entries /\ IsFiniteSet(served)
  BY DEF Types, Entries
<1>2. PICK R : R = served \ {Entry(id)}
  OBVIOUS
<1>3. IsFiniteSet(R) /\ R \in SUBSET Entries
  BY <1>1, <1>2, FS_Subset
<1>4. IsFiniteSet(R \cup {s})
  BY <1>3, FS_AddElement
<1> QED BY <1>2, <1>3, <1>4 DEF Change

\* A step of the server keeps Base, when it keeps TopOK.
LEMMA ServerBase ==
  ASSUME Base, doc' = doc, Still, inbox' = inbox, link = "up", link' \in {"up", "silent", "lost"},
         up' \in Seq(Message), down' \in Seq(Message), served' \in SUBSET Entries, IsFiniteSet(served'),
         TopOK'
  PROVE  Base'
<1>1. PICK F : F = doc[Top]
  OBVIOUS
<1>2. InboxGrows
  BY DEF InboxGrows, Base, Types
<1>3. Sound(F, Mine(Top)) /\ (link' = "gone" <=> link = "gone")
  BY <1>1, TopPage
<1> QED BY <1>1, <1>2, <1>3, TopBase DEF Entries

\* The connection is lost.
LEMMA LostBase ==
  ASSUME Base, NEW how \in {"lost", "silent"}, ConnectionLost(how)
  PROVE  Base'
<1>1. /\ doc' = doc /\ Still /\ inbox' = inbox /\ link = "up" /\ link' \in {"lost", "silent"} /\ up' = <<>> /\ served' = {}
      /\ down' = down /\ source' = source
  BY DEF ConnectionLost, frames, Still
<1>2. up' \in Seq(Message) /\ down' \in Seq(Message) /\ served' \in SUBSET Entries /\ IsFiniteSet(served')
  BY <1>1, EmptySeq, FS_EmptySet DEF Base, Types
<1>3. TopOK'
  <2>1. (\A i \in DOMAIN up' : FALSE) /\ Len(up') = 0 /\ Len(up) \in Nat /\ Len(down) \in Nat
    BY <1>1, TopPage
  <2>2. Len(up) + Len(down) <= 1 => Len(up') + Len(down) <= 1
    BY <2>1
  <2> QED BY <1>1, <2>1, <2>2 DEF Base, TopOK
<1> QED BY <1>1, <1>2, <1>3, ServerBase

\* The server sends a message.
LEMMA SendsBase ==
  ASSUME Base, NEW s \in served, NEW kind \in {"ready", "data", "done", "close"}, ServerSends(s, kind)
  PROVE  Base'
<1>1. /\ doc' = doc /\ Still /\ inbox' = inbox /\ link = "up" /\ link' = link /\ up' = up
      /\ down' = Append(down, Msg(kind, s.id, "none"))
      /\ (served' = IF kind = "close" THEN Change(s.id, [s EXCEPT !.is = "ended"]) ELSE served)
      /\ source' = source
  BY DEF ServerSends, frames, Still
<1>2. s \in Entries /\ served \in SUBSET Entries /\ IsFiniteSet(served)
  BY DEF Base, Types, Entries
<1>3. PICK m \in Message : m = Msg(kind, s.id, "none") /\ m.kind = kind
  <2>1. s.id \in Ids
    BY <1>2 DEF Entries
  <2> QED BY <2>1, MsgType DEF Kinds, Talk, Args, Problems
<1>4. down \in Seq(Message) /\ up \in Seq(Message)
  BY DEF Base, Types
<1>5. Appends(down', down, m) /\ down' \in Seq(Message)
  BY <1>1, <1>3, <1>4, AppendAppends
<1>6. \A i \in DOMAIN down' : (i \in DOMAIN down /\ down'[i] = down[i]) \/ down'[i] = m
  BY <1>4, <1>5, AppendsElem
<1>7. served' \in SUBSET Entries /\ IsFiniteSet(served')
  <2>1. [s EXCEPT !.is = "ended"] \in Entries
    BY <1>2 DEF Entries
  <2> QED BY <1>1, <1>2, <2>1, ChangeType DEF Base
<1>8. doc[Top].ws = "open" /\ ~doc[Top].waiting_for_init
  BY <1>1 DEF Base, TopOK
<1>9. TopOK'
  <2>1. \A i \in DOMAIN down' : down'[i].kind \in {"init", "ready", "done", "close", "data"} /\ down'[i].kind # "init"
    BY <1>3, <1>6, <1>8 DEF Base, TopOK
  <2> QED BY <1>1, <1>8, <2>1 DEF Base, TopOK
<1> QED BY <1>1, <1>4, <1>5, <1>7, <1>9, ServerBase

\* Every image of a finite set that some function covers is finite.
LEMMA FiniteImage ==
  ASSUME NEW S, IsFiniteSet(S), NEW f, DOMAIN f = S, f = [x \in S |-> f[x]], NEW T,
         \A x \in S : f[x] \in T, \A t \in T : \E x \in S : f[x] = t
  PROVE  IsFiniteSet(T)
<1>1. f \in [S -> T]
  OBVIOUS
<1>2. f \in Surjection(S, T)
  BY <1>1 DEF Surjection
<1> QED BY <1>2, FS_Surjection

\* SetToSeq of a finite set of messages is a sequence of them.
LEMMA SetToSeqType ==
  ASSUME NEW S \in SUBSET Message, IsFiniteSet(S)
  PROVE  SetToSeq(S) \in Seq(Message) /\ \A i \in DOMAIN SetToSeq(S) : SetToSeq(S)[i] \in S
<1>1. PICK n \in Nat : n = Cardinality(S) /\ Bijection(1..n, S) # {}
  BY FS_CardinalityType DEF ExistsBijection
<1>2. PICK f : f \in Bijection(1..n, S)
  BY <1>1
<1>3. f \in [1..n -> S] /\ IsInjective(f)
  BY <1>2 DEF Bijection, Injection, IsInjective
<1>4. PICK g : g = SetToSeq(S)
  OBVIOUS
<1>5. g \in [1..n -> S]
  BY <1>1, <1>3, <1>4 DEF SetToSeq
<1>6. g \in Seq(S) /\ DOMAIN g = 1..n
  BY <1>1, <1>5
<1>7. g \in Seq(Message)
  BY <1>1, <1>5
<1> QED BY <1>4, <1>5, <1>6, <1>7

\* A message other than init reaches the server.
LEMMA OtherBase ==
  ASSUME Base, link = "up", up # <<>>, up' = Tail(up), up[1].kind # "init",
         doc' = doc, Still, inbox' = inbox, link' \in {"up", "lost"},
         served' \in SUBSET Entries, IsFiniteSet(served'), down' \in Seq(Message),
         \A i \in DOMAIN down' : (i \in DOMAIN down /\ down'[i] = down[i]) \/ down'[i].kind = "close"
  PROVE  Base'
<1>1. /\ Tails(up', up) /\ up' \in Seq(Message) /\ 1 \in DOMAIN up /\ up \in Seq(Message)
  BY TailTails DEF Base, Types
<1>2. doc[Top].ws = "open" /\ ~doc[Top].waiting_for_init
  BY <1>1 DEF Base, TopOK
<1>3. \A i \in DOMAIN up' : i + 1 \in DOMAIN up /\ up'[i] = up[i + 1]
  BY <1>1, TailsElem
<1>4. TopOK'
  <2>1. \A i \in DOMAIN down' : down'[i].kind \in {"init", "ready", "done", "close", "data"} /\ down'[i].kind # "init"
    BY <1>2 DEF Base, TopOK
  <2>2. \A i \in DOMAIN up' : up'[i].kind \in Talk \cup {"init", "kill", "logout"} /\ up'[i].kind # "init"
    BY <1>2, <1>3 DEF Base, TopOK
  <2>3. doc[Top].ready /\ doc[Top].seed = 0
    BY <1>2 DEF Base, TopOK
  <2> QED BY <1>2, <2>1, <2>2, <2>3 DEF TopOK
<1> QED BY <1>1, <1>4, ServerBase

\* The first message reaches the server.
LEMMA FirstBase ==
  ASSUME Base, link = "up", up # <<>>, up' = Tail(up), up[1].kind = "init",
         doc' = doc, Still, inbox' = inbox, link' = link, served' = served,
         NEW arg \in {"none", "problem", "not-supported"},
         Appends(down', down, Msg("init", NoId, arg)), down' \in Seq(Message)
  PROVE  Base'
<1>1. /\ Tails(up', up) /\ up' \in Seq(Message) /\ 1 \in DOMAIN up /\ up \in Seq(Message) /\ down \in Seq(Message)
  BY TailTails DEF Base, Types
<1>2. doc[Top].ws = "open" /\ doc[Top].waiting_for_init
  BY <1>1 DEF Base, TopOK
<1>3. PICK m \in Message : m = Msg("init", NoId, arg) /\ m.kind = "init" /\ m.id = NoId
  <2>1. NoId \in Ids
    BY IdType DEF NoId
  <2> QED BY <2>1, MsgType DEF Kinds, Talk, Args, Problems
<1>4. Appends(down', down, m) /\ down' \in Seq(Message)
  BY <1>3
<1>5. /\ Len(up') = 0 /\ Len(down') = 1
      /\ \A i \in DOMAIN up' : FALSE
  <2>0. \A s \in Seq(Message) : Len(s) \in Nat
    OBVIOUS
  <2>1. PICK a \in Nat, b \in Nat, c \in Nat, d \in Nat : a = Len(up) /\ b = Len(down) /\ c = Len(up') /\ d = Len(down')
    BY <1>1, <1>4, <2>0, Zenon
  <2>2. a # 0 /\ c = a - 1 /\ d = b + 1 /\ a + b <= 1
    BY <1>1, <1>2, <1>4, <2>1 DEF Tails, Appends, Base, TopOK
  <2>3. c = 0 /\ d = 1
    BY <2>2
  <2>4. Len(up') = 0 /\ Len(down') = 1
    BY <2>1, <2>3
  <2>5. DOMAIN up' = 1..0
    BY <1>1, <2>4
  <2>6. \A i \in 1..0 : FALSE
    OBVIOUS
  <2> QED BY <2>4, <2>5, <2>6
<1>6. \A i \in DOMAIN down' : (i \in DOMAIN down /\ down'[i] = down[i]) \/ down'[i] = m
  BY <1>1, <1>4, AppendsElem
<1>7. TopOK'
  <2>1. \A i \in DOMAIN down' : down'[i].kind = "init" /\ down'[i].id = NoId
    BY <1>2, <1>3, <1>6 DEF Base, TopOK
  <2>2. source' = source
    BY DEF Still
  <2>3. Len(up') + Len(down') <= 1
    BY <1>5
  <2> QED BY <1>2, <1>5, <2>1, <2>2, <2>3 DEF Base, TopOK
<1>8. served' \in SUBSET Entries /\ IsFiniteSet(served')
  BY DEF Base, Types, Entries
<1> QED BY <1>1, <1>4, <1>7, <1>8, ServerBase

\* What the server knows when it has ended the channels in hit.
Ended(hit) == (served \ hit) \cup {[s EXCEPT !.is = "ended"] : s \in hit}

\* Their last messages.
LEMMA EndType ==
  ASSUME Types, NEW hit \in SUBSET served, NEW why \in Problems
  PROVE  LET S == {Msg("close", s.id, why) : s \in hit}
         IN  /\ Ended(hit) \in SUBSET Entries /\ IsFiniteSet(Ended(hit))
             /\ S \in SUBSET Message /\ IsFiniteSet(S)
<1> DEFINE S == {Msg("close", s.id, why) : s \in hit}
<1> DEFINE K == {[s EXCEPT !.is = "ended"] : s \in hit}
<1>1. served \in SUBSET Entries /\ IsFiniteSet(served)
  BY DEF Types, Entries
<1>2. IsFiniteSet(hit) /\ hit \in SUBSET Entries
  BY <1>1, FS_Subset
<1>3. IsFiniteSet(S)
  <2>1. PICK f : f = [s \in hit |-> Msg("close", s.id, why)]
    OBVIOUS
  <2>2. DOMAIN f = hit /\ f = [s \in hit |-> f[s]] /\ \A s \in hit : f[s] = Msg("close", s.id, why)
    BY <2>1
  <2>3. (\A s \in hit : f[s] \in S) /\ \A t \in S : \E s \in hit : f[s] = t
    BY <2>2
  <2> HIDE DEF S
  <2> QED BY <1>2, <2>2, <2>3, FiniteImage
<1>4. IsFiniteSet(K)
  <2>1. PICK f : f = [s \in hit |-> [s EXCEPT !.is = "ended"]]
    OBVIOUS
  <2>2. DOMAIN f = hit /\ f = [s \in hit |-> f[s]] /\ \A s \in hit : f[s] = [s EXCEPT !.is = "ended"]
    BY <2>1
  <2>3. (\A s \in hit : f[s] \in K) /\ \A t \in K : \E s \in hit : f[s] = t
    BY <2>2
  <2> HIDE DEF K
  <2> QED BY <1>2, <2>2, <2>3, FiniteImage
<1>5. S \in SUBSET Message
  <2> SUFFICES ASSUME NEW s \in hit
               PROVE  Msg("close", s.id, why) \in Message
    OBVIOUS
  <2>1. s.id \in Ids
    BY <1>2 DEF Entries
  <2> QED BY <2>1, MsgType DEF Kinds, Talk, Args, Problems
<1>6. K \in SUBSET Entries
  BY <1>2 DEF Entries
<1>7. IsFiniteSet(served \ hit)
  BY <1>1, FS_Difference
<1>8. IsFiniteSet((served \ hit) \cup K)
  <2> HIDE DEF K
  <2> QED BY <1>4, <1>7, FS_Union
<1> QED BY <1>1, <1>3, <1>5, <1>6, <1>8 DEF Ended

\* A message reaches the server.
LEMMA ReceivesBase ==
  ASSUME Base, ServerReceives
  PROVE  Base'
<1>1. /\ link = "up" /\ up # <<>> /\ up' = Tail(up) /\ doc' = doc /\ Still /\ inbox' = inbox
  BY DEF ServerReceives, frames, Still
<1>2. /\ up \in Seq(Message) /\ down \in Seq(Message) /\ Types
  BY DEF Base, Types
<1>3. Head(up) = up[1] /\ up[1] \in Message /\ 1 \in DOMAIN up
  BY <1>1, <1>2, TailTails
<1>4. PICK m \in Message : m = up[1] /\ m = Head(up)
  BY <1>3
<1>5. m.kind \in Talk \cup {"init", "kill", "logout"} /\ m.id \in Ids /\ m.arg \in Args
  BY <1>3, <1>4 DEF Base, TopOK, Message
<1>6. served \in SUBSET Entries /\ IsFiniteSet(served)
  BY <1>2 DEF Types, Entries
<1>7. CASE m.kind = "init"
  <2>1. PICK arg \in {"none", "problem", "not-supported"} : down' = Append(down, Msg("init", NoId, arg))
    BY <1>4, <1>7 DEF ServerReceives
  <2>2. served' = served /\ link' = link
    BY <1>4, <1>7 DEF ServerReceives
  <2>3. Msg("init", NoId, arg) \in Message
    <3>1. NoId \in Ids
      BY IdType DEF NoId
    <3> QED BY <3>1, MsgType DEF Kinds, Talk, Args, Problems
  <2>4. Appends(down', down, Msg("init", NoId, arg)) /\ down' \in Seq(Message)
    BY <1>2, <2>1, <2>3, AppendAppends
  <2> QED BY <1>1, <1>4, <1>7, <2>2, <2>4, FirstBase
<1>8. CASE m.kind = "open"
  <2>1. served' = served \cup {[id |-> m.id, group |-> m.arg, is |-> "open"]} /\ down' = down /\ link' = link
    BY <1>4, <1>8 DEF ServerReceives
  <2>2. served' \in SUBSET Entries
    BY <1>5, <1>6, <2>1 DEF Entries
  <2>3. IsFiniteSet(served')
    BY <1>6, <2>1, FS_AddElement
  <2> QED BY <1>1, <1>2, <1>4, <1>8, <2>1, <2>2, <2>3, OtherBase
<1>9. CASE m.kind \in {"data", "done"}
  <2>1. /\ down' = down /\ link' = link
        /\ served' = served \/ (Known(m.id) /\ served' = Change(m.id, [Entry(m.id) EXCEPT !.is = "done"]))
    BY <1>4, <1>9 DEF ServerReceives
  <2>2. served' \in SUBSET Entries /\ IsFiniteSet(served')
    <3>1. Known(m.id) => [Entry(m.id) EXCEPT !.is = "done"] \in Entries
      BY <1>6, EntryOf DEF Entries
    <3> QED BY <1>2, <1>6, <2>1, <3>1, ChangeType
  <2> QED BY <1>1, <1>2, <1>4, <1>9, <2>1, <2>2, OtherBase
<1>10. CASE m.kind = "close"
  <2>1. /\ down' = down /\ link' = link
        /\ served' = served \/ (Known(m.id) /\ served' = Change(m.id, [Entry(m.id) EXCEPT !.is = "closed"]))
    BY <1>4, <1>10 DEF ServerReceives
  <2>2. served' \in SUBSET Entries /\ IsFiniteSet(served')
    <3>1. Known(m.id) => [Entry(m.id) EXCEPT !.is = "closed"] \in Entries
      BY <1>6, EntryOf DEF Entries
    <3> QED BY <1>2, <1>6, <2>1, <3>1, ChangeType
  <2> QED BY <1>1, <1>2, <1>4, <1>10, <2>1, <2>2, OtherBase
<1>11. CASE m.kind \in {"again", "kill"}
  <2>1. PICK hit \in SUBSET served, why \in {"terminated", "protocol-error"} : EndChannels(hit, why)
    <3>1. CASE m.kind = "again"
      BY <1>4, <3>1 DEF ServerReceives
    <3>2. CASE m.kind = "kill"
      BY <1>4, <3>2 DEF ServerReceives
    <3> QED BY <1>11, <3>1, <3>2
  <2>2. PICK S : S = {Msg("close", s.id, why) : s \in hit}
    OBVIOUS
  <2>3. served' = Ended(hit) /\ down' = down \o SetToSeq(S) /\ link' = link
    BY <2>1, <2>2 DEF EndChannels, Ended
  <2>4. served' \in SUBSET Entries /\ IsFiniteSet(served') /\ S \in SUBSET Message /\ IsFiniteSet(S)
    BY <1>2, <2>1, <2>2, <2>3, EndType DEF Problems
  <2>5. PICK q \in Seq(Message) : q = SetToSeq(S) /\ \A i \in DOMAIN q : q[i] \in S
    BY <2>4, SetToSeqType
  <2>6. \A i \in DOMAIN q : q[i].kind = "close"
    <3>1. \A s \in hit : Msg("close", s.id, why).kind = "close"
      BY DEF Msg
    <3>2. \A x \in S : x.kind = "close"
      BY <2>2, <3>1
    <3> QED BY <2>5, <3>2
  <2>7. IsCat(down', down, q) /\ down' \in Seq(Message)
    BY <1>2, <2>3, <2>5, UpCat
  <2>8. \A i \in DOMAIN down' : \/ i \in DOMAIN down /\ down'[i] = down[i]
                                \/ \E j \in DOMAIN q : i = Len(down) + j /\ down'[i] = q[j]
    BY <1>2, <2>7, CatElem
  <2> QED BY <1>1, <1>2, <1>4, <1>11, <2>3, <2>4, <2>6, <2>7, <2>8, OtherBase
<1>12. CASE m.kind = "logout"
  <2>1. served' = {} /\ down' = down /\ link' = "lost"
    BY <1>4, <1>12 DEF ServerReceives
  <2>2. served' \in SUBSET Entries /\ IsFiniteSet(served')
    BY <2>1, FS_EmptySet
  <2> QED BY <1>1, <1>2, <1>4, <1>12, <2>1, <2>2, OtherBase
<1> QED BY <1>5, <1>7, <1>8, <1>9, <1>10, <1>11, <1>12 DEF Talk

----
(* Frames come and go.                                                     *)

\* The hint a frame gets when w becomes current.
LEMMA HintPhase ==
  ASSUME Base, NEW d \in loaded, NEW w \in Windows \cup {"none"}, w # current
  PROVE  /\ HintCurrent(w)[d] \in Seq(Message)
         /\ Phase(doc[d], HintCurrent(w)[d], source[Window(d)], w # Window(d), Sent(posted, d), TRUE)
<1>1. d \in Docs /\ inbox[d] \in Seq(Message)
      /\ Phase(doc[d], inbox[d], source[Window(d)], current # Window(d), Sent(posted, d), TRUE)
  BY LoadedPhase
<1>2. PICK box, src, v : box \in Seq(Message) /\ box = inbox[d] /\ src = source[Window(d)] /\ v = Window(d)
  BY <1>1
<1>3. PICK t : t = HintCurrent(w)[d]
  OBVIOUS
<1>4. t = IF src # 0 /\ v \in {w, current}
          THEN Append(box, Msg("hint", NoId, IF v = w THEN "visible" ELSE "hidden")) ELSE box
  BY <1>1, <1>2, <1>3 DEF HintCurrent
<1>5. CASE src # 0 /\ v \in {w, current}
  <2>1. PICK a \in {"visible", "hidden"} : a = IF v = w THEN "visible" ELSE "hidden"
    OBVIOUS
  <2>2. PICK m \in Message : m = Msg("hint", NoId, a) /\ m.kind = "hint" /\ m.arg = a
    <3>1. NoId \in Ids
      BY IdType DEF NoId
    <3> QED BY <3>1, MsgType DEF Kinds, Talk, Args, Problems
  <2>3. t = Append(box, m)
    BY <1>4, <1>5, <2>1, <2>2
  <2>4. Appends(t, box, m) /\ t \in Seq(Message)
    BY <1>2, <2>3, AppendAppends
  <2>5. (w # v) = (m.arg = "hidden")
    BY <1>5, <2>1, <2>2
  <2>6. m.kind \in Plain
    BY <2>2 DEF Plain
  <2>7. Phase(doc[d], box, src, current # v, Sent(posted, d), TRUE)
    BY <1>1, <1>2
  <2>8. Phase(doc[d], t, src, m.arg = "hidden", Sent(posted, d), TRUE)
    BY <1>2, <1>5, <2>2, <2>4, <2>6, <2>7, PlainPhase
  <2> QED BY <1>2, <1>3, <2>4, <2>5, <2>8
<1>6. CASE src = 0
  <2>1. t = box
    BY <1>4, <1>6
  <2> QED BY <1>1, <1>2, <1>3, <1>6, <2>1 DEF Phase, Answered, Running, Shut
<1>7. CASE src # 0 /\ v \notin {w, current}
  <2>1. t = box /\ (w # v) = (current # v)
    BY <1>4, <1>7
  <2> QED BY <1>1, <1>2, <1>3, <2>1
<1> QED BY <1>5, <1>6, <1>7

\* A document that was never shown is loaded in an empty window.
LEMMA FreshPhase ==
  ASSUME Base, link # "gone", NEW d \in Docs, doc[d] = NewPage(Mine(d)), inbox[d] = <<>>, Sent(posted, d) = {}
  PROVE  \A hid : Phase(doc[d], inbox[d], 0, hid, Sent(posted, d), TRUE)
BY DEF Phase, Fresh, NewPage

\* The next document of a window.
LEMMA NextDocument ==
  ASSUME Base, link # "gone", NEW w \in Windows, shown[w] < Len(Documents[w]),
         NEW e, e = Documents[w][shown[w] + 1]
  PROVE  /\ e \in Docs \ loaded /\ Window(e) = w /\ shown[w] + 1 \in DOMAIN Documents[w]
         /\ doc[e] = NewPage(Mine(e)) /\ inbox[e] = <<>> /\ Sent(posted, e) = {}
<1>1. PICK n \in Nat : n = shown[w]
  BY DEF Base, Types
<1>2. Documents[w] \in Seq(Docs)
  BY ShellAssumption
<1>3. n + 1 \in DOMAIN Documents[w] /\ n + 1 > shown[w]
  BY <1>1, <1>2
<1>4. e = Documents[w][n + 1]
  BY <1>1
<1>5. e \in Docs \ loaded
  BY <1>3, <1>4, NotShown
<1>6. Window(e) = w
  BY <1>3, <1>4, DocumentAt
<1>7. doc[e] = NewPage(Mine(e)) /\ inbox[e] = <<>> /\ Sent(posted, e) = {}
  BY <1>3, <1>4 DEF Base, NextOK
<1> QED BY <1>1, <1>3, <1>5, <1>6, <1>7

\* Frames.lookup and index.current_frame keep Base.
LEMMA NavigateBase ==
  ASSUME Base, NEW w \in Windows \cup {"none"}, Navigate(w)
  PROVE  Base'
<1>1. /\ link # "gone" /\ w # current /\ current' = w /\ inbox' = HintCurrent(w)
      /\ UNCHANGED <<doc, source, unique_id, posted, up, down, served, link>>
      /\ w # "none" => InWindow(w) # {} \/ shown[w] < Len(Documents[w])
      /\ IF w # "none" /\ InWindow(w) = {}
         THEN /\ shown' = [shown EXCEPT ![w] = @ + 1]
              /\ loaded' = loaded \cup {Documents[w][shown[w] + 1]}
         ELSE UNCHANGED <<shown, loaded>>
  BY DEF Navigate, server
<1>2. Types /\ FramesOK /\ NextOK /\ PostedOK /\ PhaseOK /\ TopOK
  BY DEF Base
<1>3. \/ shown' = shown /\ loaded' = loaded
      \/ /\ w \in Windows /\ InWindow(w) = {} /\ shown[w] < Len(Documents[w])
         /\ shown' = [shown EXCEPT ![w] = @ + 1]
         /\ loaded' = loaded \cup {Documents[w][shown[w] + 1]}
  BY <1>1
<1>4. ASSUME NEW d \in Docs, d \notin loaded
      PROVE  inbox'[d] = inbox[d]
  BY <1>1, <1>4 DEF HintCurrent
<1>5. inbox' \in [Docs -> Seq(Message)]
  <2>1. \A d \in Docs : inbox'[d] \in Seq(Message)
    BY <1>1, <1>2, <1>4, HintPhase DEF Types
  <2>2. inbox' = [d \in Docs |-> inbox'[d]]
    BY <1>1 DEF HintCurrent
  <2> QED BY <2>1, <2>2
<1>6. ASSUME NEW e \in loaded' \ loaded
      PROVE  /\ w \in Windows /\ e = Documents[w][shown[w] + 1] /\ Window(e) = w /\ e \in Docs
             /\ InWindow(w) = {} /\ source[w] = 0 /\ shown[w] < Len(Documents[w])
             /\ doc[e] = NewPage(Mine(e)) /\ inbox[e] = <<>> /\ Sent(posted, e) = {}
  <2>1. /\ w \in Windows /\ InWindow(w) = {} /\ shown[w] < Len(Documents[w]) /\ e = Documents[w][shown[w] + 1]
    BY <1>3, <1>6
  <2>2. source[w] = 0
    BY <1>1, <1>2, <2>1 DEF FramesOK
  <2> QED BY <1>1, <2>1, <2>2, NextDocument
<1>7. shown' \in [Windows -> Nat] /\ loaded' \in SUBSET Docs /\ \A v \in Windows : shown'[v] >= shown[v]
  <2>1. CASE shown' = shown /\ loaded' = loaded
    BY <1>2, <2>1 DEF Types
  <2>2. CASE /\ w \in Windows /\ InWindow(w) = {} /\ shown[w] < Len(Documents[w])
             /\ shown' = [shown EXCEPT ![w] = @ + 1]
             /\ loaded' = loaded \cup {Documents[w][shown[w] + 1]}
    <3>1. Documents[w][shown[w] + 1] \in Docs
      BY <1>1, <2>2, NextDocument
    <3>2. loaded' \in SUBSET Docs
      BY <1>2, <2>2, <3>1 DEF Types
    <3> QED BY <1>2, <2>2, <3>2 DEF Types
  <2> QED BY <1>3, <2>1, <2>2
<1>8. Types'
  BY <1>1, <1>2, <1>5, <1>7 DEF Types
<1>9. FramesOK'
  <2>1. CASE shown' = shown /\ loaded' = loaded
    BY <1>1, <1>2, <2>1 DEF FramesOK, InWindow
  <2>2. CASE /\ w \in Windows /\ InWindow(w) = {} /\ shown[w] < Len(Documents[w])
             /\ shown' = [shown EXCEPT ![w] = @ + 1]
             /\ loaded' = loaded \cup {Documents[w][shown[w] + 1]}
    <3>1. PICK n \in Nat : n = shown[w] /\ shown'[w] = n + 1
      BY <1>2, <2>2 DEF Types
    <3>2. PICK e : e = Documents[w][n + 1] /\ e \in Docs /\ Window(e) = w /\ loaded' = loaded \cup {e}
      BY <1>1, <2>2, <3>1, NextDocument
    <3>3. \A v \in Windows : v # w => shown'[v] = shown[v]
      BY <1>2, <2>2 DEF Types
    <3>4. \A v \in Windows : shown'[v] <= Len(Documents[v]) /\ source[v] <= unique_id
      <4>1. n + 1 <= Len(Documents[w])
        BY <2>2, <3>1, ShellAssumption
      <4> QED BY <1>2, <3>1, <3>3, <4>1 DEF FramesOK
    <3>5. ASSUME NEW d \in loaded
          PROVE  Window(d) \in Windows /\ Window(d) # w
      <4>1. d \in Docs
        BY <1>2 DEF Types
      <4>2. Window(d) \in Windows /\ d \in ToSet(Documents[Window(d)])
        BY <4>1, DocWindow
      <4> QED BY <2>2, <4>2 DEF InWindow
    <3>6. \A d \in loaded' : shown'[Window(d)] # 0 /\ d = Documents[Window(d)][shown'[Window(d)]]
      <4>1. \A d \in loaded : shown'[Window(d)] # 0 /\ d = Documents[Window(d)][shown'[Window(d)]]
        BY <1>2, <3>3, <3>5 DEF FramesOK
      <4>2. shown'[Window(e)] # 0 /\ e = Documents[Window(e)][shown'[Window(e)]]
        BY <3>1, <3>2
      <4> QED BY <3>2, <4>1, <4>2
    <3>7. \A v \in Windows : source[v] # 0 => InWindow(v)' # {}
      BY <1>1, <1>2, <2>2 DEF FramesOK, InWindow
    <3> QED BY <1>1, <1>2, <3>4, <3>6, <3>7 DEF FramesOK
  <2> QED BY <1>3, <2>1, <2>2
<1>10. NextOK'
  <2> SUFFICES ASSUME NEW v \in Windows, NEW n \in DOMAIN Documents[v], n > shown'[v],
                      NEW e, e = Documents[v][n]
               PROVE  doc[e] = NewPage(Mine(e)) /\ inbox'[e] = <<>> /\ Sent(posted, e) = {}
    BY <1>1 DEF NextOK
  <2>1. n > shown[v]
    <3>1. PICK a \in Nat, b \in Nat : a = shown[v] /\ b = shown'[v] /\ b >= a
      BY <1>2, <1>7 DEF Types
    <3>2. n \in Nat
      BY ShellAssumption
    <3> QED BY <3>1, <3>2
  <2>2. e \in Docs \ loaded
    BY <2>1, NotShown
  <2>3. doc[e] = NewPage(Mine(e)) /\ inbox[e] = <<>> /\ Sent(posted, e) = {}
    BY <1>1, <1>2, <2>1 DEF NextOK
  <2> QED BY <1>4, <2>2, <2>3
<1>11. PostedOK'
  BY <1>1, <1>2 DEF PostedOK
<1>12. PhaseOK'
  <2> SUFFICES ASSUME NEW d \in Docs
               PROVE  Phase(doc[d], inbox'[d], source[Window(d)], w # Window(d), Sent(posted, d), d \in loaded')
    BY <1>1 DEF PhaseOK
  <2>1. CASE d \in loaded
    <3>1. d \in loaded'
      BY <1>3, <2>1
    <3>2. Phase(doc[d], inbox'[d], source[Window(d)], w # Window(d), Sent(posted, d), TRUE)
      BY <1>1, <2>1, HintPhase
    <3> QED BY <3>1, <3>2 DEF Phase
  <2>2. CASE d \in loaded' /\ d \notin loaded
    <3>1. Phase(doc[d], inbox[d], 0, w # Window(d), Sent(posted, d), TRUE)
      BY <1>1, <1>6, <2>2, FreshPhase
    <3>2. source[Window(d)] = 0 /\ inbox'[d] = inbox[d]
      BY <1>4, <1>6, <2>2
    <3> QED BY <2>2, <3>1, <3>2 DEF Phase
  <2>3. CASE d \notin loaded'
    <3>1. d \notin loaded
      BY <1>3, <2>3
    <3>2. Away(doc[d], inbox[d], source[Window(d)], Sent(posted, d))
      BY <1>2, <3>1 DEF PhaseOK, Phase
    <3> QED BY <1>4, <2>3, <3>1, <3>2 DEF Phase
  <2> QED BY <2>1, <2>2, <2>3
<1>13. TopOK'
  BY <1>1, <1>2 DEF TopOK
<1> QED BY <1>8, <1>9, <1>10, <1>11, <1>12, <1>13 DEF Base

\* A page that has not begun, and one that is gone.
LEMMA BlankPage ==
  ASSUME NEW mine \in Mines, NEW ws \in {"none", "null"}, NEW F, F = [NewPage(mine) EXCEPT !.ws = ws]
  PROVE  /\ PageOK(F, mine, {}) /\ Sound(F, mine) /\ F.ws = ws /\ F.seed = 0 /\ F.out = <<>> /\ ~F.ready
         /\ F.waiting_for_init /\ F.chan = [c \in mine |-> NewChannel]
<1>1. /\ F.ws = ws /\ F.ready = FALSE /\ F.waiting_for_init = TRUE /\ F.seed = 0 /\ F.last = 0
      /\ F.waiters = <<>> /\ F.hidden = FALSE /\ F.chan = [c \in mine |-> NewChannel] /\ F.out = <<>>
  BY DEF NewPage
<1>2. NoId \in Ids
  BY IdType DEF NoId
<1>3. NewChannel \in Object
  BY <1>2, EmptySeq DEF NewChannel, Object, Args, Problems
<1>4. F \in Page(mine)
  <2>1. PICK wt \in Seq(mine), o \in Seq(Message) : wt = <<>> /\ o = <<>>
    BY EmptySeq
  <2>2. PICK ch \in [mine -> Object] : ch = [c \in mine |-> NewChannel]
    BY <1>3
  <2>3. F = [ws |-> ws, ready |-> FALSE, waiting_for_init |-> TRUE, seed |-> 0, last |-> 0,
             waiters |-> wt, hidden |-> FALSE, expect |-> FALSE, chan |-> ch, out |-> o]
    BY <2>1, <2>2 DEF NewPage
  <2>4. [ws |-> ws, ready |-> FALSE, waiting_for_init |-> TRUE, seed |-> 0, last |-> 0,
         waiters |-> wt, hidden |-> FALSE, expect |-> FALSE, chan |-> ch, out |-> o] \in Page(mine)
    BY DEF Page
  <2> QED BY <2>3, <2>4
<1>5. \A c \in mine : F.chan[c] = NewChannel
  BY <1>1
<1>6. PageOK(F, mine, {})
  <2>1. \A c \in mine : ObjectOK(F, c)
    BY <1>1, <1>5 DEF ObjectOK, NewChannel, QueueOK
  <2>2. Apart(F) /\ WaitersOK(F)
    BY <1>1, <1>5 DEF Apart, WaitersOK, NewChannel
  <2>3. Own(F) /\ OutOK(F.out, {})
    BY <1>1 DEF Own, OutOK
  <2>4. Newest(F, {} \cup Told(F.out, Len(F.out)))
    BY <1>1 DEF Newest
  <2>5. \A c \in mine : F.chan[c].stage = "none"
    BY <1>5 DEF NewChannel
  <2> QED BY <1>1, <1>4, <2>1, <2>2, <2>3, <2>4, <2>5 DEF PageOK
<1>7. {} \in SUBSET Fact
  OBVIOUS
<1> QED BY <1>1, <1>6, <1>7 DEF Sound

\* After a logout the page reloads itself.
LEMMA LeavingBase ==
  ASSUME Base, SocketClosed, leaving
  PROVE  Base'
<1>1. /\ link = "lost" /\ down = <<>> /\ link' = "gone" /\ loaded' = {}
      /\ doc' = [d \in DOMAIN doc |-> [NewPage(Mine(d)) EXCEPT !.ws = "null"]]
      /\ posted' = <<>> /\ inbox' = [d \in Docs |-> <<>>]
      /\ UNCHANGED <<source, unique_id, current, shown, up, down, served>>
  BY DEF SocketClosed
<1>2. Types /\ FramesOK /\ PostedOK /\ PhaseOK /\ TopOK
  BY DEF Base
<1>3. DOMAIN doc' = Docs \cup {Top} /\ \A d \in Docs \cup {Top} : doc'[d] = [NewPage(Mine(d)) EXCEPT !.ws = "null"]
  BY <1>1, <1>2 DEF Types
<1>4. ASSUME NEW d \in Docs \cup {Top}
      PROVE  Sound(doc'[d], Mine(d)) /\ doc'[d].ws = "null" /\ doc'[d].seed = 0
  <2>1. PICK mine \in Mines : mine = Mine(d)
    BY MineType
  <2>2. PICK F : F = [NewPage(mine) EXCEPT !.ws = "null"]
    OBVIOUS
  <2>3. Sound(F, mine) /\ F.ws = "null" /\ F.seed = 0
    BY <2>2, BlankPage
  <2> QED BY <1>3, <2>1, <2>2, <2>3
<1>5. Types'
  <2>1. posted' \in Seq(Post) /\ inbox' \in [Docs -> Seq(Message)]
    BY <1>1, EmptySeq
  <2> QED BY <1>1, <1>2, <1>3, <1>4, <2>1 DEF Types
<1>6. FramesOK'
  BY <1>1, <1>2 DEF FramesOK
<1>7. NextOK'
  BY <1>1 DEF NextOK
<1>8. DOMAIN posted' = {}
  BY <1>1
<1>9. PostedOK'
  BY <1>8 DEF PostedOK
<1>10. PhaseOK'
  <2> SUFFICES ASSUME NEW d \in Docs
               PROVE  Phase(doc'[d], inbox'[d], source'[Window(d)], current' # Window(d), Sent(posted', d), d \in loaded')
    BY DEF PhaseOK
  <2>1. Sent(posted', d) = {}
    BY <1>8 DEF Sent
  <2>2. \A i \in DOMAIN inbox'[d] : FALSE
    BY <1>1
  <2>3. d \notin loaded' /\ doc'[d].ws = "null"
    BY <1>1, <1>4
  <2>4. Away(doc'[d], inbox'[d], source'[Window(d)], Sent(posted', d))
    BY <2>1, <2>2, <2>3 DEF Away
  <2> QED BY <2>3, <2>4 DEF Phase
<1>11. TopOK'
  <2>1. \A i \in DOMAIN down' : FALSE
    BY <1>1
  <2>2. \A i \in DOMAIN up' : up'[i].kind # "init" /\ up'[i].kind \in Talk \cup {"init", "kill", "logout"}
    BY <1>1, <1>2 DEF TopOK
  <2>3. doc'[Top].ws = "null" /\ doc'[Top].seed = 0 /\ link' = "gone"
    BY <1>1, <1>4
  <2> QED BY <2>1, <2>2, <2>3 DEF TopOK
<1> QED BY <1>5, <1>6, <1>7, <1>9, <1>10, <1>11 DEF Base

\* The shell's transport does not wait for an init.
Calm == ~(doc[Top].ws # "null" /\ doc[Top].waiting_for_init)

\* A message that goes to the server keeps TopOK.
LEMMA TopGrows ==
  ASSUME Base, doc'[Top] = doc[Top], link' = link, down' = down, served' = served,
         NEW q \in Seq(Message), \A i \in DOMAIN q : q[i].kind \in Talk \cup {"kill", "logout"},
         up' = up \/ (up' = up \o q /\ doc[Top].ws # "null" /\ Calm),
         Calm \/ \A w \in Windows : source[w] = 0 => source'[w] = 0
  PROVE  TopOK' /\ up' \in Seq(Message)
<1>1. TopOK
  BY DEF Base
<1>2. up' = up \/ up' = up \o q
  OBVIOUS
<1>3. /\ up' \in Seq(Message)
      /\ \A i \in DOMAIN up' : up'[i].kind \in Talk \cup {"init", "kill", "logout"}
      /\ (\A i \in DOMAIN up : up[i].kind # "init") => \A i \in DOMAIN up' : up'[i].kind # "init"
  BY <1>2, UpKinds
<1>4. CASE Calm
  <2>1. doc[Top].ws # "opening" /\ \A i \in DOMAIN up : up[i].kind # "init"
    BY <1>1, <1>4 DEF TopOK, Calm
  <2>2. doc[Top].ws = "null" => up' = up
    OBVIOUS
  <2> QED BY <1>1, <1>3, <1>4, <2>1, <2>2 DEF TopOK, Calm
<1>5. CASE ~Calm
  <2>1. up' = up
    BY <1>5
  <2>2. \A w \in Windows : source'[w] = 0
    BY <1>1, <1>5 DEF TopOK, Calm
  <2>3. TopOK'
    BY <1>1, <1>5, <2>1, <2>2 DEF TopOK, Calm
  <2> QED BY <1>3, <2>3
<1> QED BY <1>4, <1>5

\* A known frame means that the shell's transport has begun.
LEMMA KnownCalm ==
  ASSUME Base, NEW w \in Windows, source[w] # 0
  PROVE  Calm
BY DEF Base, TopOK, Calm

\* What unregister sends.
LEMMA Unregisters ==
  ASSUME Base, NEW w \in Windows, NEW D, D = Unregister(doc[Top], w)
  PROVE  /\ [D EXCEPT !.out = <<>>] = doc[Top] /\ D.out \in Seq(Message)
         /\ D.out = IF source[w] = 0 \/ doc[Top].ws = "null" THEN <<>> ELSE <<Msg("kill", NoId, w)>>
         /\ \A i \in DOMAIN D.out : D.out[i].kind \in Talk \cup {"kill", "logout"}
         /\ D.out # <<>> => Calm
<1>1. PICK m \in Message : m = Msg("kill", NoId, w) /\ m.kind = "kill"
  <2>1. NoId \in Ids
    BY IdType DEF NoId
  <2> QED BY <2>1, MsgType DEF Kinds, Talk, Args
<1>2. CASE source[w] = 0
  <2>1. D = doc[Top] /\ D.out = <<>>
    BY <1>2, TopPage DEF Unregister
  <2>2. PICK T \in Page(Mine(Top)) : T = doc[Top] /\ T.out = <<>>
    BY TopPage
  <2>3. [T EXCEPT !.out = <<>>] = T
    BY <2>2 DEF Page
  <2>4. D.out \in Seq(Message) /\ \A i \in DOMAIN D.out : FALSE
    BY <2>1, EmptySeq
  <2> QED BY <1>2, <2>1, <2>2, <2>3, <2>4
<1>3. CASE source[w] # 0
  <2>1. PICK E : E = SendData(doc[Top], m)
    OBVIOUS
  <2>2. [E EXCEPT !.out = <<>>] = doc[Top] /\ E.out = IF doc[Top].ws = "null" THEN <<>> ELSE <<m>>
    BY <2>1, TopSends
  <2>3. D = E
    BY <1>1, <1>3, <2>1 DEF Unregister
  <2>4. <<m>> \in Seq(Message) /\ \A i \in DOMAIN <<m>> : <<m>>[i].kind = "kill"
    BY <1>1, OneType
  <2>5. D.out \in Seq(Message) /\ \A i \in DOMAIN D.out : D.out[i].kind \in Talk \cup {"kill", "logout"}
    <3>1. CASE doc[Top].ws = "null"
      <4>1. D.out = <<>>
        BY <2>2, <2>3, <3>1
      <4>2. D.out \in Seq(Message) /\ \A i \in DOMAIN D.out : FALSE
        BY <4>1, EmptySeq
      <4> QED BY <4>2
    <3>2. CASE doc[Top].ws # "null"
      BY <2>2, <2>3, <2>4, <3>2
    <3> QED BY <3>1, <3>2
  <2> QED BY <1>1, <1>3, <2>2, <2>3, <2>5, KnownCalm
<1> QED BY <1>2, <1>3

\* What Unload does, in one piece.
Goodbye(d, next, w, q) ==
  /\ d \in loaded /\ w = Window(d) /\ q \in Seq(Message)
  /\ \A i \in DOMAIN posted : posted[i].from = d => posted[i].msg.kind # "init"
  /\ next => shown[w] < Len(Documents[w])
  /\ loaded' = (loaded \ {d}) \cup IF next THEN {Documents[w][shown[w] + 1]} ELSE {}
  /\ shown' = IF next THEN [shown EXCEPT ![w] = @ + 1] ELSE shown
  /\ current' = IF ~next /\ current = w THEN "none" ELSE current
  /\ inbox' = [inbox EXCEPT ![d] = <<>>]
  /\ posted' = posted \/ Appends(posted', posted, [from |-> d, msg |-> Msg("bye", NoId, "none")])
  /\ posted' \in Seq(Post)
  /\ source' = [source EXCEPT ![w] = 0]
  /\ DOMAIN doc' = Docs \cup {Top} /\ doc'[Top] = doc[Top]
  /\ \A e \in Docs : doc'[e] = IF e = d THEN [NewPage(Mine(d)) EXCEPT !.ws = "null"] ELSE doc[e]
  /\ q = IF source[w] = 0 \/ doc[Top].ws = "null" THEN <<>> ELSE <<Msg("kill", NoId, w)>>
  /\ \A i \in DOMAIN q : q[i].kind \in Talk \cup {"kill", "logout"}
  /\ up' = IF link = "up" THEN up \o q ELSE up
  /\ UNCHANGED <<unique_id, down, served, link, confused>>

\* The router learns that a document goes.
LEMMA Unloads ==
  ASSUME Base, ~hurried', NEW d \in Docs, NEW next \in BOOLEAN, Unload(d, next)
  PROVE  \E q : Goodbye(d, next, Window(d), q)
<1>1. PICK w \in Windows : w = Window(d)
  BY DocWindow
<1>2. PICK U : U = Unregister(doc[Top], w)
  OBVIOUS
<1>3. /\ [U EXCEPT !.out = <<>>] = doc[Top] /\ U.out \in Seq(Message)
      /\ U.out = IF source[w] = 0 \/ doc[Top].ws = "null" THEN <<>> ELSE <<Msg("kill", NoId, w)>>
      /\ \A i \in DOMAIN U.out : U.out[i].kind \in Talk \cup {"kill", "logout"}
  BY <1>2, Unregisters
<1>4. (IF Listening(w) THEN Unregister(doc[Top], w) ELSE doc[Top]) = U
  BY <1>2 DEF Listening, Unregister
<1>5. /\ d \in loaded
      /\ \A i \in DOMAIN posted : posted[i].from = d => posted[i].msg.kind # "init"
      /\ next => shown[w] < Len(Documents[w])
      /\ loaded' = (loaded \ {d}) \cup IF next THEN {Documents[w][shown[w] + 1]} ELSE {}
      /\ shown' = IF next THEN [shown EXCEPT ![w] = @ + 1] ELSE shown
      /\ current' = IF ~next /\ current = w THEN "none" ELSE current
      /\ inbox' = [inbox EXCEPT ![d] = <<>>]
      /\ posted' = IF doc[d].ws \in {"opening", "open"}
                   THEN Append(posted, [from |-> d, msg |-> Msg("bye", NoId, "none")])
                   ELSE posted
      /\ source' = IF Listening(w) THEN [source EXCEPT ![w] = 0] ELSE source
      /\ UNCHANGED <<unique_id, down, served, link, confused>>
  BY <1>1 DEF Unload, InitPosted, server
<1>6. /\ doc' = [doc EXCEPT ![Top] = [U EXCEPT !.out = <<>>], ![d] = [NewPage(Mine(d)) EXCEPT !.ws = "null"]]
      /\ up' = IF link = "up" THEN up \o U.out ELSE up
  BY <1>1, <1>4 DEF Unload
<1>7. source' = [source EXCEPT ![w] = 0]
  <2>1. source \in [Windows -> Nat]
    BY DEF Base, Types
  <2>2. CASE source[w] = 0
    <3>1. source' = source
      BY <1>5, <2>2 DEF Listening
    <3>2. source = [source EXCEPT ![w] = 0]
      BY <2>1, <2>2
    <3> QED BY <3>1, <3>2
  <2> QED BY <1>5, <2>2 DEF Listening
<1>8. posted' \in Seq(Post) /\ (posted' = posted \/ Appends(posted', posted, [from |-> d, msg |-> Msg("bye", NoId, "none")]))
  <2>1. PICK p \in Post : p = [from |-> d, msg |-> Msg("bye", NoId, "none")]
    <3>1. NoId \in Ids
      BY IdType DEF NoId
    <3>2. Msg("bye", NoId, "none") \in Message
      BY <3>1, MsgType DEF Kinds, Talk, Args, Problems
    <3> QED BY <3>2 DEF Post
  <2>2. posted \in Seq(Post)
    BY DEF Base, Types
  <2>3. Appends(Append(posted, p), posted, p) /\ Append(posted, p) \in Seq(Post)
    BY <2>2, AppendAppends
  <2>4. posted' = posted \/ posted' = Append(posted, p)
    BY <1>5, <2>1
  <2> QED BY <2>1, <2>2, <2>3, <2>4
<1>9. /\ DOMAIN doc' = Docs \cup {Top} /\ doc'[Top] = doc[Top]
      /\ \A e \in Docs : doc'[e] = IF e = d THEN [NewPage(Mine(d)) EXCEPT !.ws = "null"] ELSE doc[e]
  <2>1. DOMAIN doc = Docs \cup {Top} /\ Top \notin Docs
    BY ShellAssumption DEF Base, Types
  <2>2. PICK T, G : T = [U EXCEPT !.out = <<>>] /\ G = [NewPage(Mine(d)) EXCEPT !.ws = "null"]
    OBVIOUS
  <2>3. doc' = [doc EXCEPT ![Top] = T, ![d] = G]
    BY <1>6, <2>2
  <2>4. /\ DOMAIN doc' = Docs \cup {Top} /\ doc'[Top] = T
        /\ \A e \in Docs : doc'[e] = IF e = d THEN G ELSE doc[e]
    BY <2>1, <2>3
  <2> QED BY <1>3, <2>2, <2>4
<1>10. PICK q : q = U.out
  OBVIOUS
<1>11. Goodbye(d, next, w, q)
  BY <1>1, <1>3, <1>5, <1>6, <1>7, <1>8, <1>9, <1>10 DEF Goodbye
<1> QED BY <1>1, <1>11

\* What a document that goes has posted.
LEMMA LastWords ==
  ASSUME Base, NEW d \in loaded, \A i \in DOMAIN posted : posted[i].from = d => posted[i].msg.kind # "init"
  PROVE  \A m \in Sent(posted, d) : m.kind \in Talk \cup {"bye"}
<1>1. d \in Docs /\ Phase(doc[d], inbox[d], source[Window(d)], current # Window(d), Sent(posted, d), TRUE)
  BY LoadedPhase
<1>2. \A m \in Sent(posted, d) : m.kind # "init"
  BY DEF Sent
<1> QED BY <1>1, <1>2 DEF Phase, Fresh, Asked, Answered, Running, Shut

\* Who posted what, when a document goes.
LEMMA ByeSent ==
  ASSUME Base, NEW d \in Docs, NEW p, p = [from |-> d, msg |-> Msg("bye", NoId, "none")],
         posted' \in Seq(Post), posted' = posted \/ Appends(posted', posted, p)
  PROVE  /\ \A e : e # d => Sent(posted', e) = Sent(posted, e)
         /\ \A m \in Sent(posted', d) : m \in Sent(posted, d) \/ m.kind = "bye"
         /\ \A i \in DOMAIN posted' : (i \in DOMAIN posted /\ posted'[i] = posted[i])
              \/ (posted'[i].from = d /\ posted'[i].msg.kind = "bye" /\ i \notin DOMAIN posted)
         /\ \A i \in DOMAIN posted : i \in DOMAIN posted' /\ posted'[i] = posted[i]
<1>1. posted \in Seq(Post)
  BY DEF Base, Types
<1>2. p.from = d /\ p.msg.kind = "bye"
  BY DEF Msg
<1>3. CASE posted' = posted
  BY <1>3
<1>4. CASE posted' # posted
  <2>1. /\ \A i \in DOMAIN posted : i \in DOMAIN posted' /\ posted'[i] = posted[i] /\ i # Len(posted) + 1
        /\ \A i \in DOMAIN posted' : (i \in DOMAIN posted /\ posted'[i] = posted[i])
                                     \/ (i = Len(posted) + 1 /\ posted'[i] = p)
    BY <1>1, <1>4, AppendsElem
  <2>2. \A e : e # d => Sent(posted', e) = Sent(posted, e)
    BY <1>2, <2>1 DEF Sent
  <2>3. \A m \in Sent(posted', d) : m \in Sent(posted, d) \/ m.kind = "bye"
    BY <1>2, <2>1 DEF Sent
  <2>4. \A i \in DOMAIN posted' : (i \in DOMAIN posted /\ posted'[i] = posted[i])
              \/ (posted'[i].from = d /\ posted'[i].msg.kind = "bye" /\ i \notin DOMAIN posted)
    BY <1>2, <2>1
  <2> QED BY <2>1, <2>2, <2>3, <2>4
<1> QED BY <1>3, <1>4

\* A document that goes keeps Base.
LEMMA GoodbyeBase ==
  ASSUME Base, NEW d \in Docs, NEW next \in BOOLEAN, NEW w, NEW q, Goodbye(d, next, w, q)
  PROVE  Base'
<1>1. Types /\ FramesOK /\ NextOK /\ PostedOK /\ PhaseOK /\ TopOK
  BY DEF Base
<1>2. /\ d \in loaded /\ w = Window(d) /\ w \in Windows /\ link # "gone"
  BY <1>1, DocWindow DEF Goodbye, FramesOK
<1>3. source'[w] = 0 /\ (\A v \in Windows : v # w => source'[v] = source[v]) /\ source' \in [Windows -> Nat]
  BY <1>1, <1>2 DEF Goodbye, Types
<1>4. PICK n \in Nat : n = shown[w]
  BY <1>1, <1>2 DEF Types
<1>5. ASSUME next
      PROVE  \E e \in Docs \ loaded : e = Documents[w][n + 1] /\ Window(e) = w /\ n + 1 <= Len(Documents[w])
                /\ doc[e] = NewPage(Mine(e)) /\ inbox[e] = <<>> /\ Sent(posted, e) = {}
                /\ loaded' = (loaded \ {d}) \cup {e}
  <2>1. shown[w] < Len(Documents[w]) /\ loaded' = (loaded \ {d}) \cup {Documents[w][n + 1]}
    BY <1>4, <1>5 DEF Goodbye
  <2>2. PICK e : e = Documents[w][shown[w] + 1]
    OBVIOUS
  <2>3. e \in Docs \ loaded /\ Window(e) = w /\ doc[e] = NewPage(Mine(e)) /\ inbox[e] = <<>> /\ Sent(posted, e) = {}
    BY <1>2, <2>1, <2>2, NextDocument
  <2>4. n + 1 <= Len(Documents[w])
    BY <1>2, <1>4, <2>1, ShellAssumption
  <2> QED BY <1>4, <2>1, <2>2, <2>3, <2>4
<1>6. /\ shown' \in [Windows -> Nat] /\ loaded' \in SUBSET Docs
      /\ \A v \in Windows : v # w => shown'[v] = shown[v]
      /\ shown'[w] = IF next THEN n + 1 ELSE n
      /\ ~next => loaded' = loaded \ {d}
  <2>1. shown' = IF next THEN [shown EXCEPT ![w] = @ + 1] ELSE shown
    BY DEF Goodbye
  <2>2. ~next => loaded' = loaded \ {d}
    BY DEF Goodbye
  <2>3. loaded' \in SUBSET Docs
    BY <1>1, <1>5, <2>2 DEF Types
  <2>4. shown \in [Windows -> Nat]
    BY <1>1 DEF Types
  <2>5. CASE next
    <3>1. shown' = [shown EXCEPT ![w] = n + 1]
      BY <1>4, <2>1, <2>5
    <3> QED BY <1>2, <2>3, <2>4, <2>5, <3>1
  <2>6. CASE ~next
    BY <1>4, <2>1, <2>2, <2>3, <2>4, <2>6
  <2> QED BY <2>5, <2>6
<1>7. /\ \A e : e # d => Sent(posted', e) = Sent(posted, e)
      /\ \A m \in Sent(posted', d) : m \in Sent(posted, d) \/ m.kind = "bye"
      /\ \A i \in DOMAIN posted' : (i \in DOMAIN posted /\ posted'[i] = posted[i])
           \/ (posted'[i].from = d /\ posted'[i].msg.kind = "bye" /\ i \notin DOMAIN posted)
      /\ \A i \in DOMAIN posted : i \in DOMAIN posted' /\ posted'[i] = posted[i]
  <2>1. PICK p : p = [from |-> d, msg |-> Msg("bye", NoId, "none")]
    OBVIOUS
  <2>2. posted' \in Seq(Post) /\ (posted' = posted \/ Appends(posted', posted, p))
    BY <2>1 DEF Goodbye
  <2> QED BY <2>1, <2>2, ByeSent
<1>8. inbox'[d] = <<>> /\ (\A e \in Docs : e # d => inbox'[e] = inbox[e]) /\ inbox' \in [Docs -> Seq(Message)]
  BY <1>1, EmptySeq DEF Goodbye, Types
<1>9. PICK G : G = [NewPage(Mine(d)) EXCEPT !.ws = "null"]
  OBVIOUS
<1>10. /\ DOMAIN doc' = Docs \cup {Top} /\ doc'[Top] = doc[Top] /\ doc'[d] = G
       /\ \A e \in Docs : e # d => doc'[e] = doc[e]
  BY <1>9 DEF Goodbye
<1>11. Sound(G, Mine(d)) /\ G.ws = "null"
  <2>1. PICK mine \in Mines : mine = Mine(d)
    BY MineType
  <2> QED BY <1>9, <2>1, BlankPage
<1>12. up' \in Seq(Message) /\ TopOK'
  <2>1. /\ q \in Seq(Message) /\ link' = link /\ down' = down /\ served' = served
        /\ (\A i \in DOMAIN q : q[i].kind \in Talk \cup {"kill", "logout"})
        /\ (up' = IF link = "up" THEN up \o q ELSE up)
        /\ q = IF source[w] = 0 \/ doc[Top].ws = "null" THEN <<>> ELSE <<Msg("kill", NoId, w)>>
    BY DEF Goodbye
  <2>2. up' = up \/ (up' = up \o q /\ doc[Top].ws # "null" /\ Calm)
    <3>1. q = <<>> => up \o q = up
      BY <1>1, <2>1, UpCat DEF Types
    <3>2. q # <<>> => source[w] # 0 /\ doc[Top].ws # "null"
      BY <2>1
    <3> QED BY <1>2, <2>1, <3>1, <3>2, KnownCalm
  <2>3. \A v \in Windows : source[v] = 0 => source'[v] = 0
    BY <1>3
  <2> QED BY <1>10, <2>1, <2>2, <2>3, TopGrows
<1>13. Types'
  <2>1. \A e \in Docs \cup {Top} : Sound(doc'[e], Mine(e))
    BY <1>1, <1>10, <1>11 DEF Types
  <2>2. current' \in Windows \cup {"none"} /\ posted' \in Seq(Post) /\ unique_id' = unique_id /\ down' = down
        /\ served' = served
    BY <1>1 DEF Types, Goodbye
  <2> QED BY <1>1, <1>3, <1>6, <1>8, <1>10, <1>12, <2>1, <2>2 DEF Types
<1>14. ASSUME NEW e \in loaded, e # d
       PROVE  Window(e) \in Windows /\ Window(e) # w /\ e \in loaded'
  <2>1. e \in Docs
    BY <1>1 DEF Types
  <2>2. Window(e) # w
    BY <1>1, <1>2, <1>14, OneLoaded
  <2> QED BY <1>5, <1>6, <1>14, <2>1, <2>2, DocWindow
<1>15. FramesOK'
  <2>1. unique_id' = unique_id /\ link' = link
    BY DEF Goodbye
  <2>2. \A v \in Windows : shown'[v] <= Len(Documents[v]) /\ source'[v] <= unique_id
    <3>1. 0 <= unique_id
      BY <1>1 DEF Types
    <3>2. shown'[w] <= Len(Documents[w])
      BY <1>1, <1>2, <1>4, <1>5, <1>6 DEF FramesOK
    <3> QED BY <1>1, <1>3, <1>6, <3>1, <3>2 DEF FramesOK
  <2>3. \A u, v \in Windows : source'[u] = source'[v] /\ source'[u] # 0 => u = v
    BY <1>1, <1>3 DEF FramesOK
  <2>4. ASSUME NEW e \in loaded'
        PROVE  shown'[Window(e)] # 0 /\ e = Documents[Window(e)][shown'[Window(e)]]
    <3>1. CASE e \in loaded
      <4>1. e # d
        BY <1>5, <1>6, <2>4, <3>1
      <4>2. Window(e) \in Windows /\ Window(e) # w
        BY <1>14, <3>1, <4>1
      <4> QED BY <1>1, <1>6, <3>1, <4>2 DEF FramesOK
    <3>2. CASE e \notin loaded
      <4>1. next
        BY <1>6, <2>4, <3>2
      <4>2. e = Documents[w][n + 1] /\ Window(e) = w
        BY <1>5, <2>4, <3>2, <4>1
      <4>3. shown'[w] = n + 1 /\ n + 1 # 0
        BY <1>4, <1>6, <4>1
      <4> QED BY <4>2, <4>3
    <3> QED BY <3>1, <3>2
  <2>5. ASSUME NEW v \in Windows, source'[v] # 0
        PROVE  InWindow(v)' # {}
    <3>1. v # w /\ source[v] # 0
      BY <1>3, <2>5
    <3>2. PICK e \in loaded : e \in ToSet(Documents[v])
      BY <1>1, <1>2, <3>1 DEF FramesOK, InWindow
    <3>3. e \in Docs
      BY <1>1 DEF Types
    <3>4. Window(e) = v
      BY <3>2, <3>3, DocWindow
    <3>5. e # d
      BY <1>2, <3>1, <3>4
    <3> QED BY <1>14, <3>2, <3>5 DEF InWindow
  <2> QED BY <1>2, <2>1, <2>2, <2>3, <2>4, <2>5 DEF FramesOK
<1>16. NextOK'
  <2> SUFFICES ASSUME NEW v \in Windows, NEW k \in DOMAIN Documents[v], k > shown'[v],
                      NEW e, e = Documents[v][k]
               PROVE  doc'[e] = NewPage(Mine(e)) /\ inbox'[e] = <<>> /\ Sent(posted', e) = {}
    BY DEF NextOK
  <2>1. k > shown[v]
    <3>1. PICK a \in Nat, b \in Nat : a = shown[v] /\ b = shown'[v]
      BY <1>1, <1>6 DEF Types
    <3>2. b >= a
      BY <1>4, <1>6, <3>1
    <3>3. k \in Nat
      BY ShellAssumption
    <3> QED BY <3>1, <3>2, <3>3
  <2>2. e \in Docs \ loaded
    BY <2>1, NotShown
  <2>3. doc[e] = NewPage(Mine(e)) /\ inbox[e] = <<>> /\ Sent(posted, e) = {}
    BY <1>1, <1>2, <2>1 DEF NextOK
  <2>4. e # d
    BY <1>2, <2>2
  <2> QED BY <1>7, <1>8, <1>10, <2>2, <2>3, <2>4
<1>17. PostedOK'
  <2>1. ASSUME NEW i \in DOMAIN posted', NEW j \in DOMAIN posted', posted'[i].msg.kind = "init", i < j
        PROVE  Window(posted'[j].from) # Window(posted'[i].from)
    <3>1. i \in DOMAIN posted /\ posted'[i] = posted[i]
      BY <1>7, <2>1
    <3>2. CASE j \in DOMAIN posted
      BY <1>1, <1>7, <2>1, <3>1, <3>2 DEF PostedOK
    <3>3. CASE j \notin DOMAIN posted
      <4>1. posted'[j].from = d
        BY <1>7, <3>3
      <4>2. posted[i].from \in Docs /\ posted[i].msg \in Sent(posted, posted[i].from)
        BY <1>1, <3>1, PostedBy DEF Types
      <4>3. posted[i].from \in loaded
        BY <1>1, <2>1, <3>1, <4>2, InitLoaded
      <4>4. posted[i].from # d
        BY <2>1, <3>1 DEF Goodbye
      <4> QED BY <1>2, <1>14, <3>1, <4>1, <4>3, <4>4
    <3> QED BY <3>2, <3>3
  <2>2. ASSUME NEW i \in DOMAIN posted', posted'[i].msg.kind \in Talk
        PROVE  /\ posted'[i].msg.id[1] \in 1..unique_id
               /\ \A v \in Windows : source'[v] = posted'[i].msg.id[1] => v = Window(posted'[i].from)
    <3>1. i \in DOMAIN posted /\ posted'[i] = posted[i]
      BY <1>7, <2>2 DEF Talk
    <3>2. /\ posted[i].msg.id[1] \in 1..unique_id
          /\ \A v \in Windows : source[v] = posted[i].msg.id[1] => v = Window(posted[i].from)
      BY <1>1, <2>2, <3>1 DEF PostedOK
    <3>3. posted[i].msg.id[1] # 0
      BY <1>1, <3>2 DEF Types
    <3> QED BY <1>3, <3>1, <3>2, <3>3
  <2>3. unique_id' = unique_id
    BY DEF Goodbye
  <2> QED BY <2>1, <2>2, <2>3 DEF PostedOK
<1>18. PhaseOK'
  <2> SUFFICES ASSUME NEW e \in Docs
               PROVE  Phase(doc'[e], inbox'[e], source'[Window(e)], current' # Window(e), Sent(posted', e), e \in loaded')
    BY DEF PhaseOK
  <2>1. Window(e) \in Windows
    BY DocWindow
  <2>2. CASE e = d
    <3>1. d \notin loaded'
      BY <1>2, <1>5, <1>6
    <3>2. \A m \in Sent(posted', d) : m.kind \in Talk \cup {"bye"}
      <4>1. \A m \in Sent(posted, d) : m.kind \in Talk \cup {"bye"}
        BY <1>2, LastWords DEF Goodbye
      <4> QED BY <1>7, <4>1
    <3>3. \A i \in DOMAIN inbox'[d] : FALSE
      BY <1>8
    <3>4. Away(doc'[d], inbox'[d], source'[w], Sent(posted', d))
      BY <1>3, <1>10, <1>11, <3>2, <3>3 DEF Away
    <3> QED BY <1>2, <2>2, <3>1, <3>4 DEF Phase
  <2>3. CASE e # d /\ e \in loaded
    <3>1. Window(e) # w /\ e \in loaded'
      BY <1>14, <2>3
    <3>2. (current' # Window(e)) = (current # Window(e))
      BY <2>1, <3>1, ShellAssumption DEF Goodbye
    <3>3. Phase(doc[e], inbox[e], source[Window(e)], current # Window(e), Sent(posted, e), TRUE)
      BY <2>3, LoadedPhase
    <3>4. doc'[e] = doc[e] /\ inbox'[e] = inbox[e] /\ source'[Window(e)] = source[Window(e)] /\ Sent(posted', e) = Sent(posted, e)
      BY <1>3, <1>7, <1>8, <1>10, <2>1, <2>3, <3>1
    <3>5. Phase(doc[e], inbox[e], source[Window(e)], current' # Window(e), Sent(posted, e), TRUE)
      BY <3>2, <3>3
    <3> QED BY <3>1, <3>4, <3>5 DEF Phase
  <2>4. CASE e # d /\ e \notin loaded /\ e \in loaded'
    <3>1. next
      BY <1>6, <2>4
    <3>2. Window(e) = w /\ doc[e] = NewPage(Mine(e)) /\ inbox[e] = <<>> /\ Sent(posted, e) = {}
      BY <1>5, <2>4, <3>1
    <3>3. Phase(doc[e], inbox[e], 0, current' # Window(e), Sent(posted, e), TRUE)
      BY <1>2, <3>2, FreshPhase
    <3> QED BY <1>3, <1>7, <1>8, <1>10, <2>4, <3>2, <3>3 DEF Phase
  <2>5. CASE e # d /\ e \notin loaded /\ e \notin loaded'
    <3>1. Away(doc[e], inbox[e], source[Window(e)], Sent(posted, e))
      BY <1>1, <2>5 DEF PhaseOK, Phase
    <3>2. source'[Window(e)] = 0 \/ source'[Window(e)] = source[Window(e)]
      BY <1>3, <2>1
    <3>3. Away(doc[e], inbox[e], source'[Window(e)], Sent(posted, e))
      BY <3>1, <3>2 DEF Away
    <3> QED BY <1>7, <1>8, <1>10, <2>5, <3>3 DEF Phase
  <2> QED BY <2>2, <2>3, <2>4, <2>5
<1> QED BY <1>12, <1>13, <1>15, <1>16, <1>17, <1>18 DEF Base

----
(* The router's message_handler.                                           *)

\* What frames post.
LEMMA PostKinds ==
  ASSUME Base, NEW d \in Docs, NEW m \in Sent(posted, d)
  PROVE  m.kind \in Talk \cup {"bye", "init"}
<1>1. Phase(doc[d], inbox[d], source[Window(d)], current # Window(d), Sent(posted, d), d \in loaded)
  BY DEF Base, PhaseOK
<1> QED BY <1>1 DEF Phase, Fresh, Asked, Answered, Running, Shut, Away

\* The first message, its sender, and the window it came from.
First(e, m, w) ==
  /\ posted # <<>> /\ e = posted[1].from /\ m = posted[1].msg /\ w = Window(e)
  /\ e \in Docs /\ m \in Message /\ w \in Windows /\ m \in Sent(posted, e)
  /\ m.kind \in Talk \cup {"bye", "init"}

\* There is one when posted is not empty.
LEMMA FirstOf ==
  ASSUME Base, posted # <<>>
  PROVE  /\ \E e \in Docs, m \in Message, w \in Windows : First(e, m, w)
         /\ Head(posted) = posted[1]
<1>1. posted \in Seq(Post)
  BY DEF Base, Types
<1>2. 1 \in DOMAIN posted /\ Head(posted) = posted[1]
  BY <1>1, TailTails
<1>3. PICK e \in Docs, m \in Message : e = posted[1].from /\ m = posted[1].msg
  BY <1>1, <1>2, PostedBy
<1>4. m \in Sent(posted, e)
  BY <1>1, <1>2, <1>3, PostedBy
<1>5. m.kind \in Talk \cup {"bye", "init"}
  BY <1>4, PostKinds
<1>6. PICK w \in Windows : w = Window(e)
  BY DocWindow
<1>7. First(e, m, w)
  BY <1>3, <1>4, <1>5, <1>6 DEF First
<1> QED BY <1>2, <1>7

\* The router takes a message, and sends q.
Takes(q) ==
  /\ doc[Top].ready /\ posted' = Tail(posted)
  /\ DOMAIN doc' = Docs \cup {Top} /\ \A d \in Docs \cup {Top} : doc'[d] = doc[d]
  /\ q \in Seq(Message) /\ \A i \in DOMAIN q : q[i].kind \in Talk \cup {"kill", "logout"}
  /\ q # <<>> => doc[Top].ws # "null"
  /\ up' = IF link = "up" THEN up \o q ELSE up
  /\ UNCHANGED <<shown, loaded, current, down, served, link, confused>>

\* Nobody is told.
Drops(m, w, q) ==
  /\ InWindow(w) = {} \/ (m.kind \in Talk /\ source[w] = 0)
  /\ q = <<>> /\ UNCHANGED <<source, unique_id, inbox>>

\* Binary data of a frame without a name goes to the server all the same.
Strays(m, w, q) ==
  /\ InWindow(w) # {} /\ m.kind = "data" /\ m.arg = "raw" /\ source[w] = 0
  /\ q = IF doc[Top].ws = "null" THEN <<>> ELSE <<m>>
  /\ UNCHANGED <<source, unique_id, inbox>>

\* The message goes to the server, an open with the name of its frame.
Passes(m, w, q) ==
  /\ InWindow(w) # {} /\ m.kind \in Talk /\ source[w] # 0
  /\ q = IF doc[Top].ws = "null" THEN <<>>
         ELSE <<IF m.kind = "open" THEN [m EXCEPT !.arg = w] ELSE m>>
  /\ UNCHANGED <<source, unique_id, inbox>>

\* unregister
Leaves(m, w, q) ==
  /\ InWindow(w) # {} /\ m.kind = "bye"
  /\ q = IF source[w] = 0 \/ doc[Top].ws = "null" THEN <<>> ELSE <<Msg("kill", NoId, w)>>
  /\ source' = [source EXCEPT ![w] = 0] /\ UNCHANGED <<unique_id, inbox>>

\* register
Enters(m, w, q) ==
  /\ InWindow(w) # {} /\ m.kind = "init"
  /\ q = IF source[w] = 0 \/ doc[Top].ws = "null" THEN <<>> ELSE <<Msg("kill", NoId, w)>>
  /\ Register(w)

\* The cases of message_handler.
LEMMA HandlerCases ==
  ASSUME Base, PostedMessage, NEW e, NEW m, NEW w, First(e, m, w)
  PROVE  \E q : Takes(q) /\ (Drops(m, w, q) \/ Strays(m, w, q) \/ Passes(m, w, q) \/ Leaves(m, w, q) \/ Enters(m, w, q))
<1>1. /\ posted # <<>> /\ doc[Top].ready /\ posted' = Tail(posted) /\ Head(posted) = posted[1]
      /\ UNCHANGED <<shown, loaded, current, down, served, link, confused>>
  BY FirstOf DEF PostedMessage, server
<1>2. e = Head(posted).from /\ m = Head(posted).msg /\ w = Window(Head(posted).from)
      /\ m \in Message /\ w \in Windows /\ m.kind \in Talk \cup {"bye", "init"}
  BY <1>1 DEF First
<1>3. PICK T \in Page(Mine(Top)) : T = doc[Top] /\ T.out = <<>>
  BY TopPage
<1>4. [T EXCEPT !.out = <<>>] = T
  BY <1>3 DEF Page
<1>5. DOMAIN doc = Docs \cup {Top} /\ up \in Seq(Message)
  BY DEF Base, Types
<1>6. up \o <<>> = up
  BY <1>5
<1>7. \A i \in DOMAIN <<>> : FALSE
  OBVIOUS
<1>8. CASE InWindow(w) = {}
  <2>1. doc' = doc /\ up' = up /\ UNCHANGED <<source, unique_id, inbox>>
    BY <1>2, <1>8 DEF PostedMessage
  <2>2. PICK q \in Seq(Message) : q = <<>>
    BY EmptySeq
  <2>3. Takes(q)
    BY <1>1, <1>5, <1>6, <1>7, <2>1, <2>2 DEF Takes
  <2> QED BY <1>8, <2>1, <2>2, <2>3 DEF Drops
<1>9. CASE InWindow(w) # {}
  <2>1. PICK D : D = CASE m.kind \in {"bye", "init"} -> Unregister(doc[Top], w)
                       [] m.kind = "open" /\ Forwards(w, m) -> SendData(doc[Top], [m EXCEPT !.arg = w])
                       [] m.kind \notin {"bye", "init", "open"} /\ Forwards(w, m) -> SendData(doc[Top], m)
                       [] OTHER -> doc[Top]
    OBVIOUS
  <2>2. /\ doc' = [doc EXCEPT ![Top] = [D EXCEPT !.out = <<>>]]
        /\ up' = IF link = "up" THEN up \o D.out ELSE up
        /\ CASE m.kind = "init" -> Register(w)
             [] m.kind = "bye" -> /\ source' = [source EXCEPT ![w] = 0]
                                  /\ UNCHANGED <<unique_id, inbox>>
             [] OTHER -> UNCHANGED <<source, unique_id, inbox>>
    BY <1>2, <1>9, <2>1 DEF PostedMessage
  <2>3. ASSUME [D EXCEPT !.out = <<>>] = doc[Top], D.out \in Seq(Message),
               \A i \in DOMAIN D.out : D.out[i].kind \in Talk \cup {"kill", "logout"},
               D.out # <<>> => doc[Top].ws # "null"
        PROVE  Takes(D.out)
    <3>1. DOMAIN doc' = Docs \cup {Top} /\ \A d \in Docs \cup {Top} : doc'[d] = doc[d]
      BY <1>5, <2>2, <2>3
    <3> QED BY <1>1, <2>2, <2>3, <3>1 DEF Takes
  <2>4. CASE m.kind \in {"bye", "init"}
    <3>1. D = Unregister(doc[Top], w)
      BY <2>1, <2>4
    <3>2. /\ [D EXCEPT !.out = <<>>] = doc[Top] /\ D.out \in Seq(Message)
          /\ D.out = IF source[w] = 0 \/ doc[Top].ws = "null" THEN <<>> ELSE <<Msg("kill", NoId, w)>>
          /\ \A i \in DOMAIN D.out : D.out[i].kind \in Talk \cup {"kill", "logout"}
      BY <1>2, <3>1, Unregisters
    <3>3. Takes(D.out)
      BY <2>3, <3>2
    <3>4. CASE m.kind = "bye"
      <4>1. Leaves(m, w, D.out)
        BY <1>9, <2>2, <3>2, <3>4 DEF Leaves
      <4> QED BY <3>3, <4>1
    <3>5. CASE m.kind = "init"
      <4>1. Enters(m, w, D.out)
        BY <1>9, <2>2, <3>2, <3>5 DEF Enters
      <4> QED BY <3>3, <4>1
    <3> QED BY <2>4, <3>4, <3>5
  <2>5. CASE m.kind \in Talk /\ Forwards(w, m)
    <3>1. PICK mm : mm = IF m.kind = "open" THEN [m EXCEPT !.arg = w] ELSE m
      OBVIOUS
    <3>2. mm \in Message /\ mm.kind = m.kind
      BY <1>2, <3>1 DEF Message, Args
    <3>3. D = SendData(doc[Top], mm)
      BY <2>1, <2>5, <3>1 DEF Talk
    <3>4. [D EXCEPT !.out = <<>>] = doc[Top] /\ D.out = IF doc[Top].ws = "null" THEN <<>> ELSE <<mm>>
      BY <3>2, <3>3, TopSends
    <3>5. <<mm>> \in Seq(Message) /\ \A i \in DOMAIN <<mm>> : <<mm>>[i].kind \in Talk
      BY <2>5, <3>2, OneType
    <3>6. D.out \in Seq(Message) /\ \A i \in DOMAIN D.out : D.out[i].kind \in Talk \cup {"kill", "logout"}
      <4>1. CASE doc[Top].ws = "null"
        <5>1. D.out = <<>>
          BY <3>4, <4>1
        <5>2. D.out \in Seq(Message) /\ \A i \in DOMAIN D.out : FALSE
          BY <5>1, EmptySeq
        <5> QED BY <5>2
      <4>2. CASE doc[Top].ws # "null"
        BY <3>4, <3>5, <4>2
      <4> QED BY <4>1, <4>2
    <3>7. Takes(D.out)
      BY <2>3, <3>4, <3>6
    <3>8. Passes(m, w, D.out) \/ Strays(m, w, D.out)
      BY <1>9, <2>2, <2>5, <3>1, <3>4 DEF Passes, Strays, Talk, Forwards
    <3> QED BY <3>7, <3>8
  <2>6. CASE m.kind \in Talk /\ ~Forwards(w, m)
    <3>1. D = T
      BY <1>3, <2>1, <2>6 DEF Talk
    <3>2. D.out = <<>> /\ [D EXCEPT !.out = <<>>] = doc[Top]
      BY <1>3, <1>4, <3>1
    <3>3. D.out \in Seq(Message) /\ \A i \in DOMAIN D.out : FALSE
      BY <3>2, EmptySeq
    <3>4. Takes(D.out)
      BY <2>3, <3>2, <3>3
    <3>5. Drops(m, w, D.out)
      BY <2>2, <2>6, <3>2 DEF Drops, Talk, Forwards
    <3> QED BY <3>4, <3>5
  <2> QED BY <1>2, <2>4, <2>5, <2>6
<1> QED BY <1>8, <1>9

\* What the router takes from posted.
LEMMA TakesPosted ==
  ASSUME Base, NEW e, NEW m, NEW w, First(e, m, w), posted' = Tail(posted)
  PROVE  /\ posted' \in Seq(Post) /\ Tails(posted', posted)
         /\ \A i \in DOMAIN posted' : i + 1 \in DOMAIN posted /\ posted'[i] = posted[i + 1] /\ i + 1 > 1
         /\ \A d : Sent(posted', d) \subseteq Sent(posted, d)
         /\ \A d : d # e => Sent(posted', d) = Sent(posted, d)
<1>1. posted \in Seq(Post)
  BY DEF Base, Types
<1>2. posted # <<>> /\ posted[1].from = e
  BY DEF First
<1>3. PICK t \in Seq(Post) : t = posted' /\ Tails(t, posted)
  BY <1>1, <1>2, TailTails
<1>4. DOMAIN t = 1..(Len(posted) - 1) /\ \A i \in DOMAIN t : i + 1 \in DOMAIN posted /\ t[i] = posted[i + 1]
  BY <1>1, <1>3, TailsElem
<1>5. \A i \in DOMAIN t : i + 1 > 1
  BY <1>1, <1>4
<1>6. \A d : Sent(t, d) \subseteq Sent(posted, d) /\ (d # e => Sent(t, d) = Sent(posted, d))
  BY <1>1, <1>2, <1>3, TailsSent
<1> QED BY <1>3, <1>4, <1>5, <1>6

\* The parts of Base that no message to the router touches.
LEMMA TakesBase ==
  ASSUME Base, NEW e, NEW m, NEW w, First(e, m, w), NEW q, Takes(q),
         source' \in [Windows -> Nat], unique_id' \in Nat, inbox' \in [Docs -> Seq(Message)],
         \A d \in Docs : d \notin loaded => inbox'[d] = inbox[d],
         FramesOK', PostedOK', PhaseOK'
  PROVE  Base'
<1>1. Types /\ FramesOK /\ NextOK /\ TopOK
  BY DEF Base
<1>2. /\ DOMAIN doc' = Docs \cup {Top} /\ \A d \in Docs \cup {Top} : doc'[d] = doc[d]
  BY DEF Takes
<1>3. /\ posted' \in Seq(Post) /\ \A d : Sent(posted', d) \subseteq Sent(posted, d)
  BY TakesPosted DEF Takes
<1>4. UNCHANGED <<shown, loaded, current, down, served, link>>
  BY DEF Takes
<1>5. Calm
  BY <1>1 DEF Takes, TopOK, Calm
<1>6. up' \in Seq(Message) /\ TopOK'
  <2>1. q \in Seq(Message) /\ \A i \in DOMAIN q : q[i].kind \in Talk \cup {"kill", "logout"}
    BY DEF Takes
  <2>2. up' = up \/ (up' = up \o q /\ doc[Top].ws # "null" /\ Calm)
    <3>1. q = <<>> => up \o q = up
      BY <1>1, <2>1, UpCat DEF Types
    <3> QED BY <1>5, <3>1 DEF Takes
  <2> QED BY <1>2, <1>4, <1>5, <2>1, <2>2, TopGrows
<1>7. Types'
  <2>1. \A d \in Docs \cup {Top} : Sound(doc'[d], Mine(d))
    BY <1>1, <1>2 DEF Types
  <2> QED BY <1>1, <1>2, <1>3, <1>4, <1>6, <2>1 DEF Types
<1>8. NextOK'
  <2> SUFFICES ASSUME link # "gone", NEW v \in Windows, NEW n \in DOMAIN Documents[v], n > shown[v],
                      NEW d, d = Documents[v][n]
               PROVE  doc'[d] = NewPage(Mine(d)) /\ inbox'[d] = <<>> /\ Sent(posted', d) = {}
    BY <1>4 DEF NextOK
  <2>1. d \in Docs \ loaded
    BY NotShown
  <2>2. doc[d] = NewPage(Mine(d)) /\ inbox[d] = <<>> /\ Sent(posted, d) = {}
    BY <1>1 DEF NextOK
  <2>3. Sent(posted', d) = {}
    BY <1>3, <2>2
  <2> QED BY <1>2, <2>1, <2>2, <2>3
<1> QED BY <1>6, <1>7, <1>8 DEF Base

\* A document after one of its messages, which was no init, was taken.
LEMMA ShrinkPhase ==
  ASSUME NEW D, NEW box, NEW src, NEW hid, NEW S, NEW on, Phase(D, box, src, hid, S, on), NEW R, R \subseteq S,
         NEW m \in S, m.kind # "init"
  PROVE  Phase(D, box, src, hid, R, on)
<1>1. CASE ~on
  BY <1>1 DEF Phase, Away
<1>2. CASE on
  <2>1. ~Fresh(D, box, src, S) /\ ~Asked(D, box, src, S) /\ ~Answered(D, box, src, hid, S)
    BY DEF Fresh, Asked, Answered
  <2>2. Running(D, box, src, hid, S) => Running(D, box, src, hid, R)
    BY DEF Running
  <2>3. Shut(D, box, src, S) => Shut(D, box, src, R)
    BY DEF Shut
  <2> QED BY <1>2, <2>1, <2>2, <2>3 DEF Phase
<1> QED BY <1>1, <1>2

\* A message is dropped, or passed on.
LEMMA PlainTake ==
  ASSUME Base, NEW e, NEW m, NEW w, First(e, m, w), NEW q, Takes(q), Drops(m, w, q) \/ Strays(m, w, q) \/ Passes(m, w, q)
  PROVE  Base'
<1>1. Types /\ FramesOK /\ PostedOK /\ PhaseOK
  BY DEF Base
<1>2. UNCHANGED <<source, unique_id, inbox, shown, loaded, current, link>>
  BY DEF Drops, Strays, Passes, Takes
<1>3. /\ \A i \in DOMAIN posted' : i + 1 \in DOMAIN posted /\ posted'[i] = posted[i + 1]
      /\ \A d : Sent(posted', d) \subseteq Sent(posted, d)
      /\ \A d : d # e => Sent(posted', d) = Sent(posted, d)
  BY TakesPosted DEF Takes
<1>4. \A i, j \in DOMAIN posted' : i < j => i + 1 < j + 1
  <2>1. \A i \in DOMAIN posted' : i \in Nat
    BY TakesPosted DEF Takes
  <2> QED BY <2>1
<1>5. FramesOK'
  BY <1>1, <1>2 DEF FramesOK, InWindow
<1>6. PostedOK'
  BY <1>1, <1>2, <1>3, <1>4 DEF PostedOK
<1>7. m.kind # "init" \/ e \notin loaded
  <2>1. CASE InWindow(w) = {}
    <3>1. e \in ToSet(Documents[w])
      BY DocWindow DEF First
    <3> QED BY <2>1, <3>1 DEF InWindow
  <2> QED BY <2>1 DEF Drops, Strays, Passes, Talk
<1>8. PhaseOK'
  <2> SUFFICES ASSUME NEW d \in Docs
               PROVE  Phase(doc'[d], inbox'[d], source'[Window(d)], current' # Window(d), Sent(posted', d), d \in loaded')
    BY DEF PhaseOK
  <2>1. Phase(doc[d], inbox[d], source[Window(d)], current # Window(d), Sent(posted, d), d \in loaded)
    BY <1>1 DEF PhaseOK
  <2>2. doc'[d] = doc[d]
    BY DEF Takes
  <2>3. CASE d # e
    <3>1. Sent(posted', d) = Sent(posted, d)
      BY <1>3, <2>3
    <3> QED BY <1>2, <2>1, <2>2, <3>1
  <2>4. CASE d = e /\ m.kind # "init"
    <3>1. m \in Sent(posted, d) /\ Sent(posted', d) \subseteq Sent(posted, d)
      BY <1>3, <2>4 DEF First
    <3>2. Phase(doc[d], inbox[d], source[Window(d)], current # Window(d), Sent(posted', d), d \in loaded)
      BY <2>1, <2>4, <3>1, ShrinkPhase
    <3> QED BY <1>2, <2>2, <3>2
  <2>5. CASE d = e /\ e \notin loaded
    <3>1. Sent(posted', d) \subseteq Sent(posted, d)
      BY <1>3
    <3>2. Away(doc[d], inbox[d], source[Window(d)], Sent(posted, d))
      BY <2>1, <2>5 DEF Phase
    <3>3. Away(doc[d], inbox[d], source[Window(d)], Sent(posted', d))
      BY <3>1, <3>2 DEF Away
    <3> QED BY <1>2, <2>2, <2>5, <3>3 DEF Phase
  <2> QED BY <1>7, <2>3, <2>4, <2>5
<1>9. source' \in [Windows -> Nat] /\ unique_id' \in Nat /\ inbox' \in [Docs -> Seq(Message)]
  BY <1>1, <1>2 DEF Types
<1> QED BY <1>2, <1>5, <1>6, <1>8, <1>9, TakesBase

\* A frame leaves.
LEMMA LeavesBase ==
  ASSUME Base, NEW e, NEW m, NEW w, First(e, m, w), NEW q, Takes(q), Leaves(m, w, q)
  PROVE  Base'
<1>1. Types /\ FramesOK /\ PostedOK /\ PhaseOK
  BY DEF Base
<1>2. UNCHANGED <<unique_id, inbox, shown, loaded, current, link>> /\ m.kind = "bye" /\ source' = [source EXCEPT ![w] = 0]
  BY DEF Leaves, Takes
<1>3. /\ \A i \in DOMAIN posted' : i + 1 \in DOMAIN posted /\ posted'[i] = posted[i + 1]
      /\ \A d : Sent(posted', d) \subseteq Sent(posted, d)
      /\ \A d : d # e => Sent(posted', d) = Sent(posted, d)
  BY TakesPosted DEF Takes
<1>4. \A i, j \in DOMAIN posted' : i < j => i + 1 < j + 1
  <2>1. \A i \in DOMAIN posted' : i \in Nat
    BY TakesPosted DEF Takes
  <2> QED BY <2>1
<1>5. w \in Windows /\ e \in Docs /\ w = Window(e) /\ m \in Sent(posted, e)
  BY DEF First
<1>6. source'[w] = 0 /\ (\A v \in Windows : v # w => source'[v] = source[v]) /\ source' \in [Windows -> Nat]
  BY <1>1, <1>2, <1>5 DEF Types
<1>7. FramesOK'
  <2>1. \A v \in Windows : source'[v] <= unique_id
    <3>1. 0 <= unique_id
      BY <1>1 DEF Types
    <3> QED BY <1>1, <1>6, <3>1 DEF FramesOK
  <2>2. \A u, v \in Windows : source'[u] = source'[v] /\ source'[u] # 0 => u = v
    BY <1>1, <1>6 DEF FramesOK
  <2>3. \A v \in Windows : source'[v] # 0 => source[v] # 0
    BY <1>6
  <2> QED BY <1>1, <1>2, <2>1, <2>2, <2>3 DEF FramesOK, InWindow
<1>8. PostedOK'
  <2>1. ASSUME NEW i \in DOMAIN posted', posted'[i].msg.kind \in Talk
        PROVE  /\ posted'[i].msg.id[1] \in 1..unique_id
               /\ \A v \in Windows : source'[v] = posted'[i].msg.id[1] => v = Window(posted'[i].from)
    <3>1. i + 1 \in DOMAIN posted /\ posted'[i] = posted[i + 1]
      BY <1>3
    <3>2. /\ posted[i + 1].msg.id[1] \in 1..unique_id
          /\ \A v \in Windows : source[v] = posted[i + 1].msg.id[1] => v = Window(posted[i + 1].from)
      BY <1>1, <2>1, <3>1 DEF PostedOK
    <3>3. posted[i + 1].msg.id[1] # 0
      BY <1>1, <3>2 DEF Types
    <3> QED BY <1>6, <3>1, <3>2, <3>3
  <2>2. \A i, j \in DOMAIN posted' :
          posted'[i].msg.kind = "init" /\ i < j => Window(posted'[j].from) # Window(posted'[i].from)
    BY <1>1, <1>3, <1>4 DEF PostedOK
  <2> QED BY <1>2, <2>1, <2>2 DEF PostedOK
<1>9. ASSUME NEW d \in loaded, Window(d) = w
      PROVE  source[w] = 0 \/ Shut(doc[d], inbox[d], source[w], Sent(posted, d))
  <2>1. CASE d = e
    <3>1. Phase(doc[d], inbox[d], source[w], current # w, Sent(posted, d), TRUE)
      BY <1>9, LoadedPhase
    <3> QED BY <1>2, <1>5, <2>1, <3>1 DEF Phase, Fresh, Asked, Answered, Running, Talk
  <2>2. CASE d # e
    <3>1. e \notin loaded
      BY <1>1, <1>5, <1>9, <2>2, OneLoaded
    <3>2. Away(doc[e], inbox[e], source[w], Sent(posted, e))
      BY <1>1, <1>5, <3>1 DEF PhaseOK, Phase
    <3> QED BY <1>5, <3>2 DEF Away
  <2> QED BY <2>1, <2>2
<1>10. PhaseOK'
  <2> SUFFICES ASSUME NEW d \in Docs
               PROVE  Phase(doc'[d], inbox'[d], source'[Window(d)], current' # Window(d), Sent(posted', d), d \in loaded')
    BY DEF PhaseOK
  <2>1. Phase(doc[d], inbox[d], source[Window(d)], current # Window(d), Sent(posted, d), d \in loaded)
    BY <1>1 DEF PhaseOK
  <2>2. doc'[d] = doc[d] /\ Window(d) \in Windows
    BY DocWindow DEF Takes
  <2>3. Phase(doc[d], inbox[d], source[Window(d)], current # Window(d), Sent(posted', d), d \in loaded)
    <3>1. CASE d # e
      <4>1. Sent(posted', d) = Sent(posted, d)
        BY <1>3, <3>1
      <4> QED BY <2>1, <4>1
    <3>2. CASE d = e
      <4>1. m \in Sent(posted, d) /\ Sent(posted', d) \subseteq Sent(posted, d) /\ m.kind # "init"
        BY <1>2, <1>3, <1>5, <3>2
      <4> QED BY <2>1, <4>1, ShrinkPhase
    <3> QED BY <3>1, <3>2
  <2>4. CASE source'[Window(d)] = source[Window(d)]
    BY <1>2, <2>2, <2>3, <2>4
  <2>5. CASE source'[Window(d)] # source[Window(d)]
    <3>1. Window(d) = w /\ source[w] # 0 /\ source'[w] = 0
      BY <1>6, <2>2, <2>5
    <3>2. CASE d \in loaded
      <4>1. Shut(doc[d], inbox[d], source[w], Sent(posted, d))
        BY <1>9, <3>1, <3>2
      <4>2. Shut(doc[d], inbox[d], 0, Sent(posted', d))
        BY <1>3, <4>1 DEF Shut
      <4> QED BY <1>2, <2>2, <3>1, <3>2, <4>2 DEF Phase
    <3>3. CASE d \notin loaded
      <4>1. Away(doc[d], inbox[d], source[w], Sent(posted', d))
        BY <2>3, <3>1, <3>3 DEF Phase
      <4>2. Away(doc[d], inbox[d], 0, Sent(posted', d))
        BY <4>1 DEF Away
      <4> QED BY <1>2, <2>2, <3>1, <3>3, <4>2 DEF Phase
    <3> QED BY <3>2, <3>3
  <2> QED BY <2>4, <2>5
<1>11. unique_id' \in Nat /\ inbox' \in [Docs -> Seq(Message)]
  BY <1>1, <1>2 DEF Types
<1> QED BY <1>2, <1>6, <1>7, <1>8, <1>10, <1>11, TakesBase

\* The inbox of a frame that was registered.
LEMMA RegisterBox ==
  ASSUME Base, NEW e \in loaded, NEW w, w = Window(e), inbox[e] = <<>>, Register(w), ~doc[e].hidden
  PROVE  /\ inbox' \in [Docs -> Seq(Message)] /\ \A d \in Docs : d # e => inbox'[d] = inbox[d]
         /\ inbox'[e] # <<>> /\ inbox'[e][1].kind = "init" /\ inbox'[e][1].id = <<unique_id + 1, 0>>
         /\ \A i \in DOMAIN inbox'[e] : i # 1 => inbox'[e][i].kind \in Plain
         /\ Final(doc[e], inbox'[e], current # w)
<1>1. Types /\ FramesOK /\ e \in Docs /\ w \in Windows
  BY DocWindow DEF Base, Types
<1>2. PICK init \in Message : /\ init = Msg("init", <<unique_id + 1, 0>>,
                                            IF doc[Top].waiting_for_init THEN "not-supported" ELSE "none")
                              /\ init.kind = "init" /\ init.id = <<unique_id + 1, 0>>
  <2>1. <<unique_id + 1, 0>> \in Ids
    BY <1>1, IdType DEF Types
  <2> QED BY <2>1, MsgType DEF Kinds, Talk, Args, Problems
<1>3. PICK hint \in Message : hint = Msg("hint", NoId, "hidden") /\ hint.kind = "hint" /\ hint.arg = "hidden"
  <2>1. NoId \in Ids
    BY IdType DEF NoId
  <2> QED BY <2>1, MsgType DEF Kinds, Talk, Args, Problems
<1>4. PICK box : box = Posted(inbox, {w}, init)
  OBVIOUS
<1>5. inbox' = IF current # w
               THEN [d \in Docs |-> IF d \in InWindow(w) THEN Append(box[d], hint) ELSE box[d]]
               ELSE box
  BY <1>2, <1>3, <1>4 DEF Register
<1>6. \A d \in Docs : (d \in loaded /\ Window(d) = w) <=> d = e
  BY <1>1, OneLoaded
<1>7. \A d \in Docs : d \in InWindow(w) <=> d = e
  <2>1. \A d \in Docs : d \in ToSet(Documents[w]) <=> Window(d) = w
    BY <1>1, DocWindow
  <2> QED BY <1>6, <2>1 DEF InWindow
<1>8. box = [d \in Docs |-> IF d = e THEN Append(inbox[d], init) ELSE inbox[d]]
  BY <1>4, <1>6 DEF Posted
<1>9. Append(<<>>, init) = <<init>>
  OBVIOUS
<1>10. box[e] = <<init>> /\ \A d \in Docs : d # e => box[d] = inbox[d]
  BY <1>1, <1>8, <1>9
<1>11. inbox \in [Docs -> Seq(Message)]
  BY <1>1 DEF Types
<1>12. CASE current # w
  <2>1. inbox' = [d \in Docs |-> IF d = e THEN Append(box[d], hint) ELSE box[d]]
    BY <1>5, <1>7, <1>12
  <2>2. PICK s \in Seq(Message) : s = <<init>> /\ Len(s) = 1 /\ s[1] = init
    <3>1. <<init>> \in Seq(Message)
      OBVIOUS
    <3>2. Len(<<init>>) = 1
      OBVIOUS
    <3>3. <<init>>[1] = init
      OBVIOUS
    <3> QED BY <3>1, <3>2, <3>3, Zenon
  <2>3. PICK t \in Seq(Message) : t = Append(s, hint) /\ Appends(t, s, hint)
    BY AppendAppends
  <2>4. DOMAIN t = 1..2 /\ t[1] = init /\ t[2] = hint /\ inbox'[e] = t /\ \A d \in Docs : d # e => inbox'[d] = inbox[d]
    <3>1. Len(t) = 1 + 1 /\ t[1 + 1] = hint /\ t[1] = s[1]
      BY <2>2, <2>3 DEF Appends
    <3>2. DOMAIN t = 1..Len(t)
      OBVIOUS
    <3>3. inbox'[e] = t /\ \A d \in Docs : d # e => inbox'[d] = inbox[d]
      BY <1>1, <1>10, <2>1, <2>2, <2>3
    <3> QED BY <2>2, <3>1, <3>2, <3>3
  <2>5. inbox' \in [Docs -> Seq(Message)]
    <3>1. \A d \in Docs : inbox'[d] \in Seq(Message)
      BY <1>11, <2>4
    <3>2. inbox' = [d \in Docs |-> inbox'[d]]
      BY <2>1
    <3> QED BY <3>1, <3>2
  <2>6. Final(doc[e], t, TRUE)
    <3>1. \A j \in DOMAIN t : ~(2 < j)
      BY <2>4
    <3>2. 2 \in DOMAIN t /\ t[2].kind = "hint" /\ (t[2].arg = "hidden") = TRUE
      BY <1>3, <2>4
    <3> QED BY <3>1, <3>2 DEF Final
  <2>7. t # <<>> /\ \A i \in DOMAIN t : i # 1 => t[i].kind \in Plain
    BY <1>3, <2>4 DEF Plain
  <2>8. Final(doc[e], t, current # w)
    BY <1>12, <2>6
  <2> QED BY <1>2, <2>4, <2>5, <2>7, <2>8
<1>13. CASE current = w
  <2>1. inbox' = box
    BY <1>5, <1>13
  <2>2. PICK t : t = <<init>>
    OBVIOUS
  <2>3. t \in Seq(Message) /\ DOMAIN t = 1..1 /\ t[1] = init
    BY <2>2
  <2>4. inbox'[e] = t /\ \A d \in Docs : d # e => inbox'[d] = inbox[d]
    BY <1>10, <2>1, <2>2
  <2>5. inbox' \in [Docs -> Seq(Message)]
    <3>1. \A d \in Docs : inbox'[d] \in Seq(Message)
      BY <1>11, <2>3, <2>4
    <3>2. inbox' = [d \in Docs |-> inbox'[d]]
      BY <1>8, <2>1
    <3> QED BY <3>1, <3>2
  <2>6. Final(doc[e], t, FALSE)
    <3>1. \A i \in DOMAIN t : t[i].kind # "hint"
      BY <1>2, <2>3
    <3>2. doc[e].hidden = FALSE
      <4>1. doc[e] \in Page(Mine(e))
        BY LoadedPhase
      <4>2. doc[e].hidden \in BOOLEAN
        BY <4>1 DEF Page
      <4> QED BY <4>2
    <3> QED BY <3>1, <3>2 DEF Final
  <2>7. t # <<>> /\ \A i \in DOMAIN t : i # 1 => t[i].kind \in Plain
    BY <2>3
  <2>8. Final(doc[e], t, current # w)
    BY <1>13, <2>6
  <2> QED BY <1>2, <2>3, <2>4, <2>5, <2>7, <2>8
<1> QED BY <1>12, <1>13

\* A frame enters.
LEMMA EntersBase ==
  ASSUME Base, NEW e, NEW m, NEW w, First(e, m, w), NEW q, Takes(q), Enters(m, w, q)
  PROVE  /\ Base' /\ e \in loaded /\ source[w] = 0 /\ q = <<>> /\ source' = [source EXCEPT ![w] = unique_id + 1]
         /\ unique_id' = unique_id + 1
         /\ \A i \in DOMAIN posted' : Window(posted'[i].from) # w
         /\ inbox' \in [Docs -> Seq(Message)]
<1>1. Types /\ FramesOK /\ PostedOK /\ PhaseOK
  BY DEF Base
<1>2. /\ UNCHANGED <<shown, loaded, current, link>> /\ m.kind = "init" /\ Register(w)
      /\ unique_id' = unique_id + 1 /\ source' = [source EXCEPT ![w] = unique_id + 1]
  BY DEF Enters, Takes, Register
<1>3. w \in Windows /\ e \in Docs /\ w = Window(e) /\ m \in Sent(posted, e)
  BY DEF First
<1>4. e \in loaded /\ Asked(doc[e], inbox[e], source[w], Sent(posted, e))
  BY <1>1, <1>2, <1>3, InitLoaded
<1>5. source[w] = 0 /\ inbox[e] = <<>> /\ ~doc[e].hidden /\ q = <<>>
  BY <1>4 DEF Asked, Enters
<1>6. /\ inbox' \in [Docs -> Seq(Message)] /\ \A d \in Docs : d # e => inbox'[d] = inbox[d]
      /\ inbox'[e] # <<>> /\ inbox'[e][1].kind = "init" /\ inbox'[e][1].id = <<unique_id + 1, 0>>
      /\ \A i \in DOMAIN inbox'[e] : i # 1 => inbox'[e][i].kind \in Plain
      /\ Final(doc[e], inbox'[e], current # w)
  BY <1>2, <1>3, <1>4, <1>5, RegisterBox
<1>7. PICK u \in Nat : u = unique_id
  BY <1>1 DEF Types
<1>8. /\ source'[w] = u + 1 /\ (\A v \in Windows : v # w => source'[v] = source[v])
      /\ source' \in [Windows -> Nat]
  BY <1>1, <1>2, <1>3, <1>7 DEF Types
<1>9. \A v \in Windows : source[v] \in Nat /\ source[v] <= u /\ source[v] # u + 1
  BY <1>1, <1>7 DEF Types, FramesOK
<1>10. /\ posted' \in Seq(Post)
       /\ \A i \in DOMAIN posted' : i + 1 \in DOMAIN posted /\ posted'[i] = posted[i + 1] /\ i + 1 > 1
       /\ \A d : d # e => Sent(posted', d) = Sent(posted, d)
  BY TakesPosted DEF Takes
<1>11. \A i \in DOMAIN posted' : Window(posted'[i].from) # w
  <2> SUFFICES ASSUME NEW i \in DOMAIN posted'
               PROVE  Window(posted[i + 1].from) # w
    BY <1>10
  <2>1. 1 \in DOMAIN posted /\ posted[1].msg.kind = "init" /\ Window(posted[1].from) = w
    <3>1. posted # <<>> /\ posted \in Seq(Post)
      BY <1>1 DEF First, Types
    <3>2. 1 \in DOMAIN posted
      BY <3>1, TailTails
    <3> QED BY <1>2, <3>2 DEF First
  <2>2. PICK j \in DOMAIN posted : j = i + 1 /\ 1 < j
    BY <1>10
  <2> QED BY <1>1, <2>1, <2>2 DEF PostedOK
<1>12. \A d : Window(d) = w => Sent(posted', d) = {}
  BY <1>11 DEF Sent
<1>13. FramesOK'
  <2>1. \A v \in Windows : source'[v] <= u + 1
    BY <1>8, <1>9
  <2>2. \A a, b \in Windows : source'[a] = source'[b] /\ source'[a] # 0 => a = b
    BY <1>1, <1>8, <1>9 DEF FramesOK
  <2>3. ASSUME NEW v \in Windows, source'[v] # 0, link # "gone"
        PROVE  InWindow(v) # {}
    <3>1. CASE v = w
      <4>1. e \in ToSet(Documents[w])
        BY <1>3, DocWindow
      <4> QED BY <1>4, <3>1, <4>1 DEF InWindow
    <3>2. CASE v # w
      BY <1>1, <1>8, <2>3, <3>2 DEF FramesOK
    <3> QED BY <3>1, <3>2
  <2> QED BY <1>1, <1>2, <1>7, <2>1, <2>2, <2>3 DEF FramesOK, InWindow
<1>14. PostedOK'
  <2>1. ASSUME NEW i \in DOMAIN posted', posted'[i].msg.kind \in Talk
        PROVE  /\ posted'[i].msg.id[1] \in 1..(u + 1)
               /\ \A v \in Windows : source'[v] = posted'[i].msg.id[1] => v = Window(posted'[i].from)
    <3>1. i + 1 \in DOMAIN posted /\ posted'[i] = posted[i + 1]
      BY <1>10
    <3>2. PICK x : x = posted[i + 1].msg.id[1]
      OBVIOUS
    <3>3. /\ x \in 1..u
          /\ \A v \in Windows : source[v] = x => v = Window(posted[i + 1].from)
      BY <1>1, <1>7, <2>1, <3>1, <3>2 DEF PostedOK
    <3>4. x \in 1..(u + 1) /\ x # u + 1
      BY <3>3
    <3> QED BY <1>8, <3>1, <3>2, <3>3, <3>4
  <2>2. \A i, j \in DOMAIN posted' : i < j => i + 1 < j + 1
    <3>1. \A i \in DOMAIN posted' : i \in Nat
      BY <1>10
    <3> QED BY <3>1
  <2>3. \A i, j \in DOMAIN posted' :
          posted'[i].msg.kind = "init" /\ i < j => Window(posted'[j].from) # Window(posted'[i].from)
    BY <1>1, <1>10, <2>2 DEF PostedOK
  <2> QED BY <1>2, <1>7, <2>1, <2>3 DEF PostedOK
<1>15. PhaseOK'
  <2> SUFFICES ASSUME NEW d \in Docs
               PROVE  Phase(doc'[d], inbox'[d], source'[Window(d)], current' # Window(d), Sent(posted', d), d \in loaded')
    BY DEF PhaseOK
  <2>1. Phase(doc[d], inbox[d], source[Window(d)], current # Window(d), Sent(posted, d), d \in loaded)
    BY <1>1 DEF PhaseOK
  <2>2. doc'[d] = doc[d] /\ Window(d) \in Windows
    BY DocWindow DEF Takes
  <2>3. CASE d = e
    <3>1. Answered(doc[e], inbox'[e], u + 1, current # w, Sent(posted', e))
      <4>1. u + 1 # 0
        BY <1>7
      <4>2. Sent(posted', e) = {}
        BY <1>3, <1>12
      <4> QED BY <1>4, <1>6, <1>7, <4>1, <4>2 DEF Answered, Asked
    <3> QED BY <1>2, <1>3, <1>4, <1>8, <2>2, <2>3, <3>1 DEF Phase
  <2>4. CASE d # e /\ Window(d) = w
    <3>1. d \notin loaded
      BY <1>1, <1>3, <1>4, <2>4, OneLoaded
    <3>2. Away(doc[d], inbox[d], source[w], Sent(posted, d))
      BY <2>1, <2>4, <3>1 DEF Phase
    <3>3. Away(doc[d], inbox[d], u + 1, Sent(posted', d))
      BY <1>12, <2>4, <3>2 DEF Away
    <3> QED BY <1>2, <1>6, <1>8, <2>2, <2>4, <3>1, <3>3 DEF Phase
  <2>5. CASE d # e /\ Window(d) # w
    BY <1>2, <1>6, <1>8, <1>10, <2>1, <2>2, <2>5
  <2> QED BY <2>3, <2>4, <2>5
<1>16. unique_id' \in Nat
  BY <1>2, <1>7
<1>17. \A d \in Docs : d \notin loaded => inbox'[d] = inbox[d]
  BY <1>4, <1>6
<1>18. Base'
  BY <1>6, <1>8, <1>13, <1>14, <1>15, <1>16, <1>17, TakesBase
<1> QED BY <1>2, <1>4, <1>5, <1>6, <1>11, <1>18

\* The router handles a message.
LEMMA PostedBase ==
  ASSUME Base, PostedMessage
  PROVE  Base'
<1>1. posted # <<>>
  BY DEF PostedMessage
<1>2. PICK e \in Docs, m \in Message, w \in Windows : First(e, m, w)
  BY <1>1, FirstOf
<1>3. PICK q : Takes(q) /\ (Drops(m, w, q) \/ Strays(m, w, q) \/ Passes(m, w, q) \/ Leaves(m, w, q) \/ Enters(m, w, q))
  BY <1>2, HandlerCases
<1>4. CASE Drops(m, w, q) \/ Strays(m, w, q) \/ Passes(m, w, q)
  BY <1>2, <1>3, <1>4, PlainTake
<1>5. CASE Leaves(m, w, q)
  BY <1>2, <1>3, <1>5, LeavesBase
<1>6. CASE Enters(m, w, q)
  BY <1>2, <1>3, <1>6, EntersBase
<1> QED BY <1>3, <1>4, <1>5, <1>6

\* The pages before anything happened.
LEMMA FirstPages ==
  ASSUME ShellInit
  PROVE  /\ DOMAIN doc = Docs \cup {Top}
         /\ \A d \in Docs : doc[d] = NewPage(Mine(d))
         /\ \A d \in Docs \cup {Top} : PageOK(doc[d], Mine(d), {}) /\ doc[d].out = <<>> /\ ~doc[d].ready
         /\ doc[Top].ws = "opening" /\ doc[Top].waiting_for_init /\ doc[Top].seed = 0
<1>1. doc = [d \in Docs \cup {Top} |-> IF d = Top THEN CreateChannel(NewPage(Mine(Top)), Watchdog) ELSE NewPage(Mine(d))]
  BY DEF ShellInit
<1>2. DOMAIN doc = Docs \cup {Top} /\ doc[Top] = CreateChannel(NewPage(Mine(Top)), Watchdog)
      /\ \A d \in Docs : doc[d] = NewPage(Mine(d))
  BY <1>1, ShellAssumption
<1>3. ASSUME NEW mine \in Mines
      PROVE  /\ PageOK(NewPage(mine), mine, {}) /\ NewPage(mine).out = <<>> /\ ~NewPage(mine).ready
             /\ NewPage(mine).ws = "none" /\ NewPage(mine).seed = 0 /\ NewPage(mine).waiting_for_init
             /\ NewPage(mine).chan = [c \in mine |-> NewChannel]
  <2>1. PICK F : F = [NewPage(mine) EXCEPT !.ws = "none"]
    OBVIOUS
  <2>2. F = NewPage(mine)
    BY <2>1 DEF NewPage
  <2>3. PICK ws \in {"none", "null"} : ws = "none"
    OBVIOUS
  <2>4. F = [NewPage(mine) EXCEPT !.ws = ws]
    BY <2>1, <2>3
  <2>5. /\ PageOK(F, mine, {}) /\ F.ws = ws /\ F.seed = 0 /\ F.out = <<>> /\ ~F.ready
        /\ F.waiting_for_init /\ F.chan = [c \in mine |-> NewChannel]
    BY <2>4, BlankPage
  <2> QED BY <2>2, <2>3, <2>5
<1>4. PICK mine \in Mines : mine = Mine(Top)
  BY MineType
<1>5. PICK D : D = NewPage(mine)
  OBVIOUS
<1>6. /\ PageOK(D, mine, {}) /\ D.ws = "none" /\ D.out = <<>> /\ ~D.ready /\ D.seed = 0 /\ D.waiting_for_init
      /\ D.chan = [c \in mine |-> NewChannel]
  BY <1>3, <1>5
<1>7. PICK c \in mine : c = Watchdog
  BY <1>4 DEF Mine
<1>8. D.chan[c].stage = "none"
  BY <1>6 DEF NewChannel
<1>9. PICK A \in SUBSET Fact : A = {}
  OBVIOUS
<1>10. PageOK(CreateChannel(D, c), mine, A) /\ Starts(D, CreateChannel(D, c))
  BY <1>6, <1>8, <1>9, CreateOK
<1>11. PICK E : E = CreateChannel(D, c)
  OBVIOUS
<1>12. /\ PageOK(E, mine, {}) /\ E.ws = "opening" /\ E.seed = 0 /\ E.waiting_for_init /\ ~E.ready /\ E.out = <<>>
  BY <1>6, <1>9, <1>10, <1>11 DEF Starts
<1>13. doc[Top] = E
  BY <1>2, <1>4, <1>5, <1>7, <1>11
<1>14. ASSUME NEW d \in Docs
       PROVE  PageOK(doc[d], Mine(d), {}) /\ doc[d].out = <<>> /\ ~doc[d].ready
  <2>1. PICK my \in Mines : my = Mine(d)
    BY MineType
  <2>2. PageOK(NewPage(my), my, {}) /\ NewPage(my).out = <<>> /\ ~NewPage(my).ready
    BY <1>3
  <2> QED BY <1>2, <2>1, <2>2
<1> QED BY <1>2, <1>4, <1>12, <1>13, <1>14

\* Base holds at first.
LEMMA InitBase ==
  ASSUME ShellInit
  PROVE  Base
<1>1. /\ shown = [w \in Windows |-> 0] /\ loaded = {} /\ source = [w \in Windows |-> 0] /\ unique_id = 0
      /\ current = "none" /\ posted = <<>> /\ inbox = [d \in Docs |-> <<>>]
      /\ up = <<>> /\ down = <<>> /\ served = {} /\ link = "up"
  BY DEF ShellInit
<1>2. /\ DOMAIN doc = Docs \cup {Top}
      /\ \A d \in Docs : doc[d] = NewPage(Mine(d))
      /\ \A d \in Docs \cup {Top} : PageOK(doc[d], Mine(d), {}) /\ doc[d].out = <<>> /\ ~doc[d].ready
      /\ doc[Top].ws = "opening" /\ doc[Top].waiting_for_init /\ doc[Top].seed = 0
  BY FirstPages
<1>3. Types
  <2>1. PICK A \in SUBSET Fact : A = {}
    OBVIOUS
  <2>2. \A d \in Docs \cup {Top} : Sound(doc[d], Mine(d))
    BY <1>2, <2>1 DEF Sound
  <2>3. shown \in [Windows -> Nat] /\ source \in [Windows -> Nat] /\ unique_id \in Nat
    BY <1>1
  <2>4. posted \in Seq(Post) /\ inbox \in [Docs -> Seq(Message)] /\ up \in Seq(Message) /\ down \in Seq(Message)
    BY <1>1, EmptySeq
  <2>5. IsFiniteSet(served)
    BY <1>1, FS_EmptySet
  <2> QED BY <1>1, <1>2, <2>2, <2>3, <2>4, <2>5 DEF Types
<1>4. FramesOK
  <2>1. \A w \in Windows : shown[w] = 0 /\ source[w] = 0 /\ Len(Documents[w]) \in Nat
    BY <1>1, ShellAssumption
  <2> QED BY <1>1, <2>1 DEF FramesOK
<1>5. \A d : Sent(posted, d) = {}
  BY <1>1 DEF Sent
<1>6. NextOK
  <2> SUFFICES ASSUME NEW w \in Windows, NEW n \in DOMAIN Documents[w], NEW d, d = Documents[w][n]
               PROVE  doc[d] = NewPage(Mine(d)) /\ inbox[d] = <<>> /\ Sent(posted, d) = {}
    BY DEF NextOK
  <2>1. d \in Docs
    BY DocumentAt
  <2> QED BY <1>1, <1>2, <1>5, <2>1
<1>7. PostedOK
  BY <1>1 DEF PostedOK
<1>8. PhaseOK
  <2> SUFFICES ASSUME NEW d \in Docs
               PROVE  Away(doc[d], inbox[d], source[Window(d)], Sent(posted, d))
    BY <1>1 DEF PhaseOK, Phase
  <2>1. doc[d].ws = "none"
    BY <1>2 DEF NewPage
  <2>2. \A i \in DOMAIN inbox[d] : FALSE
    BY <1>1
  <2> QED BY <1>5, <2>1, <2>2 DEF Away
<1>9. TopOK
  <2>1. (\A i \in DOMAIN up : FALSE) /\ (\A i \in DOMAIN down : FALSE) /\ Len(up) + Len(down) <= 1
    BY <1>1
  <2>2. \A w \in Windows : source[w] = 0
    BY <1>1
  <2> QED BY <1>1, <1>2, <2>1, <2>2 DEF TopOK
<1> QED BY <1>3, <1>4, <1>6, <1>7, <1>8, <1>9 DEF Base

\* Every step keeps Base.
LEMMA BaseStep ==
  ASSUME ~hurried', Base, [ShellNext]_shellvars
  PROVE  Base'
<1>1. ASSUME SomeMoves
      PROVE  Base'
  BY <1>1, MovesBase DEF SomeMoves
<1>2. ASSUME NEW c \in Channels, Create(c) \/ Send(c) \/ Done(c) \/ CloseChannel(c) \/ Wait(c)
      PROVE  Base'
  BY <1>1, <1>2, CallMoves
<1>3. ASSUME NEW d \in Docs \cup {Top}, Opened(d)
      PROVE  Base'
  BY <1>1, <1>3, OpenedMoves, TopOpened
<1>16. ASSUME NEW d \in Docs \cup {Top}, BeforeUnload(d)
      PROVE  Base'
  BY <1>1, <1>16, ExpectMoves, ExpectBase
<1>4. ASSUME NEW d \in Docs, FrameMessage(d)
      PROVE  Base'
  BY <1>1, <1>4, FrameMoves
<1>5. CASE SocketMessage
  BY <1>5, SocketHears, HearsBase
<1>6. CASE PostedMessage
  BY <1>6, PostedBase
<1>7. ASSUME NEW w \in Windows \cup {"none"}, Navigate(w)
      PROVE  Base'
  BY <1>7, NavigateBase
<1>8. ASSUME NEW d \in Docs, NEW next \in BOOLEAN, Unload(d, next)
      PROVE  Base'
  BY <1>8, Unloads, GoodbyeBase
<1>9. CASE HealthCheck
  BY <1>9, HealthBase
<1>10. CASE SocketClosed
  BY <1>10, ClosedBase, LeavingBase
<1>11. CASE Logout
  BY <1>11, LogoutBase
<1>12. CASE ServerReceives
  BY <1>12, ReceivesBase
<1>13. ASSUME NEW s \in served, NEW kind \in {"ready", "data", "done", "close"}, ServerSends(s, kind)
       PROVE  Base'
  BY <1>13, SendsBase
<1>14. ASSUME NEW how \in {"lost", "silent"}, ConnectionLost(how)
       PROVE  Base'
  BY <1>14, LostBase
<1>17. ASSUME NEW b \in BOOLEAN, IgnoreHealthCheck(b)
       PROVE  UNCHANGED <<doc, shown, loaded, source, unique_id, current, posted, inbox, up, down, served, link>>
  BY <1>17 DEF IgnoreHealthCheck, frames
<1>15. ASSUME UNCHANGED <<doc, shown, loaded, source, unique_id, current, posted, inbox, up, down, served, link>>
       PROVE  Base'
  <2>1. UNCHANGED <<doc, shown, loaded, source, unique_id, current, posted, inbox, up, down, served, link>>
    BY <1>15
  <2>2. Types' /\ FramesOK'
    BY <2>1 DEF Base, Types, FramesOK, InWindow
  <2>3. NextOK' /\ PostedOK'
    BY <2>1 DEF Base, NextOK, PostedOK
  <2>4. PhaseOK' /\ TopOK'
    BY <2>1 DEF Base, PhaseOK, TopOK
  <2> QED BY <2>2, <2>3, <2>4 DEF Base
<1>18. CASE UNCHANGED shellvars
  BY <1>15, <1>18 DEF shellvars
<1> QED BY <1>2, <1>3, <1>4, <1>5, <1>6, <1>7, <1>8, <1>9, <1>10, <1>11, <1>12, <1>13, <1>14, <1>15, <1>16,
           <1>17, <1>18 DEF ShellNext

----
(* The facts on their way, when queues grow and shrink.                    *)

\* A message that was legal stays so when its document knows as much.
LEMMA LegalCovers ==
  ASSUME NEW m \in Message, NEW A \in SUBSET Fact, NEW B \in SUBSET Fact,
         Legal(m, A), m.kind \in Talk => Covers(B, A, m.id[1])
  PROVE  Legal(m, B)
<1>1. PICK id \in Ids : id = m.id
  BY DEF Message
<1>2. /\ <<"open", id>>[2] = id /\ <<"close", id>>[2] = id /\ <<"done", id>>[2] = id
      /\ <<"open", id>>[1] = "open"
  OBVIOUS
<1>3. CASE m.kind \in Talk
  <2>1. Covers(B, A, id[1])
    BY <1>1, <1>3
  <2>2. /\ <<"open", id>> \in A <=> <<"open", id>> \in B
        /\ <<"close", id>> \in B => <<"close", id>> \in A
        /\ <<"done", id>> \in B => <<"done", id>> \in A
    BY <1>2, <2>1 DEF Covers
  <2> QED BY <1>1, <2>2 DEF Legal
<1>4. CASE m.kind \notin Talk
  BY <1>4 DEF Legal, Talk
<1> QED BY <1>3, <1>4

\* What is known before the first message.
LEMMA ToldNone ==
  ASSUME NEW q \in Seq(Message)
  PROVE  Told(q, 0) = {}
<1>1. \A i \in DOMAIN q : ~(i <= 0)
  OBVIOUS
<1> QED BY <1>1 DEF Told

\* The first message, and the rest.
LEMMA TailsTold ==
  ASSUME NEW s \in Seq(Message), NEW t \in Seq(Message), Tails(t, s), NEW n \in Nat
  PROVE  Told(s, n + 1) = Told(s, 1) \cup Told(t, n)
<1>1. /\ DOMAIN s = 1..Len(s) /\ DOMAIN t = 1..(Len(s) - 1)
      /\ \A i \in DOMAIN t : i + 1 \in DOMAIN s /\ i + 1 # 1 /\ t[i] = s[i + 1]
      /\ \A i \in DOMAIN s : i # 1 => i - 1 \in DOMAIN t /\ t[i - 1] = s[i]
  BY TailsElem
<1>2. /\ \A i \in DOMAIN t : i <= n <=> i + 1 <= n + 1
      /\ \A i \in DOMAIN s : i - 1 <= n <=> i <= n + 1
      /\ \A i \in DOMAIN s : i <= 1 => i = 1 /\ i <= n + 1
  BY <1>1
<1>3. Told(s, n + 1) \subseteq Told(s, 1) \cup Told(t, n)
  <2> SUFFICES ASSUME NEW f \in Fact, NEW i \in DOMAIN s, i <= n + 1, f = <<s[i].kind, s[i].id>>
               PROVE  f \in Told(s, 1) \cup Told(t, n)
    BY DEF Told
  <2>1. CASE i = 1
    BY <2>1 DEF Told
  <2>2. CASE i # 1
    <3>1. PICK j \in DOMAIN t : j <= n /\ t[j] = s[i]
      BY <1>1, <1>2, <2>2
    <3> QED BY <3>1 DEF Told
  <2> QED BY <2>1, <2>2
<1>4. Told(s, 1) \subseteq Told(s, n + 1)
  BY <1>2 DEF Told
<1>5. Told(t, n) \subseteq Told(s, n + 1)
  <2> SUFFICES ASSUME NEW f \in Fact, NEW i \in DOMAIN t, i <= n, f = <<t[i].kind, t[i].id>>
               PROVE  f \in Told(s, n + 1)
    BY DEF Told
  <2>1. PICK j \in DOMAIN s : j <= n + 1 /\ s[j] = t[i]
    BY <1>1, <1>2
  <2> QED BY <2>1 DEF Told
<1> QED BY <1>3, <1>4, <1>5

\* The same for what was posted.
LEMMA TailsPost ==
  ASSUME NEW s \in Seq(Post), NEW t \in Seq(Post), Tails(t, s), NEW n \in Nat
  PROVE  PostTold(s, n + 1) = PostTold(s, 1) \cup PostTold(t, n)
<1>1. /\ DOMAIN s = 1..Len(s) /\ DOMAIN t = 1..(Len(s) - 1)
      /\ \A i \in DOMAIN t : i + 1 \in DOMAIN s /\ i + 1 # 1 /\ t[i] = s[i + 1]
      /\ \A i \in DOMAIN s : i # 1 => i - 1 \in DOMAIN t /\ t[i - 1] = s[i]
  BY TailsElem
<1>2. /\ \A i \in DOMAIN t : i <= n <=> i + 1 <= n + 1
      /\ \A i \in DOMAIN s : i - 1 <= n <=> i <= n + 1
      /\ \A i \in DOMAIN s : i <= 1 => i = 1 /\ i <= n + 1
  BY <1>1
<1>3. PostTold(s, n + 1) \subseteq PostTold(s, 1) \cup PostTold(t, n)
  <2> SUFFICES ASSUME NEW f \in Fact, NEW i \in DOMAIN s, i <= n + 1, f = <<s[i].msg.kind, s[i].msg.id>>
               PROVE  f \in PostTold(s, 1) \cup PostTold(t, n)
    BY DEF PostTold
  <2>1. CASE i = 1
    BY <2>1 DEF PostTold
  <2>2. CASE i # 1
    <3>1. PICK j \in DOMAIN t : j <= n /\ t[j] = s[i]
      BY <1>1, <1>2, <2>2
    <3> QED BY <3>1 DEF PostTold
  <2> QED BY <2>1, <2>2
<1>4. PostTold(s, 1) \subseteq PostTold(s, n + 1)
  BY <1>2 DEF PostTold
<1>5. PostTold(t, n) \subseteq PostTold(s, n + 1)
  <2> SUFFICES ASSUME NEW f \in Fact, NEW i \in DOMAIN t, i <= n, f = <<t[i].msg.kind, t[i].msg.id>>
               PROVE  f \in PostTold(s, n + 1)
    BY DEF PostTold
  <2>1. PICK j \in DOMAIN s : j <= n + 1 /\ s[j] = t[i]
    BY <1>1, <1>2
  <2> QED BY <2>1 DEF PostTold
<1> QED BY <1>3, <1>4, <1>5

\* What the shell sends comes after what is on its way.
UpGrows(q) == q \in Seq(Message) /\ IsCat(up', up, q) /\ served' = served

\* The facts the server knows after n messages of u.
Up(S, u, n) == ServedFact(S) \cup Told(u, n)

\* The facts on their way to the server, when it grows.
LEMMA UpFacts ==
  ASSUME Types, NEW q, UpGrows(q)
  PROVE  /\ \A n \in 0..Len(up) : Up(served', up', n) = UpFact(n)
         /\ \A n \in 0..Len(q) : Up(served', up', Len(up) + n) = UpFact(Len(up)) \cup Told(q, n)
         /\ Len(up') = Len(up) + Len(q) /\ Len(up) \in Nat /\ Len(q) \in Nat
         /\ Up(served', up', Len(up')) = UpFact(Len(up)) \cup Told(q, Len(q))
<1>1. PICK s, r, t :
        s \in Seq(Message) /\ r \in Seq(Message) /\ s = up /\ r = q /\ t = up' /\ IsCat(t, s, r) /\ served' = served
  BY DEF UpGrows, Types
<1>2. PICK S : S = ServedFact(served') /\ S = ServedFact(served)
  BY <1>1
<1>3. Len(t) = Len(s) + Len(r) /\ Len(s) \in Nat /\ Len(r) \in Nat
  BY <1>1 DEF IsCat
<1>4. \A n \in 0..Len(s) : Told(t, n) = Told(s, n)
  BY <1>1, <1>3, ToldPrefix
<1>5. \A n \in 0..Len(r) : Told(t, Len(s) + n) = Told(s, Len(s)) \cup Told(r, n)
  BY <1>1, <1>3, ToldCat
<1>6. \A n \in 0..Len(s) : S \cup Told(t, n) = S \cup Told(s, n)
  BY <1>4
<1>7. \A n \in 0..Len(r) : S \cup Told(t, Len(s) + n) = (S \cup Told(s, Len(s))) \cup Told(r, n)
  BY <1>5
<1>8. Len(r) \in 0..Len(r)
  BY <1>3
<1>9. S \cup Told(t, Len(t)) = (S \cup Told(s, Len(s))) \cup Told(r, Len(r))
  BY <1>3, <1>7, <1>8
<1> QED BY <1>1, <1>2, <1>3, <1>6, <1>7, <1>9 DEF UpFact, Up

\* What is on its way stays legal, when what follows is.
LEMMA UpLegal ==
  ASSUME Types, NEW q, UpGrows(q), Lost \subseteq Lost',
         \A i \in DOMAIN up : up[i] \in Lost \/ Legal(up[i], UpFact(i - 1)),
         \A j \in DOMAIN q : q[j] \in Lost \/ Legal(q[j], UpFact(Len(up)) \cup Told(q, j - 1))
  PROVE  \A i \in DOMAIN up' : up'[i] \in Lost' \/ Legal(up'[i], Up(served', up', i - 1))
<1>1. /\ \A n \in 0..Len(up) : Up(served', up', n) = UpFact(n)
      /\ \A n \in 0..Len(q) : Up(served', up', Len(up) + n) = UpFact(Len(up)) \cup Told(q, n)
      /\ Len(up) \in Nat /\ Len(q) \in Nat
  BY UpFacts
<1>2. up \in Seq(Message) /\ q \in Seq(Message) /\ DOMAIN up = 1..Len(up) /\ DOMAIN q = 1..Len(q)
  BY DEF UpGrows, Types
<1>3. PICK t : t = up' /\ IsCat(t, up, q)
  BY DEF UpGrows
<1>4. \A i \in DOMAIN t : \/ i \in DOMAIN up /\ t[i] = up[i]
                          \/ \E j \in DOMAIN q : i = Len(up) + j /\ t[i] = q[j]
  <2>1. PICK s \in Seq(Message), r \in Seq(Message) : s = up /\ r = q /\ IsCat(t, s, r)
    BY <1>2, <1>3
  <2>2. \A i \in DOMAIN t : \/ i \in DOMAIN s /\ t[i] = s[i]
                            \/ \E j \in DOMAIN r : i = Len(s) + j /\ t[i] = r[j]
    BY <2>1, CatElem
  <2> QED BY <2>1, <2>2
<1> SUFFICES ASSUME NEW i \in DOMAIN t
             PROVE  t[i] \in Lost' \/ Legal(t[i], Up(served', up', i - 1))
  BY <1>3
<1>5. CASE i \in DOMAIN up /\ t[i] = up[i]
  <2>1. i - 1 \in 0..Len(up)
    BY <1>1, <1>2, <1>5
  <2>2. Up(served', up', i - 1) = UpFact(i - 1)
    BY <1>1, <2>1
  <2> QED BY <1>5, <2>2
<1>6. CASE \E j \in DOMAIN q : i = Len(up) + j /\ t[i] = q[j]
  <2>1. PICK j \in DOMAIN q : i = Len(up) + j /\ t[i] = q[j]
    BY <1>6
  <2>2. j - 1 \in 0..Len(q) /\ i - 1 = Len(up) + (j - 1)
    BY <1>1, <1>2, <2>1
  <2>3. Up(served', up', i - 1) = UpFact(Len(up)) \cup Told(q, j - 1)
    BY <1>1, <2>2
  <2> QED BY <2>1, <2>3
<1> QED BY <1>4, <1>5, <1>6

\* A page that takes part has the name its frame has at the router.
LEMMA ReadySeed ==
  ASSUME Base, NEW d \in Docs
  PROVE  \/ doc[d].ws = "null" \/ ~doc[d].ready
         \/ d \in loaded /\ doc[d].seed = source[Window(d)] /\ source[Window(d)] # 0
<1>1. Phase(doc[d], inbox[d], source[Window(d)], current # Window(d), Sent(posted, d), d \in loaded)
  BY DEF Base, PhaseOK
<1>2. doc[d].ready => doc[d].ws # "none"
  BY DEF Base, Types, Sound, PageOK
<1> QED BY <1>1, <1>2 DEF Phase, Fresh, Asked, Answered, Running, Shut, Away

\* What a known frame posted is about its own channels.
LEMMA PostedIds ==
  ASSUME Base, NEW i \in DOMAIN posted, posted[i].from \in loaded, source[Window(posted[i].from)] # 0,
         posted[i].msg.kind \in Talk
  PROVE  /\ posted[i].msg.id[1] = source[Window(posted[i].from)]
         /\ Has(doc[posted[i].from], posted[i].msg.id)
<1>1. posted \in Seq(Post)
  BY DEF Base, Types
<1>2. PICK e \in Docs, m \in Message : e = posted[i].from /\ m = posted[i].msg
  BY <1>1, PostedBy
<1>3. m \in Sent(posted, e)
  BY <1>1, <1>2, PostedBy
<1>4. Phase(doc[e], inbox[e], source[Window(e)], current # Window(e), Sent(posted, e), TRUE)
  BY <1>2, LoadedPhase
<1>5. m.id[1] = source[Window(e)] /\ Has(doc[e], m.id)
  BY <1>2, <1>3, <1>4 DEF Phase, Fresh, Asked, Answered, Running, Shut, Talk
<1> QED BY <1>2, <1>5

\* A page that does nothing, when the facts change.
LEMMA PageStays ==
  ASSUME Base, StreamOK, NEW B \in SUBSET Fact, NEW d \in Docs \cup {Top}, doc'[d] = doc[d],
         doc[d].ws = "null" \/ ~doc[d].ready \/ Covers(B, AllFacts, doc[d].seed)
  PROVE  PageOK(doc'[d], Mine(d), B)
<1>1. PICK mine \in Mines : mine = Mine(d)
  BY MineType
<1>2. PICK A \in SUBSET Fact : A = AllFacts
  BY FactTypes DEF Base
<1>3. PICK D : D = doc[d]
  OBVIOUS
<1>4. PageOK(D, mine, A) /\ D.out = <<>>
  BY <1>1, <1>2, <1>3 DEF StreamOK, Base, Types, Sound
<1>5. PageOK(D, mine, B)
  BY <1>2, <1>3, <1>4, PageCovers
<1> QED BY <1>1, <1>3, <1>5

\* The facts the server knows when it has got all of u, and the router n
\* messages of p.
Heard(S, u, p, n) == Up(S, u, Len(u)) \cup PostTold(p, n)

\* The facts by these names.
LEMMA HeardFacts ==
  ASSUME NEW S, NEW u, NEW p, NEW n
  PROVE  Up(S, u, n) \in SUBSET Fact /\ Heard(S, u, p, n) \in SUBSET Fact
BY DEF Up, Heard, ServedFact, Told, PostTold

\* The same facts, by the names of the invariant.
LEMMA HeardNow ==
  /\ \A n : UpFact(n) = Up(served, up, n) /\ PostedFact(n) = Heard(served, up, posted, n)
  /\ AllFacts = Heard(served, up, posted, Len(posted))
BY DEF Up, Heard, UpFact, PostedFact, AllFacts

\* The parts of StreamOK in the next state.
LEMMA StreamNext ==
  ASSUME \A f \in Up(served', up', Len(up')) : f[2][1] <= unique_id',
         \A s, t \in served' : s.id = t.id => s = t,
         \A d \in Docs \cup {Top} : PageOK(doc'[d], Mine(d), Heard(served', up', posted', Len(posted'))),
         \A d \in loaded' : source'[Window(d)] # 0 /\ doc'[d].waiting_for_init /\ doc'[d].ws # "null" =>
           \A f \in Heard(served', up', posted', Len(posted')) : f[2][1] # source'[Window(d)],
         \A i \in DOMAIN up' : up'[i] \in Lost' \/ Legal(up'[i], Up(served', up', i - 1)),
         \A i \in DOMAIN posted' : posted'[i].from \in loaded' /\ source'[Window(posted'[i].from)] # 0 =>
           Legal(posted'[i].msg, Heard(served', up', posted', i - 1))
  PROVE  StreamOK'
<1>1. (\A f \in UpFact(Len(up)) : f[2][1] <= unique_id)'
  BY DEF UpFact, Up
<1>2. (\A s, t \in served : s.id = t.id => s = t)'
  OBVIOUS
<1>3. (\A d \in Docs \cup {Top} : PageOK(doc[d], Mine(d), AllFacts))'
  BY DEF AllFacts, PostedFact, UpFact, Heard, Up
<1>4. (\A d \in loaded : Going(d) /\ doc[d].waiting_for_init /\ doc[d].ws # "null" =>
         \A f \in AllFacts : f[2][1] # source[Window(d)])'
  BY DEF AllFacts, PostedFact, UpFact, Heard, Up, Going
<1>5. (\A i \in DOMAIN up : up[i] \in Lost \/ Legal(up[i], UpFact(i - 1)))'
  BY DEF UpFact, Up
<1>6. (\A i \in DOMAIN posted : Going(posted[i].from) => Legal(posted[i].msg, PostedFact(i - 1)))'
  BY DEF PostedFact, UpFact, Heard, Up, Going
<1> QED BY <1>1, <1>2, <1>3, <1>4, <1>5, <1>6 DEF StreamOK

\* B says no more than A, and has its opens.
Fewer(B, A) == B \subseteq A /\ \A f \in A : f[1] = "open" => f \in B

\* What becomes of each document's facts.
LEMMA FewerCovers ==
  ASSUME NEW A, NEW B, Fewer(B, A), NEW C
  PROVE  Fewer(B \cup C, A \cup C) /\ \A x : Covers(B, A, x)
BY DEF Fewer, Covers

\* A legal message, when less is known.
LEMMA LegalFewer ==
  ASSUME NEW m \in Message, NEW A \in SUBSET Fact, NEW B \in SUBSET Fact, Legal(m, A), Fewer(B, A)
  PROVE  Legal(m, B)
<1>1. Covers(B, A, m.id[1])
  BY FewerCovers
<1> QED BY <1>1, LegalCovers

\* The server forgets, and takes what is on its way, one by one.
LEMMA ServerStream ==
  ASSUME Base, StreamOK, UNCHANGED <<doc, posted, source, unique_id, loaded>>, up' \in Seq(Message),
         NEW k \in {0, 1}, Len(up') + k = Len(up),
         \A i \in DOMAIN up' : i + k \in DOMAIN up /\ up'[i] = up[i + k],
         \A n \in 0..Len(up') : Fewer(Up(served', up', n), UpFact(n + k)),
         \A s, t \in served' : s.id = t.id => s = t
  PROVE  StreamOK'
<1>1. up \in Seq(Message) /\ posted \in Seq(Post) /\ Types
  BY DEF Base, Types
<1>2. PICK a \in Nat : a = Len(up') /\ a + k = Len(up) /\ DOMAIN up' = 1..a /\ DOMAIN up = 1..Len(up)
  BY <1>1
<1>3. PICK U, V : U = Up(served', up', Len(up')) /\ V = UpFact(Len(up))
  OBVIOUS
<1>4. Fewer(U, V)
  <2>1. a \in 0..a
    BY <1>2
  <2> QED BY <1>2, <1>3, <2>1
<1>5. ASSUME NEW n
      PROVE  Fewer(Heard(served', up', posted', n), PostedFact(n))
  <2>1. Fewer(U \cup PostTold(posted, n), V \cup PostTold(posted, n))
    BY <1>4, FewerCovers
  <2> QED BY <1>3, <2>1 DEF Heard, PostedFact
<1>6. PICK B \in SUBSET Fact : B = Heard(served', up', posted', Len(posted'))
  BY HeardFacts
<1>7. Fewer(B, AllFacts)
  BY <1>5, <1>6 DEF AllFacts
<1>8. \A f \in Up(served', up', Len(up')) : f[2][1] <= unique_id'
  BY <1>3, <1>4 DEF StreamOK, Fewer
<1>9. \A d \in Docs \cup {Top} : PageOK(doc'[d], Mine(d), B)
  BY <1>7, PageStays, FewerCovers
<1>10. \A d \in loaded' : source'[Window(d)] # 0 /\ doc'[d].waiting_for_init /\ doc'[d].ws # "null" =>
           \A f \in B : f[2][1] # source'[Window(d)]
  BY <1>7 DEF StreamOK, Going, Fewer
<1>11. ASSUME NEW i \in DOMAIN up'
       PROVE  up'[i] \in Lost' \/ Legal(up'[i], Up(served', up', i - 1))
  <2>1. PICK n \in 0..a : n = i - 1 /\ (i + k) - 1 = n + k
    BY <1>2
  <2>2. (up'[i] \in Lost \/ Legal(up'[i], UpFact(n + k))) /\ up'[i] = up[i + k]
    BY <2>1 DEF StreamOK
  <2>3. PICK A \in SUBSET Fact, C \in SUBSET Fact : A = UpFact(n + k) /\ C = Up(served', up', n)
    BY <1>1, HeardFacts, FactTypes
  <2>4. Fewer(C, A)
    BY <1>2, <2>1, <2>3
  <2>5. PICK m \in Message : m = up'[i]
    OBVIOUS
  <2>6. m \in Lost \/ Legal(m, C)
    BY <2>2, <2>3, <2>4, <2>5, LegalFewer
  <2>7. Lost' = Lost
    BY LostSame
  <2> QED BY <2>1, <2>3, <2>5, <2>6, <2>7
<1>12. ASSUME NEW i \in DOMAIN posted', posted'[i].from \in loaded', source'[Window(posted'[i].from)] # 0
       PROVE  Legal(posted'[i].msg, Heard(served', up', posted', i - 1))
  <2>1. PICK m \in Message : m = posted[i].msg
    BY <1>1, <1>12, PostedBy
  <2>2. Legal(m, PostedFact(i - 1))
    BY <1>12, <2>1 DEF StreamOK, Going
  <2>3. PICK A \in SUBSET Fact, C \in SUBSET Fact : A = PostedFact(i - 1) /\ C = Heard(served', up', posted', i - 1)
    BY <1>1, HeardFacts, FactTypes
  <2>4. Fewer(C, A)
    BY <1>5, <2>3
  <2>5. Legal(m, C)
    BY <2>2, <2>3, <2>4, LegalFewer
  <2> QED BY <2>1, <2>3, <2>5
<1> QED BY <1>6, <1>8, <1>9, <1>10, <1>11, <1>12, StreamNext

----
(* The server keeps to what it was told.                                   *)

\* An id has one entry.
Unique(S) == \A s, t \in S : s.id = t.id => s = t

\* R has the entries of S; some have ended, and id became x.
Turns(R, S, id, x) ==
  /\ Unique(R)
  /\ \A r \in R : \E s \in S :
       /\ r.id = s.id /\ r.group = s.group
       /\ r.is = s.is \/ r.is = "ended" \/ (r.id = id /\ r.is = x)
       /\ r.is \in {"open", "done"} => s.is \in {"open", "done"}
  /\ \A s \in S : \E r \in R : r.id = s.id

\* One entry is replaced.
LEMMA ChangeTurns ==
  ASSUME NEW S \in SUBSET Entries, Unique(S), NEW s \in S, NEW x \in {"done", "ended", "closed"},
         x = "done" => s.is = "open"
  PROVE  Turns((S \ {s}) \cup {[s EXCEPT !.is = x]}, S, s.id, x)
<1>1. PICK t : t = [s EXCEPT !.is = x]
  OBVIOUS
<1>2. t.id = s.id /\ t.group = s.group /\ t.is = x
  BY <1>1 DEF Entries
<1>3. PICK R : R = (S \ {s}) \cup {t}
  OBVIOUS
<1>4. Unique(R)
  BY <1>2, <1>3 DEF Unique
<1>5. ASSUME NEW r \in R
      PROVE  \E q \in S :
               /\ r.id = q.id /\ r.group = q.group
               /\ r.is = q.is \/ r.is = "ended" \/ (r.id = s.id /\ r.is = x)
               /\ r.is \in {"open", "done"} => q.is \in {"open", "done"}
  <2>1. CASE r = t
    BY <1>2, <2>1
  <2>2. CASE r # t
    <3>1. r \in S
      BY <1>3, <2>2
    <3> QED BY <3>1
  <2> QED BY <2>1, <2>2
<1>6. \A q \in S : \E r \in R : r.id = q.id
  <2> SUFFICES ASSUME NEW q \in S PROVE \E r \in R : r.id = q.id
    OBVIOUS
  <2>1. CASE q = s
    BY <1>2, <1>3, <2>1
  <2>2. CASE q # s
    BY <1>3, <2>2
  <2> QED BY <2>1, <2>2
<1>7. Turns(R, S, s.id, x)
  BY <1>4, <1>5, <1>6 DEF Turns
<1> QED BY <1>1, <1>3, <1>7

\* Some entries end.
LEMMA EndTurns ==
  ASSUME served \in SUBSET Entries, Unique(served), NEW hit \in SUBSET served, NEW id
  PROVE  /\ Turns(Ended(hit), served, id, "ended")
         /\ \A s \in Ended(hit) : s.is \in {"open", "done"} => s \in served \ hit
<1>1. hit \subseteq served
  OBVIOUS
<1>2. PICK R : R = Ended(hit) /\ R = (served \ hit) \cup {[s EXCEPT !.is = "ended"] : s \in hit}
  BY DEF Ended
<1>3. \A s \in hit : LET t == [s EXCEPT !.is = "ended"] IN t.id = s.id /\ t.group = s.group /\ t.is = "ended"
  BY <1>1 DEF Entries
<1>4. \A r \in R : \/ r \in served /\ r \notin hit
                   \/ \E s \in hit : r = [s EXCEPT !.is = "ended"] /\ r.id = s.id /\ r.group = s.group /\ r.is = "ended"
  BY <1>2, <1>3
<1>5. Unique(R)
  <2> SUFFICES ASSUME NEW r \in R, NEW t \in R, r.id = t.id PROVE r = t
    BY DEF Unique
  <2>1. CASE r \in served /\ r \notin hit /\ t \in served /\ t \notin hit
    BY <2>1 DEF Unique
  <2>2. CASE r \in served /\ r \notin hit /\ \E s \in hit : t.id = s.id
    <3>1. PICK s \in hit : t.id = s.id
      BY <2>2
    <3>2. s \in served
      BY <1>1, <3>1
    <3> QED BY <2>2, <3>1, <3>2 DEF Unique
  <2>3. CASE t \in served /\ t \notin hit /\ \E s \in hit : r.id = s.id
    <3>1. PICK s \in hit : r.id = s.id
      BY <2>3
    <3>2. s \in served
      BY <1>1, <3>1
    <3> QED BY <2>3, <3>1, <3>2 DEF Unique
  <2>4. CASE /\ \E s \in hit : r = [s EXCEPT !.is = "ended"] /\ r.id = s.id
             /\ \E s \in hit : t = [s EXCEPT !.is = "ended"] /\ t.id = s.id
    <3>1. PICK s \in hit : r = [s EXCEPT !.is = "ended"] /\ r.id = s.id
      BY <2>4
    <3>2. PICK q \in hit : t = [q EXCEPT !.is = "ended"] /\ t.id = q.id
      BY <2>4
    <3>3. s = q
      BY <1>1, <3>1, <3>2 DEF Unique
    <3> QED BY <3>1, <3>2, <3>3
  <2> QED BY <1>4, <2>1, <2>2, <2>3, <2>4
<1>6. \A r \in R : \E s \in served :
       /\ r.id = s.id /\ r.group = s.group
       /\ r.is = s.is \/ r.is = "ended" \/ (r.id = id /\ r.is = "ended")
       /\ r.is \in {"open", "done"} => s.is \in {"open", "done"}
  BY <1>1, <1>4
<1>7. \A s \in served : \E r \in R : r.id = s.id
  <2> SUFFICES ASSUME NEW s \in served PROVE \E r \in R : r.id = s.id
    OBVIOUS
  <2>1. CASE s \in hit
    BY <1>2, <1>3, <2>1
  <2>2. CASE s \notin hit
    BY <1>2, <2>2
  <2> QED BY <2>1, <2>2
<1>8. \A s \in R : s.is \in {"open", "done"} => s \in served \ hit
  BY <1>1, <1>4
<1>9. Turns(R, served, id, "ended")
  BY <1>5, <1>6, <1>7 DEF Turns
<1> QED BY <1>2, <1>8, <1>9

\* The facts about an id.
LEMMA TurnFacts ==
  ASSUME NEW R, NEW S, NEW id \in Ids, NEW x \in {"done", "ended", "closed"}, Turns(R, S, id, x),
         NEW T \in SUBSET Fact, x = "done" => <<"done", id>> \in T, x = "closed" => <<"close", id>> \in T,
         \A f \in T : f[1] # "open"
  PROVE  Fewer(ServedFact(R), ServedFact(S) \cup T)
<1>1. ASSUME NEW f \in ServedFact(R)
      PROVE  f \in ServedFact(S) \cup T
  <2>1. PICK r \in R : /\ f[2] = r.id
                       /\ f[1] = "open" \/ (f[1] = "done" /\ r.is = "done") \/ (f[1] = "close" /\ r.is = "closed")
    BY DEF ServedFact
  <2>2. PICK s \in S : r.id = s.id /\ (r.is = s.is \/ r.is = "ended" \/ (r.id = id /\ r.is = x))
    BY <2>1 DEF Turns
  <2>3. f \in Fact /\ f = <<f[1], f[2]>>
    BY DEF ServedFact, Fact
  <2>4. CASE f[1] = "open" \/ r.is = s.is
    BY <2>1, <2>2, <2>3, <2>4 DEF ServedFact
  <2>5. CASE f[1] = "done" /\ r.is = "done" /\ r.id = id /\ r.is = x
    BY <2>1, <2>3, <2>5
  <2>6. CASE f[1] = "close" /\ r.is = "closed" /\ r.id = id /\ r.is = x
    BY <2>1, <2>3, <2>6
  <2> QED BY <2>1, <2>2, <2>4, <2>5, <2>6
<1>2. ASSUME NEW f \in ServedFact(S) \cup T, f[1] = "open"
      PROVE  f \in ServedFact(R)
  <2>1. f \in ServedFact(S)
    BY <1>2
  <2>2. PICK s \in S : f[2] = s.id /\ f \in Fact
    BY <2>1 DEF ServedFact
  <2>3. PICK r \in R : r.id = s.id
    BY <2>2 DEF Turns
  <2> QED BY <1>2, <2>2, <2>3 DEF ServedFact
<1> QED BY <1>1, <1>2 DEF Fewer

\* What the server knows of an id, in facts.
LEMMA KnownFacts ==
  ASSUME served \in SUBSET Entries, Unique(served), NEW id \in Ids
  PROVE  /\ Known(id) <=> <<"open", id>> \in ServedFact(served)
         /\ Known(id) => /\ Entry(id) \in served /\ Entry(id).id = id
                         /\ Entry(id).is = "done" => <<"done", id>> \in ServedFact(served)
                         /\ Entry(id).is = "closed" => <<"close", id>> \in ServedFact(served)
<1>1. <<"open", id>> \in Fact /\ <<"done", id>> \in Fact /\ <<"close", id>> \in Fact
  BY DEF Fact
<1>2. /\ <<"open", id>>[1] = "open" /\ <<"open", id>>[2] = id /\ <<"done", id>>[1] = "done" /\ <<"done", id>>[2] = id
      /\ <<"close", id>>[1] = "close" /\ <<"close", id>>[2] = id
  OBVIOUS
<1>3. Known(id) <=> <<"open", id>> \in ServedFact(served)
  BY <1>1, <1>2 DEF Known, ServedFact
<1>4. ASSUME Known(id)
      PROVE  /\ Entry(id) \in served /\ Entry(id).id = id
             /\ Entry(id).is = "done" => <<"done", id>> \in ServedFact(served)
             /\ Entry(id).is = "closed" => <<"close", id>> \in ServedFact(served)
  <2>1. PICK s \in served : s = Entry(id) /\ s.id = id
    BY <1>4, EntryOf
  <2> QED BY <1>1, <1>2, <2>1 DEF ServedFact
<1> QED BY <1>3, <1>4

\* The fact of the first message.
LEMMA ToldFirst ==
  ASSUME NEW s \in Seq(Message), s # <<>>
  PROVE  Told(s, 1) = {f \in Fact : f = <<s[1].kind, s[1].id>>}
<1>1. 1 \in DOMAIN s /\ \A i \in DOMAIN s : i <= 1 => i = 1
  BY EmptySeq
<1> QED BY <1>1 DEF Told

\* What is open after the server took m.
Follows(m) ==
  \A r \in served' : r.is \in {"open", "done"} =>
    /\ m # Msg("kill", NoId, r.group)
    /\ \/ \E s \in served : s.id = r.id /\ s.group = r.group /\ s.is \in {"open", "done"}
       \/ m.kind = "open" /\ m.id = r.id /\ m.arg = r.group

\* What the server has learnt from m.
Learns(m) ==
  /\ confused' \subseteq Lost' /\ Unique(served') /\ Follows(m)
  /\ Fewer(ServedFact(served'), ServedFact(served) \cup {f \in Fact : f = <<m.kind, m.id>>})

\* A change of one entry.
LEMMA TurnLearns ==
  ASSUME NEW m \in Message, m.kind \in {"data", "done", "close", "init", "again", "kill"}, NEW id \in Ids,
         NEW x \in {"done", "ended", "closed"},
         x = "done" => m.kind = "done" /\ m.id = id, x = "closed" => m.kind = "close" /\ m.id = id,
         Turns(served', served, id, x), confused' \subseteq Lost',
         m.kind = "kill" => \A s \in served' : s.is \in {"open", "done"} => s.group # m.arg
  PROVE  Learns(m)
<1>1. PICK T \in SUBSET Fact : T = {f \in Fact : f = <<m.kind, m.id>>}
  OBVIOUS
<1>2. PICK kind, mid : kind = m.kind /\ mid = m.id /\ mid \in Ids
  BY DEF Message
<1>3. (\A f \in T : f[1] # "open") /\ (x = "done" => <<"done", id>> \in T) /\ (x = "closed" => <<"close", id>> \in T)
  <2>1. \A f \in T : f[1] = kind
    BY <1>1, <1>2
  <2>2. x = "done" => <<"done", id>> \in T
    BY <1>1, <1>2 DEF Fact
  <2>3. x = "closed" => <<"close", id>> \in T
    BY <1>1, <1>2 DEF Fact
  <2> QED BY <1>2, <2>1, <2>2, <2>3
<1>4. Fewer(ServedFact(served'), ServedFact(served) \cup T)
  BY <1>3, TurnFacts
<1>5. Follows(m)
  <2> SUFFICES ASSUME NEW r \in served', r.is \in {"open", "done"}
               PROVE  /\ m # Msg("kill", NoId, r.group)
                      /\ \E s \in served : s.id = r.id /\ s.group = r.group /\ s.is \in {"open", "done"}
    BY DEF Follows
  <2>1. Msg("kill", NoId, r.group).kind = "kill" /\ Msg("kill", NoId, r.group).arg = r.group
    BY DEF Msg
  <2>2. m # Msg("kill", NoId, r.group)
    BY <2>1
  <2> QED BY <2>2 DEF Turns
<1> QED BY <1>1, <1>4, <1>5 DEF Learns, Turns

\* Nothing but the queue changes.
LEMMA SameTurns ==
  ASSUME Unique(served), served' = served, NEW id, NEW x
  PROVE  Turns(served', served, id, x)
BY DEF Turns, Unique

\* A message that reaches the server is understood.
LEMMA ReceivesLearns ==
  ASSUME Base, StreamOK, confused \subseteq Lost, ServerReceives, link' = "up"
  PROVE  Learns(up[1])
<1>1. up # <<>> /\ link = "up" /\ up \in Seq(Message) /\ served \in SUBSET Entries /\ Unique(served)
  BY DEF ServerReceives, Base, Types, Entries, StreamOK, Unique
<1>2. Head(up) = up[1] /\ up[1] \in Message /\ 1 \in DOMAIN up
  BY <1>1, TailTails
<1>3. PICK m \in Message : m = up[1] /\ m = Head(up)
  BY <1>2
<1>4. m.kind \in Talk \cup {"init", "kill", "logout"} /\ m.arg \in Args
  BY <1>2, <1>3 DEF Base, TopOK, Message
<1>5. PICK id \in Ids : id = m.id
  BY DEF Message
<1>14. Lost' = Lost /\ confused \subseteq Lost'
  <2>1. UNCHANGED <<source, unique_id>>
    BY DEF ServerReceives, frames
  <2> QED BY <2>1, LostSame
<1>6. (m \in Lost \/ Legal(m, ServedFact(served))) /\ (m.kind # "data" => Legal(m, ServedFact(served)))
  <2>1. up[1] \in Lost \/ Legal(up[1], UpFact(1 - 1))
    BY <1>2 DEF StreamOK
  <2>2. 1 - 1 = 0
    OBVIOUS
  <2>3. UpFact(0) = ServedFact(served)
    BY <1>1, ToldNone DEF UpFact
  <2>4. m \in Lost => m.kind = "data"
    BY DEF Lost
  <2> QED BY <1>3, <2>1, <2>2, <2>3, <2>4
<1>7. /\ Known(id) <=> <<"open", id>> \in ServedFact(served)
      /\ Known(id) => /\ Entry(id) \in served /\ Entry(id).id = id
                      /\ Entry(id).is = "done" => <<"done", id>> \in ServedFact(served)
                      /\ Entry(id).is = "closed" => <<"close", id>> \in ServedFact(served)
  BY <1>1, KnownFacts
<1>8. CASE m.kind = "init"
  <2>1. served' = served /\ confused' = confused
    BY <1>3, <1>8 DEF ServerReceives
  <2>2. Turns(served', served, id, "ended")
    BY <1>1, <2>1, SameTurns
  <2> QED BY <1>3, <1>8, <1>14, <2>1, <2>2, TurnLearns
<1>9. CASE m.kind = "open"
  <2>1. ~Known(id)
    BY <1>5, <1>6, <1>7, <1>9 DEF Legal
  <2>2. served' = served \cup {[id |-> m.id, group |-> m.arg, is |-> "open"]} /\ confused' = confused
    BY <1>3, <1>5, <1>9, <2>1 DEF ServerReceives
  <2>3. PICK s : s = [id |-> id, group |-> m.arg, is |-> "open"] /\ s.id = id /\ s.group = m.arg /\ s.is = "open"
    <3>1. PICK t : t = [id |-> id, group |-> m.arg, is |-> "open"]
      OBVIOUS
    <3>2. t.id = id /\ t.group = m.arg /\ t.is = "open"
      BY <3>1
    <3> QED BY <3>1, <3>2
  <2>4. served' = served \cup {s}
    BY <1>5, <2>2, <2>3
  <2>5. Unique(served')
    BY <1>1, <2>1, <2>3, <2>4 DEF Unique, Known
  <2>6. Follows(m)
    <3> SUFFICES ASSUME NEW r \in served', r.is \in {"open", "done"}
                 PROVE  /\ m # Msg("kill", NoId, r.group)
                        /\ \/ \E q \in served : q.id = r.id /\ q.group = r.group /\ q.is \in {"open", "done"}
                           \/ m.kind = "open" /\ m.id = r.id /\ m.arg = r.group
      BY DEF Follows
    <3>1. Msg("kill", NoId, r.group).kind = "kill"
      BY DEF Msg
    <3>2. m # Msg("kill", NoId, r.group)
      BY <1>9, <3>1
    <3> QED BY <1>5, <1>9, <2>3, <2>4, <3>2
  <2>7. PICK T : T = {f \in Fact : f = <<"open", id>>}
    OBVIOUS
  <2>8. ServedFact(served') = ServedFact(served) \cup T
    <3>1. ServedFact(served') = ServedFact(served) \cup ServedFact({s})
      BY <2>4 DEF ServedFact
    <3>2. \A f \in Fact : f = <<f[1], f[2]>>
      BY DEF Fact
    <3>3. <<"open", id>>[1] = "open" /\ <<"open", id>>[2] = id
      OBVIOUS
    <3>4. ServedFact({s}) = T
      <4>1. \A f \in Fact : f \in ServedFact({s}) <=> f[2] = id /\ f[1] = "open"
        BY <2>3 DEF ServedFact
      <4>2. \A f \in Fact : f \in T <=> f[2] = id /\ f[1] = "open"
        BY <2>7, <3>2, <3>3
      <4>3. ServedFact({s}) \subseteq Fact /\ T \subseteq Fact
        BY <2>7 DEF ServedFact
      <4> QED BY <4>1, <4>2, <4>3
    <3> QED BY <3>1, <3>4
  <2>9. Fewer(ServedFact(served'), ServedFact(served) \cup T)
    BY <2>8 DEF Fewer
  <2> QED BY <1>3, <1>5, <1>9, <1>14, <2>2, <2>5, <2>6, <2>7, <2>9 DEF Learns
<1>15. CASE m \in Lost
  <2>1. m.kind = "data"
    BY <1>15 DEF Lost
  <2>2. served' = served /\ confused' \subseteq confused \cup {m}
    BY <1>3, <2>1 DEF ServerReceives
  <2>3. Turns(served', served, id, "ended") /\ confused' \subseteq Lost'
    BY <1>1, <1>14, <1>15, <2>2, SameTurns
  <2> QED BY <1>3, <2>1, <2>3, TurnLearns
<1>10. CASE m.kind \in {"data", "done"} /\ m \notin Lost
  <2>1. Known(id) /\ <<"close", id>> \notin ServedFact(served) /\ <<"done", id>> \notin ServedFact(served)
    BY <1>5, <1>6, <1>7, <1>10 DEF Legal
  <2>2. PICK s \in served : s = Entry(id) /\ s.id = id /\ s.is \in {"open", "ended"}
    BY <1>1, <1>7, <2>1 DEF Entries
  <2>3. confused' \subseteq Lost'
    <3>1. confused' = confused
      BY <1>3, <1>5, <1>10, <2>1, <2>2 DEF ServerReceives
    <3> QED BY <1>14, <3>1
  <2>4. CASE m.kind = "done" /\ s.is = "open"
    <3>1. served' = Change(id, [s EXCEPT !.is = "done"])
      BY <1>3, <1>5, <2>1, <2>2, <2>4 DEF ServerReceives
    <3>2. served' = (served \ {s}) \cup {[s EXCEPT !.is = "done"]}
      BY <2>2, <3>1 DEF Change
    <3>3. Turns(served', served, id, "done")
      BY <1>1, <2>2, <2>4, <3>2, ChangeTurns
    <3> QED BY <1>3, <1>5, <2>3, <2>4, <3>3, TurnLearns
  <2>5. CASE ~(m.kind = "done" /\ s.is = "open")
    <3>1. served' = served
      BY <1>3, <1>5, <1>10, <2>2, <2>5 DEF ServerReceives
    <3>2. Turns(served', served, id, "ended")
      BY <1>1, <3>1, SameTurns
    <3> QED BY <1>3, <1>10, <2>3, <3>2, TurnLearns
  <2> QED BY <2>4, <2>5
<1>11. CASE m.kind = "close"
  <2>1. Known(id) /\ <<"close", id>> \notin ServedFact(served)
    BY <1>5, <1>6, <1>7, <1>11 DEF Legal
  <2>2. PICK s \in served : s = Entry(id) /\ s.id = id /\ s.is # "closed"
    BY <1>7, <2>1
  <2>3. confused' \subseteq Lost'
    <3>1. confused' = confused
      BY <1>3, <1>5, <1>11, <2>1, <2>2 DEF ServerReceives
    <3> QED BY <1>14, <3>1
  <2>4. served' = Change(id, [s EXCEPT !.is = "closed"])
    BY <1>3, <1>5, <1>11, <2>1, <2>2 DEF ServerReceives
  <2>5. served' = (served \ {s}) \cup {[s EXCEPT !.is = "closed"]}
    BY <2>2, <2>4 DEF Change
  <2>6. Turns(served', served, id, "closed")
    BY <1>1, <2>2, <2>5, ChangeTurns
  <2> QED BY <1>3, <1>5, <1>11, <2>3, <2>6, TurnLearns
<1>12. CASE m.kind = "kill"
  <2>1. PICK hit \in SUBSET served : hit = {s \in served : s.group = m.arg /\ s.is \in {"open", "done"}}
    OBVIOUS
  <2>2. served' = Ended(hit) /\ confused' = confused
    BY <1>3, <1>12, <2>1 DEF ServerReceives, EndChannels, Ended
  <2>3. /\ Turns(served', served, id, "ended")
        /\ \A s \in served' : s.is \in {"open", "done"} => s \in served \ hit
    BY <1>1, <2>2, EndTurns
  <2>4. \A s \in served' : s.is \in {"open", "done"} => s.group # m.arg
    BY <2>1, <2>3
  <2> QED BY <1>3, <1>12, <1>14, <2>2, <2>3, <2>4, TurnLearns
<1>16. CASE m.kind = "again"
  <2>1. PICK hit \in SUBSET served : hit = {s \in served : s.id = m.id /\ s.is = "done"}
    OBVIOUS
  <2>2. served' = Ended(hit) /\ confused' = confused
    BY <1>3, <1>16, <2>1 DEF ServerReceives, EndChannels, Ended
  <2>3. Turns(served', served, id, "ended")
    BY <1>1, <2>2, EndTurns
  <2> QED BY <1>3, <1>14, <1>16, <2>2, <2>3, TurnLearns
<1>13. CASE m.kind = "logout"
  <2>1. link' = "lost"
    BY <1>3, <1>13 DEF ServerReceives
  <2> QED BY <2>1
<1> QED BY <1>4, <1>8, <1>9, <1>10, <1>11, <1>12, <1>13, <1>15, <1>16 DEF Talk

\* The part of the invariant about channels.
Rest == confused \subseteq Lost /\ (Conn => StreamOK /\ RoutesOK)

\* The document a channel belongs to does not change.
LEMMA OwnedStays ==
  ASSUME UNCHANGED <<doc, source, loaded>>, NEW w, NEW id
  PROVE  Owned(w, id)' <=> Owned(w, id)
BY DEF Owned, InWindow

\* What belongs to whom, when the server has taken a message.
LEMMA TakenRoutes ==
  ASSUME RoutesOK, UNCHANGED <<doc, source, loaded>>, up \in Seq(Message), up' \in Seq(Message),
         Tails(up', up), Follows(up[1])
  PROVE  RoutesOK'
<1>1. PICK u \in Seq(Message), t \in Seq(Message) : u = up /\ t = up' /\ Tails(t, u)
  OBVIOUS
<1>2. /\ DOMAIN u = 1..Len(u) /\ DOMAIN t = 1..(Len(u) - 1)
      /\ \A i \in DOMAIN t : i + 1 \in DOMAIN u /\ i + 1 # 1 /\ t[i] = u[i + 1]
      /\ \A i \in DOMAIN u : i # 1 => i - 1 \in DOMAIN t /\ t[i - 1] = u[i]
  BY <1>1, TailsElem
<1>3. \A w, id : Owned(w, id)' <=> Owned(w, id)
  BY OwnedStays
<1>4. 1 \in DOMAIN u
  BY <1>1, <1>2 DEF Tails
<1>5. ASSUME NEW r \in served', r.is \in {"open", "done"}, r.group \in Windows
      PROVE  (\E i \in DOMAIN t : t[i] = Msg("kill", NoId, r.group)) \/ Owned(r.group, r.id)
  <2>1. u[1] # Msg("kill", NoId, r.group)
    BY <1>1, <1>5 DEF Follows
  <2>2. CASE \E s \in served : s.id = r.id /\ s.group = r.group /\ s.is \in {"open", "done"}
    <3>1. OnTheWay(Msg("kill", NoId, r.group)) \/ Owned(r.group, r.id)
      BY <1>5, <2>2 DEF RoutesOK
    <3>2. OnTheWay(Msg("kill", NoId, r.group)) => \E i \in DOMAIN t : t[i] = Msg("kill", NoId, r.group)
      BY <1>1, <1>2, <2>1 DEF OnTheWay
    <3> QED BY <3>1, <3>2
  <2>3. CASE u[1].kind = "open" /\ u[1].id = r.id /\ u[1].arg = r.group
    <3>1. \/ \E j \in DOMAIN u : 1 < j /\ u[j] = Msg("kill", NoId, r.group)
          \/ Owned(r.group, r.id)
      BY <1>1, <1>4, <1>5, <2>3 DEF RoutesOK
    <3>2. (\E j \in DOMAIN u : 1 < j /\ u[j] = Msg("kill", NoId, r.group))
            => \E i \in DOMAIN t : t[i] = Msg("kill", NoId, r.group)
      BY <1>2, <2>1
    <3> QED BY <3>1, <3>2
  <2> QED BY <1>1, <1>5, <2>2, <2>3 DEF Follows
<1>6. ASSUME NEW i \in DOMAIN t, t[i].kind = "open", t[i].arg \in Windows
      PROVE  \/ \E j \in DOMAIN t : i < j /\ t[j] = Msg("kill", NoId, t[i].arg)
             \/ Owned(t[i].arg, t[i].id)
  <2>1. PICK k \in DOMAIN u : k = i + 1 /\ u[k] = t[i]
    BY <1>2
  <2>2. \/ \E j \in DOMAIN u : k < j /\ u[j] = Msg("kill", NoId, u[k].arg)
        \/ Owned(u[k].arg, u[k].id)
    BY <1>1, <1>6, <2>1 DEF RoutesOK
  <2>3. ASSUME NEW j \in DOMAIN u, k < j, u[j] = Msg("kill", NoId, u[k].arg)
        PROVE  \E n \in DOMAIN t : i < n /\ t[n] = Msg("kill", NoId, t[i].arg)
    <3>1. j # 1 /\ i < j - 1
      BY <1>2, <2>1, <2>3
    <3>2. PICK n \in DOMAIN t : n = j - 1 /\ t[n] = u[j]
      BY <1>2, <3>1
    <3> QED BY <2>1, <2>3, <3>1, <3>2
  <2> QED BY <2>1, <2>2, <2>3
<1>7. (\A s \in served : s.is \in {"open", "done"} /\ s.group \in Windows =>
        OnTheWay(Msg("kill", NoId, s.group)) \/ Owned(s.group, s.id))'
  BY <1>1, <1>3, <1>5 DEF OnTheWay
<1>8. (\A i \in DOMAIN up : up[i].kind = "open" /\ up[i].arg \in Windows =>
       \/ \E j \in DOMAIN up : i < j /\ up[j] = Msg("kill", NoId, up[i].arg)
       \/ Owned(up[i].arg, up[i].id))'
  BY <1>1, <1>3, <1>6
<1> QED BY <1>7, <1>8 DEF RoutesOK

\* The server takes a message.
LEMMA ReceivesRest ==
  ASSUME Base, Rest, ServerReceives, Base'
  PROVE  Rest'
<1>1. /\ link = "up" /\ up # <<>> /\ up' = Tail(up) /\ UNCHANGED <<doc, posted, source, unique_id, loaded>>
      /\ up \in Seq(Message)
  BY DEF ServerReceives, frames, Base, Types
<1>2. Conn /\ StreamOK /\ RoutesOK /\ confused \subseteq Lost /\ Lost' = Lost
  BY <1>1, LostSame DEF Rest, Conn, Base, TopOK
<1>3. up' \in Seq(Message) /\ Tails(up', up) /\ 1 \in DOMAIN up /\ Head(up) = up[1] /\ up[1] \in Message
  BY <1>1, TailTails
<1>4. CASE link' # "up"
  <2>1. up[1].kind \in Talk \cup {"init", "kill", "logout"}
    BY <1>3 DEF Base, TopOK
  <2>2. up[1].kind = "logout"
    BY <1>1, <1>3, <1>4, <2>1 DEF ServerReceives, EndChannels, Talk
  <2>3. confused' = confused
    BY <1>3, <2>2 DEF ServerReceives
  <2> QED BY <1>2, <1>4, <2>3 DEF Rest, Conn
<1>5. CASE link' = "up"
  <2>1. PICK m \in Message : m = up[1]
    BY <1>3
  <2>2. Learns(m)
    BY <1>2, <1>5, <2>1, ReceivesLearns
  <2>3. RoutesOK'
    <3>1. Follows(up[1])
      BY <2>1, <2>2 DEF Learns
    <3> QED BY <1>1, <1>2, <1>3, <3>1, TakenRoutes
  <2>4. PICK T : T = Told(up, 1) /\ T = {f \in Fact : f = <<m.kind, m.id>>}
    BY <1>1, <2>1, ToldFirst
  <2>5. PICK B, A : B = ServedFact(served') /\ A = ServedFact(served)
    OBVIOUS
  <2>6. Fewer(B, A \cup T)
    BY <2>2, <2>4, <2>5 DEF Learns
  <2>7. ASSUME NEW n \in 0..Len(up')
        PROVE  Fewer(Up(served', up', n), UpFact(n + 1))
    <3>1. PICK C : C = Told(up', n)
      OBVIOUS
    <3>2. Told(up, n + 1) = T \cup C
      <4>1. PICK u \in Seq(Message), t \in Seq(Message) : u = up /\ t = up' /\ Tails(t, u)
        BY <1>1, <1>3
      <4>2. n \in Nat
        BY <1>3
      <4>3. Told(u, n + 1) = Told(u, 1) \cup Told(t, n)
        BY <4>1, <4>2, TailsTold
      <4> QED BY <2>4, <3>1, <4>1, <4>3
    <3>3. Fewer(B \cup C, (A \cup T) \cup C)
      BY <2>6, FewerCovers
    <3>4. Up(served', up', n) = B \cup C
      BY <2>5, <3>1 DEF Up
    <3>5. UpFact(n + 1) = (A \cup T) \cup C
      BY <2>5, <3>2 DEF UpFact
    <3> QED BY <3>3, <3>4, <3>5
  <2>8. Len(up') + 1 = Len(up) /\ \A i \in DOMAIN up' : i + 1 \in DOMAIN up /\ up'[i] = up[i + 1]
    <3>1. PICK t \in Seq(Message) : t = up' /\ Tails(t, up)
      BY <1>3
    <3>2. \A i \in DOMAIN t : i + 1 \in DOMAIN up /\ t[i] = up[i + 1]
      BY <1>1, <3>1, TailsElem
    <3>3. Len(t) + 1 = Len(up)
      BY <1>1, <3>1 DEF Tails
    <3> QED BY <3>1, <3>2, <3>3
  <2>9. \A s, t \in served' : s.id = t.id => s = t
    BY <2>2 DEF Learns, Unique
  <2>10. PICK k \in {0, 1} : k = 1
    OBVIOUS
  <2>11. StreamOK'
    BY <1>1, <1>2, <1>3, <2>7, <2>8, <2>9, <2>10, ServerStream
  <2> QED BY <2>2, <2>3, <2>11 DEF Rest, Learns
<1> QED BY <1>4, <1>5

\* The server sends a message, or closes a channel.
LEMMA SendsRest ==
  ASSUME Base, Rest, NEW s \in served, NEW kind \in {"ready", "data", "done", "close"}, ServerSends(s, kind)
  PROVE  Rest'
<1>1. /\ link = "up" /\ UNCHANGED <<doc, posted, source, unique_id, loaded, up, link, confused>>
      /\ (served' = IF kind = "close" THEN Change(s.id, [s EXCEPT !.is = "ended"]) ELSE served)
      /\ up \in Seq(Message)
  BY DEF ServerSends, frames, Base, Types
<1>2. Conn /\ StreamOK /\ RoutesOK /\ confused \subseteq Lost /\ Lost' = Lost
  BY <1>1, LostSame DEF Rest, Conn, Base, TopOK
<1>3. served \in SUBSET Entries /\ Unique(served)
  BY <1>2 DEF Base, Types, Entries, StreamOK, Unique
<1>4. PICK id \in Ids : id = s.id
  BY <1>3 DEF Entries
<1>5. Turns(served', served, id, "ended")
  <2>1. CASE kind = "close"
    <3>1. Entry(id) = s
      <4>1. Known(id)
        BY <1>4 DEF Known
      <4>2. Entry(id) \in served /\ Entry(id).id = id
        BY <4>1, EntryOf
      <4> QED BY <1>3, <1>4, <4>2 DEF Unique
    <3>2. served' = (served \ {s}) \cup {[s EXCEPT !.is = "ended"]}
      BY <1>1, <1>4, <2>1, <3>1 DEF Change
    <3> QED BY <1>3, <1>4, <3>2, ChangeTurns
  <2>2. CASE kind # "close"
    BY <1>1, <1>3, <2>2, SameTurns
  <2> QED BY <2>1, <2>2
<1>6. PICK B, A, T : B = ServedFact(served') /\ A = ServedFact(served) /\ T = {}
  OBVIOUS
<1>7. Fewer(B, A)
  <2>1. Fewer(B, A \cup T)
    BY <1>5, <1>6, TurnFacts
  <2> QED BY <1>6, <2>1
<1>8. ASSUME NEW n \in 0..Len(up')
      PROVE  Fewer(Up(served', up', n), UpFact(n + 0))
  <2>1. n + 0 = n
    OBVIOUS
  <2>2. Fewer(B \cup Told(up, n), A \cup Told(up, n))
    BY <1>7, FewerCovers
  <2> QED BY <1>1, <1>6, <2>1, <2>2 DEF Up, UpFact
<1>9. Len(up') + 0 = Len(up) /\ \A i \in DOMAIN up' : i + 0 \in DOMAIN up /\ up'[i] = up[i + 0]
  BY <1>1
<1>10. \A q, t \in served' : q.id = t.id => q = t
  BY <1>5 DEF Turns, Unique
<1>11. PICK k \in {0, 1} : k = 0
  OBVIOUS
<1>12. StreamOK'
  BY <1>1, <1>2, <1>8, <1>9, <1>10, <1>11, ServerStream
<1>13. RoutesOK'
  <2>1. \A w, i : Owned(w, i)' <=> Owned(w, i)
    BY <1>1, OwnedStays
  <2>2. \A r \in served' : r.is \in {"open", "done"} =>
          \E q \in served : q.id = r.id /\ q.group = r.group /\ q.is \in {"open", "done"}
    BY <1>5 DEF Turns
  <2> QED BY <1>1, <1>2, <2>1, <2>2 DEF RoutesOK, OnTheWay
<1> QED BY <1>1, <1>2, <1>12, <1>13 DEF Rest

----
(* What the shell's own page sends.                                        *)

\* A kill or a logout says nothing of one channel.
LEMMA SilentFacts ==
  ASSUME NEW q \in Seq(Message), \A i \in DOMAIN q : q[i].kind \notin Talk
  PROVE  (\A n : Told(q, n) = {}) /\ \A i \in DOMAIN q : \A B : Legal(q[i], B)
<1>1. \A i \in DOMAIN q : <<q[i].kind, q[i].id>> \notin Fact
  <2> SUFFICES ASSUME NEW i \in DOMAIN q, NEW k, k = q[i].kind, NEW id, id = q[i].id, <<k, id>> \in Fact
               PROVE  FALSE
    OBVIOUS
  <2>1. k \in {"open", "done", "close"}
    BY DEF Fact
  <2> QED BY <2>1 DEF Talk
<1>2. \A n : Told(q, n) = {}
  BY <1>1 DEF Told
<1> QED BY <1>2 DEF Legal, Talk

\* The facts that were posted are about names the router has given.
LEMMA PostSeeds ==
  ASSUME Base, NEW n, NEW f \in PostTold(posted, n)
  PROVE  f[2][1] \in 1..unique_id
<1>1. PICK i \in DOMAIN posted : f = <<posted[i].msg.kind, posted[i].msg.id>> /\ f \in Fact
  BY DEF PostTold
<1>2. PICK k, id : k = posted[i].msg.kind /\ id = posted[i].msg.id /\ f = <<k, id>>
  BY <1>1
<1>3. k \in Talk
  BY <1>1, <1>2 DEF Fact, Talk
<1>4. id[1] \in 1..unique_id
  BY <1>2, <1>3 DEF Base, PostedOK
<1> QED BY <1>2, <1>4

\* All facts are about names the router has given, or the shell's own.
LEMMA AllSeeds ==
  ASSUME Base, StreamOK
  PROVE  \A f \in AllFacts : f[2][1] \in 0..unique_id
<1> SUFFICES ASSUME NEW f \in AllFacts PROVE f[2][1] \in 0..unique_id
  OBVIOUS
<1>1. f \in Fact /\ unique_id \in Nat
  BY FactTypes DEF Base, Types
<1>2. f[2][1] \in Nat
  BY <1>1 DEF Fact, Ids
<1>3. CASE f \in UpFact(Len(up))
  BY <1>1, <1>2, <1>3 DEF StreamOK
<1>4. CASE f \in PostTold(posted, Len(posted))
  BY <1>1, <1>4, PostSeeds
<1> QED BY <1>3, <1>4 DEF AllFacts, PostedFact

\* What belongs to whom, when the shell has sent q.
LEMMA GrownRoutes ==
  ASSUME Types, RoutesOK, NEW q, UpGrows(q),
         \A v \in Windows : \A id : Owned(v, id) => Owned(v, id)' \/ \E j \in DOMAIN q : q[j] = Msg("kill", NoId, v),
         \A j \in DOMAIN q : q[j].kind = "open" /\ q[j].arg \in Windows => Owned(q[j].arg, q[j].id)'
  PROVE  RoutesOK'
<1>1. PICK u, r, t : u \in Seq(Message) /\ r \in Seq(Message) /\ u = up /\ r = q /\ t = up' /\ IsCat(t, u, r)
  BY DEF UpGrows, Types
<1>2. /\ \A i \in DOMAIN u : i \in DOMAIN t /\ t[i] = u[i] /\ i <= Len(u)
      /\ \A i \in DOMAIN t : \/ i \in DOMAIN u /\ t[i] = u[i]
                             \/ \E j \in DOMAIN r : i = Len(u) + j /\ t[i] = r[j]
      /\ \A j \in DOMAIN r : Len(u) + j \in DOMAIN t /\ t[Len(u) + j] = r[j]
  BY <1>1, CatElem
<1>3. DOMAIN r = 1..Len(r) /\ DOMAIN u = 1..Len(u) /\ Len(u) \in Nat
  OBVIOUS
<1>4. \A v \in Windows : \A id : Owned(v, id) => Owned(v, id)' \/ \E i \in DOMAIN t : Len(u) < i /\ t[i] = Msg("kill", NoId, v)
  <2> SUFFICES ASSUME NEW v \in Windows, NEW j \in DOMAIN r, r[j] = Msg("kill", NoId, v)
               PROVE  \E i \in DOMAIN t : Len(u) < i /\ t[i] = Msg("kill", NoId, v)
    BY <1>1
  <2>1. Len(u) < Len(u) + j
    BY <1>3
  <2> QED BY <1>2, <2>1
<1>5. ASSUME NEW s \in served', s.is \in {"open", "done"}, s.group \in Windows
      PROVE  (\E i \in DOMAIN t : t[i] = Msg("kill", NoId, s.group)) \/ Owned(s.group, s.id)'
  <2>1. OnTheWay(Msg("kill", NoId, s.group)) \/ Owned(s.group, s.id)
    BY <1>5 DEF RoutesOK, UpGrows
  <2>2. OnTheWay(Msg("kill", NoId, s.group)) => \E i \in DOMAIN t : t[i] = Msg("kill", NoId, s.group)
    BY <1>1, <1>2 DEF OnTheWay
  <2> QED BY <1>4, <1>5, <2>1, <2>2
<1>6. ASSUME NEW i \in DOMAIN t, NEW v \in Windows, NEW id, t[i].kind = "open", t[i].arg = v, t[i].id = id
      PROVE  (\E j \in DOMAIN t : i < j /\ t[j] = Msg("kill", NoId, v)) \/ Owned(v, id)'
  <2>1. CASE i \in DOMAIN u /\ t[i] = u[i]
    <3>1. (\E j \in DOMAIN u : i < j /\ u[j] = Msg("kill", NoId, v)) \/ Owned(v, id)
      BY <1>1, <1>6, <2>1 DEF RoutesOK
    <3>2. (\E j \in DOMAIN u : i < j /\ u[j] = Msg("kill", NoId, v))
             => \E j \in DOMAIN t : i < j /\ t[j] = Msg("kill", NoId, v)
      BY <1>2
    <3>3. i <= Len(u) /\ i \in Nat
      BY <1>3, <2>1
    <3>4. \A j \in DOMAIN t : j \in Nat /\ (Len(u) < j => i < j)
      <4>1. DOMAIN t \subseteq Nat
        BY <1>1 DEF IsCat
      <4> QED BY <1>3, <3>3, <4>1
    <3> QED BY <1>4, <3>1, <3>2, <3>4
  <2>2. CASE \E j \in DOMAIN r : i = Len(u) + j /\ t[i] = r[j]
    BY <1>1, <1>6, <2>2
  <2> QED BY <1>2, <2>1, <2>2
<1>7. (\A s \in served : s.is \in {"open", "done"} /\ s.group \in Windows =>
        OnTheWay(Msg("kill", NoId, s.group)) \/ Owned(s.group, s.id))'
  BY <1>1, <1>5 DEF OnTheWay
<1>8. (\A i \in DOMAIN up : up[i].kind = "open" /\ up[i].arg \in Windows =>
       \/ \E j \in DOMAIN up : i < j /\ up[j] = Msg("kill", NoId, up[i].arg)
       \/ Owned(up[i].arg, up[i].id))'
  BY <1>1, <1>6
<1> QED BY <1>7, <1>8 DEF RoutesOK

\* The shell's page speaks for itself.
TopSpeaks(q) ==
  /\ UpGrows(q) /\ UNCHANGED <<posted, source, unique_id, loaded, confused>>
  /\ \A d \in Docs : doc'[d] = doc[d]
  /\ PageOK(doc'[Top], Mine(Top), AllFacts \cup Told(q, Len(q)))
  /\ \A j \in DOMAIN q : /\ Legal(q[j], AllFacts \cup Told(q, j - 1))
                         /\ q[j].kind \in Talk => q[j].id[1] = 0
                         /\ q[j].kind = "open" => q[j].arg \in Mine(Top)

\* The facts of what it says are about its own name.
LEMMA TopFacts ==
  ASSUME NEW q, TopSpeaks(q), NEW n, NEW f \in Told(q, n)
  PROVE  f[2][1] = 0
<1>1. PICK i \in DOMAIN q : f = <<q[i].kind, q[i].id>> /\ f \in Fact
  BY DEF Told
<1>2. PICK k, id : k = q[i].kind /\ id = q[i].id /\ f = <<k, id>>
  BY <1>1
<1>3. k \in Talk
  BY <1>1, <1>2 DEF Fact, Talk
<1>4. id[1] = 0
  BY <1>2, <1>3 DEF TopSpeaks
<1> QED BY <1>2, <1>4

\* The protocol is kept.
LEMMA SpeaksStream ==
  ASSUME Base, StreamOK, NEW q, TopSpeaks(q)
  PROVE  StreamOK'
<1>1. /\ Types /\ posted \in Seq(Post) /\ up \in Seq(Message) /\ UpGrows(q) /\ q \in Seq(Message) /\ unique_id \in Nat
      /\ UNCHANGED <<posted, source, unique_id, loaded>>
  BY DEF Base, Types, TopSpeaks, UpGrows
<1>2. PICK T \in SUBSET Fact : T = Told(q, Len(q)) /\ \A f \in T : f[2][1] = 0
  BY TopFacts DEF Told
<1>3. Up(served', up', Len(up')) = UpFact(Len(up)) \cup T
  BY <1>1, <1>2, UpFacts
<1>4. \A n : Heard(served', up', posted', n) = PostedFact(n) \cup T
  BY <1>1, <1>3 DEF Heard, PostedFact
<1>5. PICK A \in SUBSET Fact, B \in SUBSET Fact : A = AllFacts /\ B = A \cup T
  BY <1>1, FactTypes
<1>6. Heard(served', up', posted', Len(posted')) = B
  BY <1>1, <1>4, <1>5 DEF AllFacts
<1>7. \A f \in Up(served', up', Len(up')) : f[2][1] <= unique_id'
  BY <1>1, <1>2, <1>3 DEF StreamOK
<1>8. ASSUME NEW d \in Docs \cup {Top}
      PROVE  PageOK(doc'[d], Mine(d), B)
  <2>1. CASE d = Top
    BY <1>2, <1>5, <2>1 DEF TopSpeaks
  <2>2. CASE d \in Docs
    <3>1. \/ doc[d].ws = "null" \/ ~doc[d].ready
          \/ doc[d].seed = source[Window(d)] /\ source[Window(d)] # 0
      BY <2>2, ReadySeed
    <3>2. \A x : x # 0 => Covers(B, A, x)
      BY <1>2, <1>5 DEF Covers
    <3>3. doc[d].ws = "null" \/ ~doc[d].ready \/ Covers(B, AllFacts, doc[d].seed)
      BY <1>5, <3>1, <3>2
    <3>4. doc'[d] = doc[d]
      BY <2>2 DEF TopSpeaks
    <3> QED BY <3>3, <3>4, PageStays
  <2> QED BY <2>1, <2>2
<1>9. ASSUME NEW d \in loaded', source'[Window(d)] # 0, doc'[d].waiting_for_init, doc'[d].ws # "null"
      PROVE  \A f \in B : f[2][1] # source'[Window(d)]
  <2>1. d \in loaded /\ d \in Docs /\ doc'[d] = doc[d]
    BY <1>1 DEF TopSpeaks, Types
  <2>2. \A f \in A : f[2][1] # source[Window(d)]
    BY <1>1, <1>5, <1>9, <2>1 DEF StreamOK, Going
  <2> QED BY <1>1, <1>2, <1>5, <1>9, <2>2
<1>10. \A i \in DOMAIN up' : up'[i] \in Lost' \/ Legal(up'[i], Up(served', up', i - 1))
  <2>1. ASSUME NEW j \in DOMAIN q
        PROVE  Legal(q[j], UpFact(Len(up)) \cup Told(q, j - 1))
    <3>1. PICK m \in Message : m = q[j]
      BY <1>1
    <3>2. PICK C \in SUBSET Fact, V \in SUBSET Fact : C = Told(q, j - 1) /\ V = UpFact(Len(up))
      BY <1>1, FactTypes DEF Told
    <3>3. Legal(m, A \cup C) /\ (m.kind \in Talk => m.id[1] = 0)
      BY <1>5, <3>1, <3>2 DEF TopSpeaks
    <3>4. A = V \cup PostTold(posted, Len(posted))
      BY <1>5, <3>2 DEF AllFacts, PostedFact
    <3>5. \A f \in PostTold(posted, Len(posted)) : f[2][1] # 0
      BY <1>1, PostSeeds
    <3>6. Covers(V \cup C, A \cup C, 0)
      BY <3>4, <3>5 DEF Covers
    <3>7. Legal(m, V \cup C)
      <4>1. A \cup C \in SUBSET Fact /\ V \cup C \in SUBSET Fact
        OBVIOUS
      <4>2. m.kind \in Talk => Covers(V \cup C, A \cup C, m.id[1])
        BY <3>3, <3>6
      <4> QED BY <3>3, <4>1, <4>2, LegalCovers
    <3> QED BY <3>1, <3>2, <3>7
  <2>2. Lost' = Lost /\ \A i \in DOMAIN up : up[i] \in Lost \/ Legal(up[i], UpFact(i - 1))
    BY <1>1, LostSame DEF StreamOK
  <2> QED BY <1>1, <2>1, <2>2, UpLegal
<1>11. ASSUME NEW i \in DOMAIN posted', posted'[i].from \in loaded', source'[Window(posted'[i].from)] # 0
       PROVE  Legal(posted'[i].msg, Heard(served', up', posted', i - 1))
  <2>1. PICK m \in Message : m = posted[i].msg
    BY <1>1, <1>11, PostedBy
  <2>2. Legal(m, PostedFact(i - 1))
    BY <1>1, <1>11, <2>1 DEF StreamOK, Going
  <2>3. PICK C \in SUBSET Fact, V \in SUBSET Fact : C = PostedFact(i - 1) /\ V = C \cup T
    BY <1>1, FactTypes
  <2>4. m.kind \in Talk => m.id[1] # 0
    <3>1. m.kind \in Talk => m.id[1] \in 1..unique_id
      BY <1>1, <2>1 DEF Base, PostedOK
    <3> QED BY <1>1, <3>1
  <2>5. m.kind \in Talk => Covers(V, C, m.id[1])
    BY <1>2, <2>3, <2>4 DEF Covers
  <2>6. Legal(m, V)
    BY <2>2, <2>3, <2>5, LegalCovers
  <2> QED BY <1>1, <1>4, <2>1, <2>3, <2>6
<1>12. \A s, t \in served' : s.id = t.id => s = t
  BY <1>1 DEF UpGrows, StreamOK
<1> QED BY <1>6, <1>7, <1>8, <1>9, <1>10, <1>11, <1>12, StreamNext

\* And so is the ownership of channels.
LEMMA SpeaksRest ==
  ASSUME Base, Rest, NEW q, TopSpeaks(q), Conn
  PROVE  Rest'
<1>1. StreamOK /\ RoutesOK /\ UpGrows(q) /\ Types /\ UNCHANGED <<source, unique_id, loaded, confused>>
      /\ confused \subseteq Lost /\ Lost' = Lost
  BY LostSame DEF Rest, TopSpeaks, Base
<1>2. \A d \in loaded : doc'[d] = doc[d]
  BY <1>1 DEF TopSpeaks, Types
<1>3. \A v \in Windows : \A id : Owned(v, id) => Owned(v, id)'
  BY <1>1, <1>2 DEF Owned, InWindow
<1>4. \A j \in DOMAIN q : q[j].kind = "open" => q[j].arg \notin Windows
  BY ShellAssumption DEF TopSpeaks, Mine
<1>5. RoutesOK'
  BY <1>1, <1>3, <1>4, GrownRoutes
<1>6. StreamOK'
  BY <1>1, SpeaksStream
<1> QED BY <1>1, <1>5, <1>6 DEF Rest

\* The shell's page becomes E, and what it said is on its way.
LEMMA TopSaid ==
  ASSUME Base, NEW E, PageOK(E, Mine(Top), AllFacts), E.seed = 0,
         doc' = [doc EXCEPT ![Top] = [E EXCEPT !.out = <<>>]], up' = up \o E.out,
         served' = served, UNCHANGED <<posted, source, unique_id, loaded, confused>>
  PROVE  TopSpeaks(E.out)
<1>1. PICK mine \in Mines : mine = Mine(Top)
  BY TopPage
<1>2. PICK A \in SUBSET Fact : A = AllFacts
  BY FactTypes DEF Base
<1>3. PageOK(E, mine, A) /\ E \in Page(mine) /\ DOMAIN E.chan = mine
  BY <1>1, <1>2 DEF PageOK, Page
<1>4. PICK q \in Seq(Message) : q = E.out
  BY <1>3 DEF Page
<1>5. PICK F : F = [E EXCEPT !.out = <<>>]
  OBVIOUS
<1>6. PageOK(F, mine, A \cup Told(q, Len(q)))
  BY <1>3, <1>4, <1>5, PageSent
<1>7. doc'[Top] = F /\ \A d \in Docs : doc'[d] = doc[d]
  BY <1>5, TopPage DEF Base, Types
<1>8. UpGrows(q)
  BY <1>4, UpCat, TopPage DEF UpGrows
<1>9. \A j \in DOMAIN q : Legal(q[j], A \cup Told(q, j - 1))
  BY <1>3, <1>4 DEF PageOK, OutOK
<1>10. ASSUME NEW j \in DOMAIN q, q[j].kind \in Talk
       PROVE  q[j].id[1] = 0 /\ (q[j].kind = "open" => q[j].arg \in mine)
  <2>1. q[j] \in Msgs(q)
    BY DEF Msgs
  <2>2. q[j].id[1] = E.seed
    BY <1>3, <1>4, <1>10, <2>1, OutIds
  <2>3. Own(E)
    BY <1>3 DEF PageOK
  <2> QED BY <1>3, <1>4, <1>10, <2>2, <2>3 DEF Own
<1>11. \A j \in DOMAIN q : q[j].kind = "open" => q[j].kind \in Talk
  BY DEF Talk
<1> QED BY <1>1, <1>2, <1>4, <1>6, <1>7, <1>8, <1>9, <1>10, <1>11 DEF TopSpeaks

\* Without a connection there is nothing to show.
LEMMA LostRest ==
  ASSUME Rest, confused' = confused, Lost \subseteq Lost', ~Conn'
  PROVE  Rest'
BY DEF Rest

\* The WebSocket opens.
LEMMA OpenedRest ==
  ASSUME Base, Rest, Opened(Top)
  PROVE  Rest'
<1>1. PICK mine \in Mines : mine = Mine(Top)
  BY TopPage
<1>2. PICK T \in Page(mine) : T = doc[Top] /\ T.out = <<>> /\ T.ws = "opening"
  BY <1>1, TopPage DEF Opened
<1>3. ~T.ready /\ T.seed = 0
  BY <1>2 DEF Base, TopOK
<1>4. PICK E : E = SendData([T EXCEPT !.ws = "open"], Msg("init", NoId, "none"))
  OBVIOUS
<1>5. /\ doc' = [doc EXCEPT ![Top] = [E EXCEPT !.out = <<>>]] /\ up' = (IF link = "up" THEN up \o E.out ELSE up)
      /\ UNCHANGED <<posted, source, unique_id, loaded, confused, served, link>>
  BY <1>2, <1>4 DEF Opened, Becomes, frames, server
<1>6. CASE link # "up"
  BY <1>5, <1>6, LostRest, LostSame DEF Conn
<1>7. CASE link = "up"
  <2>1. Conn
    BY <1>2, <1>7 DEF Conn
  <2>2. PICK A \in SUBSET Fact : A = AllFacts
    BY FactTypes DEF Base
  <2>3. PageOK(T, mine, A)
    BY <1>1, <1>2, <2>1, <2>2, TopPage DEF Rest, StreamOK
  <2>4. PageOK(E, mine, A) /\ Opens(T, E)
    BY <1>2, <1>3, <1>4, <2>3, OpenOK
  <2>5. E.seed = 0
    BY <1>3, <2>4 DEF Opens
  <2>6. TopSpeaks(E.out)
    BY <1>1, <1>5, <1>7, <2>2, <2>4, <2>5, TopSaid
  <2> QED BY <2>1, <2>6, SpeaksRest
<1> QED BY <1>6, <1>7

\* The shell's own beforeunload says nothing.
LEMMA ExpectRest ==
  ASSUME Base, Rest, BeforeUnload(Top)
  PROVE  Rest'
<1>1. PICK E : /\ doc' = [doc EXCEPT ![Top] = [E EXCEPT !.out = <<>>]]
               /\ E.out = <<>> /\ E.ws = doc[Top].ws /\ E.seed = doc[Top].seed /\ E.ready = doc[Top].ready
               /\ E.waiting_for_init = doc[Top].waiting_for_init /\ E \in Page(Mine(Top))
               /\ \A A \in SUBSET Fact : PageOK(doc[Top], Mine(Top), A) => PageOK(E, Mine(Top), A)
               /\ UNCHANGED <<shown, loaded, source, unique_id, current, up, down, served, confused, link,
                              posted, inbox>>
  BY TopExpects
<1>2. CASE ~Conn
  <2>1. doc'[Top].ws = doc[Top].ws
    BY <1>1, TopPage DEF Page, Base, Types
  <2> QED BY <1>1, <1>2, <2>1, LostRest, LostSame DEF Conn
<1>3. CASE Conn
  <2>1. AllFacts \in SUBSET Fact /\ PageOK(doc[Top], Mine(Top), AllFacts)
    BY <1>3, FactTypes, TopPage DEF Base, Rest, StreamOK
  <2>2. PageOK(E, Mine(Top), AllFacts) /\ E.seed = 0
    BY <1>1, <2>1 DEF Base, TopOK
  <2>3. up' = up \o E.out
    BY <1>1, TopPage
  <2>4. TopSpeaks(E.out)
    BY <1>1, <2>2, <2>3, TopSaid
  <2> QED BY <1>3, <2>4, SpeaksRest
<1> QED BY <1>2, <1>3

\* What is known when the shell's init comes: nothing of its own channels.
LEMMA TopKnows ==
  ASSUME Base, StreamOK
  PROVE  TopFits(AllFacts)
<1> SUFFICES ASSUME doc[Top].waiting_for_init, doc[Top].ws # "null", NEW f \in AllFacts
             PROVE  f[2][1] # 0
  BY DEF TopFits
<1>1. /\ served = {} /\ \A i \in DOMAIN up : up[i].kind = "init"
      /\ up \in Seq(Message)
  BY DEF Base, TopOK, Types
<1>2. Told(up, Len(up)) = {}
  BY <1>1, SilentFacts DEF Talk
<1>3. UpFact(Len(up)) = {}
  BY <1>1, <1>2 DEF UpFact, ServedFact
<1>4. f \in PostTold(posted, Len(posted))
  BY <1>3 DEF AllFacts, PostedFact
<1>5. f[2][1] \in 1..unique_id /\ unique_id \in Nat
  BY <1>4, PostSeeds DEF Base, Types
<1> QED BY <1>5

\* A message on the WebSocket.
LEMMA HearsRest ==
  ASSUME Base, Rest, NEW E, TopHears(E)
  PROVE  Rest'
<1>1. E \in Page(Mine(Top)) /\ TopTells(E)
      /\ \A A \in SUBSET Fact : PageOK(doc[Top], Mine(Top), A) /\ TopFits(A) => PageOK(E, Mine(Top), A)
  BY TopDispatch DEF TopHears
<1>2. /\ doc' = [doc EXCEPT ![Top] = [E EXCEPT !.out = <<>>]] /\ up' = (IF link = "up" THEN up \o E.out ELSE up)
      /\ UNCHANGED <<posted, source, unique_id, loaded, confused, served, link>>
  BY DEF TopHears, Still
<1>3. PICK F : F = [E EXCEPT !.out = <<>>]
  OBVIOUS
<1>4. F.ws = E.ws /\ doc'[Top] = F
  BY <1>1, <1>2, <1>3, TopPage DEF Page, Base, Types
<1>5. CASE link # "up" \/ E.ws = "null"
  BY <1>2, <1>4, <1>5, LostRest, LostSame DEF Conn
<1>6. CASE link = "up" /\ E.ws # "null"
  <2>1. PICK m : m = down[1]
    OBVIOUS
  <2>2. PICK T : T = doc[Top]
    OBVIOUS
  <2>3. T.seed = 0 /\ (m.kind = "init" => T.ws = "open" /\ T.waiting_for_init /\ m.id = NoId)
    <3>1. down \in Seq(Message) /\ down # <<>>
      BY DEF Base, Types, TopHears
    <3>2. 1 \in DOMAIN down
      BY <3>1, EmptySeq
    <3> QED BY <2>1, <2>2, <3>2 DEF Base, TopOK
  <2>4. T.ws # "null" /\ E.seed = 0
    BY <1>1, <1>6, <2>1, <2>2, <2>3 DEF TopTells, Inits, Quits, Tells, NoId
  <2>5. Conn
    BY <1>6, <2>2, <2>4 DEF Conn
  <2>6. StreamOK
    BY <2>5 DEF Rest
  <2>7. AllFacts \in SUBSET Fact /\ PageOK(doc[Top], Mine(Top), AllFacts) /\ TopFits(AllFacts)
    BY <2>6, TopKnows, FactTypes, TopPage DEF Base, StreamOK
  <2>8. PageOK(E, Mine(Top), AllFacts)
    BY <1>1, <2>7
  <2>9. TopSpeaks(E.out)
    BY <1>2, <1>6, <2>4, <2>8, TopSaid
  <2> QED BY <2>5, <2>9, SpeaksRest
<1> QED BY <1>5, <1>6

\* cockpit.logout
LEMMA LogoutRest ==
  ASSUME Base, Rest, Logout
  PROVE  Rest'
<1>1. PICK m \in Message : m = Msg("logout", NoId, "none") /\ m.kind = "logout"
  <2>1. NoId \in Ids
    BY IdType DEF NoId
  <2> QED BY <2>1, MsgType DEF Kinds, Talk, Args, Problems
<1>2. PICK E : E = SendData(doc[Top], m)
  OBVIOUS
<1>3. [E EXCEPT !.out = <<>>] = doc[Top] /\ E.out = <<m>>
  BY <1>2, TopSends DEF Logout
<1>4. PICK q \in Seq(Message) : q = E.out /\ q = <<m>>
  BY <1>3, OneType
<1>5. /\ doc' = [doc EXCEPT ![Top] = doc[Top]] /\ up' = up \o q
      /\ UNCHANGED <<posted, loaded, source, unique_id, served, confused>>
      /\ link = "up" /\ doc[Top].ws # "null"
  BY <1>1, <1>2, <1>3, <1>4 DEF Logout, Becomes, frames
<1>6. Conn
  BY <1>5 DEF Conn
<1>7. StreamOK
  BY <1>6 DEF Rest
<1>8. \A i \in DOMAIN q : q[i].kind = "logout"
  BY <1>1, <1>4
<1>9. Told(q, Len(q)) = {} /\ \A i \in DOMAIN q : \A B : Legal(q[i], B)
  BY <1>8, SilentFacts DEF Talk
<1>10. \A d \in Docs \cup {Top} : doc'[d] = doc[d]
  BY <1>5 DEF Base, Types
<1>11. PageOK(doc'[Top], Mine(Top), AllFacts \cup Told(q, Len(q)))
  BY <1>7, <1>9, <1>10, TopPage DEF StreamOK
<1>12. UpGrows(q)
  BY <1>5, UpCat, TopPage DEF UpGrows
<1>13. TopSpeaks(q)
  BY <1>5, <1>8, <1>9, <1>10, <1>11, <1>12 DEF TopSpeaks, Talk
<1> QED BY <1>6, <1>13, SpeaksRest

\* The connection is lost or given up.
LEMMA DownRest ==
  ASSUME Rest, HealthCheck \/ SocketClosed \/ \E how \in {"lost", "silent"} : ConnectionLost(how)
  PROVE  Rest'
<1>1. link' # "up" /\ confused' = confused /\ UNCHANGED <<source, unique_id>>
  BY DEF HealthCheck, ConnectionLost, SocketClosed, frames
<1> QED BY <1>1, LostRest, LostSame DEF Conn

----
(* The router's message_handler and the protocol.                          *)

\* The router takes the first message and sends q: q has its fact, unless
\* nobody has its name; a frame that gets a name gets a new one.
TakesOver(q) ==
  /\ UpGrows(q) /\ loaded' = loaded /\ unique_id' \in Nat /\ unique_id <= unique_id'
  /\ posted' \in Seq(Post) /\ Tails(posted', posted)
  /\ \A d \in Docs \cup {Top} : doc'[d] = doc[d]
  /\ Told(q, Len(q)) \subseteq PostTold(posted, 1)
  /\ \A f \in PostTold(posted, 1) : f \in Told(q, Len(q)) \/ \A v \in Windows : source[v] # f[2][1]
  /\ \A j \in DOMAIN q : q[j] \in Lost \/ Legal(q[j], UpFact(Len(up)) \cup Told(q, j - 1))
  /\ \A v \in Windows : source'[v] # 0 =>
       \/ source'[v] = source[v]
       \/ source'[v] = unique_id + 1 /\ \A i \in DOMAIN posted' : Window(posted'[i].from) # v

\* What becomes of the facts.
LEMMA TakenFacts ==
  ASSUME Base, NEW q, TakesOver(q), NEW n \in Nat
  PROVE  /\ Heard(served', up', posted', n) \subseteq PostedFact(n + 1)
         /\ Covers(Heard(served', up', posted', n), PostedFact(n + 1), 0)
         /\ \A v \in Windows : Covers(Heard(served', up', posted', n), PostedFact(n + 1), source[v])
<1>1. Types /\ posted \in Seq(Post) /\ UpGrows(q) /\ unique_id \in Nat
  BY DEF Base, Types, TakesOver
<1>2. PICK T, R : T = Told(q, Len(q)) /\ R = PostTold(posted, 1)
  OBVIOUS
<1>3. PICK s \in Seq(Post), t \in Seq(Post) : s = posted /\ t = posted' /\ Tails(t, s)
  BY <1>1 DEF TakesOver
<1>4. PostTold(s, n + 1) = R \cup PostTold(t, n)
  BY <1>2, <1>3, TailsPost
<1>5. Up(served', up', Len(up')) = UpFact(Len(up)) \cup T
  BY <1>1, <1>2, UpFacts
<1>6. PICK P : P = PostTold(t, n)
  OBVIOUS
<1>7. Heard(served', up', posted', n) = (UpFact(Len(up)) \cup T) \cup P
  BY <1>3, <1>5, <1>6 DEF Heard
<1>8. PostedFact(n + 1) = UpFact(Len(up)) \cup (R \cup P)
  BY <1>3, <1>4, <1>6 DEF PostedFact
<1>9. T \subseteq R /\ \A f \in R : f \in T \/ \A v \in Windows : source[v] # f[2][1]
  BY <1>2 DEF TakesOver
<1>10. \A f \in R : f[2][1] # 0
  <2>1. \A f \in R : f[2][1] \in 1..unique_id
    BY <1>2, PostSeeds
  <2> QED BY <1>1, <2>1
<1>11. PICK H, G : H = Heard(served', up', posted', n) /\ G = PostedFact(n + 1)
  OBVIOUS
<1>12. H \subseteq G /\ \A f \in G : f \in H \/ (f \in R /\ f \notin T)
  BY <1>7, <1>8, <1>9, <1>11
<1>13. Covers(H, G, 0)
  BY <1>10, <1>12 DEF Covers
<1>14. \A v \in Windows : Covers(H, G, source[v])
  BY <1>9, <1>12 DEF Covers
<1> QED BY <1>11, <1>12, <1>13, <1>14

\* The protocol is kept.
LEMMA TakenStream ==
  ASSUME Base, StreamOK, NEW q, TakesOver(q)
  PROVE  StreamOK'
<1>1. /\ Types /\ posted \in Seq(Post) /\ UpGrows(q) /\ unique_id \in Nat /\ unique_id' \in Nat /\ unique_id <= unique_id'
      /\ loaded' = loaded /\ loaded \subseteq Docs
      /\ source \in [Windows -> Nat]
  BY DEF Base, Types, TakesOver
<1>2. PICK s \in Seq(Post), t \in Seq(Post) : s = posted /\ t = posted' /\ Tails(t, s)
  BY <1>1 DEF TakesOver
<1>3. Len(t) \in Nat /\ Len(s) = Len(t) + 1
  BY <1>2 DEF Tails
<1>4. AllFacts = PostedFact(Len(t) + 1)
  BY <1>2, <1>3 DEF AllFacts
<1>5. PICK B \in SUBSET Fact : B = Heard(served', up', posted', Len(posted'))
  BY HeardFacts
<1>6. B \subseteq AllFacts /\ Covers(B, AllFacts, 0) /\ \A v \in Windows : Covers(B, AllFacts, source[v])
  BY <1>2, <1>3, <1>4, <1>5, TakenFacts
<1>7. \A f \in B : f[2][1] \in 0..unique_id
  BY <1>6, AllSeeds
<1>8. \A f \in Up(served', up', Len(up')) : f[2][1] <= unique_id'
  <2>1. Up(served', up', Len(up')) \subseteq B
    BY <1>5 DEF Heard
  <2>2. \A k \in 0..unique_id : k <= unique_id'
    BY <1>1
  <2> QED BY <1>7, <2>1, <2>2
<1>9. ASSUME NEW d \in Docs \cup {Top}
      PROVE  PageOK(doc'[d], Mine(d), B)
  <2>1. doc'[d] = doc[d]
    BY DEF TakesOver
  <2>2. doc[d].ws = "null" \/ ~doc[d].ready \/ Covers(B, AllFacts, doc[d].seed)
    <3>1. CASE d = Top
      BY <1>6, <3>1 DEF Base, TopOK
    <3>2. CASE d \in Docs
      BY <1>6, <3>2, ReadySeed, DocWindow
    <3> QED BY <3>1, <3>2
  <2> QED BY <2>1, <2>2, PageStays
<1>10. ASSUME NEW d \in loaded', source'[Window(d)] # 0, doc'[d].waiting_for_init, doc'[d].ws # "null"
       PROVE  \A f \in B : f[2][1] # source'[Window(d)]
  <2>1. d \in loaded /\ d \in Docs /\ doc'[d] = doc[d]
    BY <1>1 DEF TakesOver
  <2>2. PICK v \in Windows : v = Window(d)
    BY <2>1, DocWindow
  <2>3. CASE source'[v] = source[v]
    BY <1>6, <1>10, <2>1, <2>2, <2>3 DEF StreamOK, Going
  <2>4. CASE source'[v] = unique_id + 1
    <3>1. \A k \in 0..unique_id : k # unique_id + 1
      BY <1>1
    <3> QED BY <1>7, <2>2, <2>4, <3>1
  <2> QED BY <1>10, <2>2, <2>3, <2>4 DEF TakesOver
<1>11. \A i \in DOMAIN up' : up'[i] \in Lost' \/ Legal(up'[i], Up(served', up', i - 1))
  <2>1. \A i \in DOMAIN up : up[i] \in Lost \/ Legal(up[i], UpFact(i - 1))
    BY DEF StreamOK
  <2>2. \A j \in DOMAIN q : q[j] \in Lost \/ Legal(q[j], UpFact(Len(up)) \cup Told(q, j - 1))
    BY DEF TakesOver
  <2>3. Lost \subseteq Lost'
    BY <1>1, LostStays DEF TakesOver
  <2> QED BY <1>1, <2>1, <2>2, <2>3, UpLegal
<1>12. ASSUME NEW i \in DOMAIN posted', posted'[i].from \in loaded', source'[Window(posted'[i].from)] # 0
       PROVE  Legal(posted'[i].msg, Heard(served', up', posted', i - 1))
  <2>1. i \in DOMAIN t
    BY <1>2
  <2>2. PICK j \in DOMAIN s : j = i + 1 /\ t[i] = s[j] /\ i \in Nat \ {0}
    BY <1>2, <2>1, TailsElem
  <2>3. PICK m \in Message, d \in Docs, v \in Windows : m = s[j].msg /\ d = s[j].from /\ v = Window(d)
    BY <1>2, <2>2, PostedBy, DocWindow
  <2>4. source'[v] = source[v] /\ source[v] # 0 /\ d \in loaded
    BY <1>1, <1>2, <1>12, <2>2, <2>3 DEF TakesOver
  <2>5. Legal(m, PostedFact(j - 1))
    BY <1>2, <2>2, <2>3, <2>4 DEF StreamOK, Going
  <2>6. PICK n \in Nat : n = i - 1 /\ j - 1 = n + 1
    BY <2>2
  <2>7. PICK C \in SUBSET Fact, H \in SUBSET Fact : C = PostedFact(n + 1) /\ H = Heard(served', up', posted', n)
    BY <1>1, FactTypes, HeardFacts
  <2>8. Covers(H, C, source[v])
    BY <2>7, TakenFacts
  <2>9. m.kind \in Talk => m.id[1] = source[v]
    BY <1>2, <2>2, <2>3, <2>4, PostedIds
  <2>10. Legal(m, H)
    BY <2>5, <2>6, <2>7, <2>8, <2>9, LegalCovers
  <2> QED BY <1>2, <2>2, <2>3, <2>6, <2>7, <2>10
<1>13. \A x, y \in served' : x.id = y.id => x = y
  BY <1>1 DEF UpGrows, StreamOK
<1> QED BY <1>5, <1>8, <1>9, <1>10, <1>11, <1>12, <1>13, StreamNext

\* What all the cases of message_handler have in common.
LEMMA TakesParts ==
  ASSUME Base, link = "up", NEW e, NEW m, NEW w, First(e, m, w), NEW q, Takes(q)
  PROVE  /\ UpGrows(q) /\ loaded' = loaded /\ unique_id \in Nat
         /\ posted' \in Seq(Post) /\ Tails(posted', posted)
         /\ \A d \in Docs \cup {Top} : doc'[d] = doc[d]
         /\ PostTold(posted, 1) = {f \in Fact : f = <<m.kind, m.id>>}
<1>1. UpGrows(q)
  BY UpCat, TopPage DEF Takes, UpGrows
<1>2. posted' \in Seq(Post) /\ Tails(posted', posted)
  BY TakesPosted DEF Takes
<1>3. posted \in Seq(Post) /\ posted # <<>> /\ m = posted[1].msg
  BY DEF First, Base, Types
<1>4. 1 \in DOMAIN posted /\ \A i \in DOMAIN posted : i <= 1 <=> i = 1
  <2>1. DOMAIN posted = 1..Len(posted) /\ Len(posted) \in Nat \ {0}
    BY <1>3, EmptySeq
  <2> QED BY <2>1
<1>5. PostTold(posted, 1) = {f \in Fact : f = <<m.kind, m.id>>}
  BY <1>3, <1>4 DEF PostTold
<1> QED BY <1>1, <1>2, <1>5 DEF Takes, Base, Types

\* The kinds of facts.
LEMMA FactKind ==
  ASSUME NEW k, NEW id, <<k, id>> \in Fact
  PROVE  k \in {"open", "done", "close"} /\ k \in Talk
BY DEF Fact, Talk

\* A message that says nothing of a channel.
LEMMA SilentOver ==
  ASSUME Base, link = "up", NEW e, NEW m, NEW w, First(e, m, w), NEW q, Takes(q), m.kind \notin Talk,
         \A i \in DOMAIN q : q[i].kind \notin Talk,
         unique_id' \in Nat, unique_id <= unique_id',
         \A v \in Windows : source'[v] # 0 =>
           \/ source'[v] = source[v]
           \/ source'[v] = unique_id + 1 /\ \A i \in DOMAIN posted' : Window(posted'[i].from) # v
  PROVE  TakesOver(q)
<1>1. /\ UpGrows(q) /\ loaded' = loaded /\ posted' \in Seq(Post) /\ Tails(posted', posted)
      /\ \A d \in Docs \cup {Top} : doc'[d] = doc[d]
      /\ PostTold(posted, 1) = {f \in Fact : f = <<m.kind, m.id>>}
  BY TakesParts
<1>2. PostTold(posted, 1) = {}
  BY <1>1, FactKind
<1>3. q \in Seq(Message)
  BY <1>1 DEF UpGrows
<1>4. (\A n : Told(q, n) = {}) /\ \A i \in DOMAIN q : \A B : Legal(q[i], B)
  BY <1>3, SilentFacts
<1> QED BY <1>1, <1>2, <1>4 DEF TakesOver

\* What a frame without a name posted is lost.
LEMMA Unknown ==
  ASSUME Base, NEW e, NEW m, NEW w, First(e, m, w), source[w] = 0, m.kind \in Talk
  PROVE  m.id[1] \in 1..unique_id /\ \A v \in Windows : source[v] # m.id[1]
<1>1. 1 \in DOMAIN posted
  <2>1. posted \in Seq(Post) /\ posted # <<>>
    BY DEF First, Base, Types
  <2> QED BY <2>1, EmptySeq
<1>2. m.id[1] \in 1..unique_id /\ \A v \in Windows : source[v] = m.id[1] => v = w
  BY <1>1 DEF Base, PostedOK, First
<1>3. m.id[1] # 0
  BY <1>2 DEF Base, Types
<1> QED BY <1>2, <1>3

\* Binary data of a frame without a name.
LEMMA StraysOver ==
  ASSUME Base, Conn, NEW e, NEW m, NEW w, First(e, m, w), NEW q, Takes(q), Strays(m, w, q)
  PROVE  TakesOver(q) /\ source' = source /\ \A j \in DOMAIN q : q[j].kind # "open"
<1>1. /\ UpGrows(q) /\ loaded' = loaded /\ posted' \in Seq(Post) /\ Tails(posted', posted)
      /\ \A d \in Docs \cup {Top} : doc'[d] = doc[d]
      /\ PostTold(posted, 1) = {f \in Fact : f = <<m.kind, m.id>>}
      /\ unique_id \in Nat
  BY TakesParts DEF Conn
<1>2. m.kind = "data" /\ m.arg = "raw" /\ m \in Message /\ source' = source /\ unique_id' = unique_id /\ q = <<m>>
  BY DEF Strays, First, Conn
<1>3. m \in Lost
  BY <1>2, Unknown DEF Lost, Strays, Talk
<1>4. q \in Seq(Message) /\ \A j \in DOMAIN q : q[j] = m
  BY <1>1, <1>2 DEF UpGrows
<1>5. \A n : Told(q, n) = {}
  BY <1>2, <1>4, FactKind DEF Told
<1>6. PostTold(posted, 1) = {}
  BY <1>1, <1>2, FactKind
<1>7. TakesOver(q)
  BY <1>1, <1>2, <1>3, <1>4, <1>5, <1>6 DEF TakesOver
<1> QED BY <1>2, <1>4, <1>7

\* A message is dropped.
LEMMA DropsOver ==
  ASSUME Base, Conn, NEW e, NEW m, NEW w, First(e, m, w), NEW q, Takes(q), Drops(m, w, q)
  PROVE  TakesOver(q)
<1>1. /\ UpGrows(q) /\ loaded' = loaded /\ posted' \in Seq(Post) /\ Tails(posted', posted)
      /\ \A d \in Docs \cup {Top} : doc'[d] = doc[d]
      /\ PostTold(posted, 1) = {f \in Fact : f = <<m.kind, m.id>>}
      /\ unique_id \in Nat
  BY TakesParts DEF Conn
<1>2. source[w] = 0 /\ w \in Windows /\ w = Window(e) /\ m = posted[1].msg /\ e = posted[1].from
  BY DEF Base, FramesOK, Conn, Drops, First
<1>4. ASSUME m.kind \in Talk, NEW v \in Windows
      PROVE  source[v] # m.id[1]
  BY <1>2, <1>4, Unknown
<1>5. ASSUME NEW f \in PostTold(posted, 1), NEW v \in Windows
      PROVE  source[v] # f[2][1]
  <2>1. f = <<m.kind, m.id>> /\ f \in Fact
    BY <1>1
  <2>2. PICK k, id : k = m.kind /\ id = m.id
    OBVIOUS
  <2>3. m.kind \in Talk
    BY <2>1, FactKind
  <2> QED BY <1>4, <2>1, <2>2, <2>3
<1>6. q = <<>> /\ source' = source /\ unique_id' = unique_id
  BY DEF Drops
<1>7. Told(q, Len(q)) = {} /\ \A j \in DOMAIN q : FALSE
  BY <1>6 DEF Told
<1> QED BY <1>1, <1>5, <1>6, <1>7 DEF TakesOver

\* A message is passed on.
LEMMA PassesOver ==
  ASSUME Base, Conn, StreamOK, NEW e, NEW m, NEW w, First(e, m, w), NEW q, Takes(q), Passes(m, w, q)
  PROVE  /\ TakesOver(q)
         /\ \A j \in DOMAIN q : q[j].kind = "open" => Owned(q[j].arg, q[j].id)
<1>1. /\ UpGrows(q) /\ loaded' = loaded /\ posted' \in Seq(Post) /\ Tails(posted', posted)
      /\ \A d \in Docs \cup {Top} : doc'[d] = doc[d]
      /\ PostTold(posted, 1) = {f \in Fact : f = <<m.kind, m.id>>}
      /\ unique_id \in Nat
  BY TakesParts DEF Conn
<1>2. /\ w \in Windows /\ w = Window(e) /\ m = posted[1].msg /\ e = posted[1].from /\ m \in Message /\ e \in Docs
      /\ source[w] # 0 /\ m.kind \in Talk /\ source' = source /\ unique_id' = unique_id /\ m \in Sent(posted, e)
  BY DEF First, Passes
<1>3. 1 \in DOMAIN posted /\ posted \in Seq(Post)
  <2>1. posted \in Seq(Post) /\ posted # <<>>
    BY DEF First, Base, Types
  <2> QED BY <2>1, EmptySeq
<1>4. e \in loaded
  <2>1. Phase(doc[e], inbox[e], source[w], current # w, Sent(posted, e), e \in loaded)
    BY <1>2 DEF Base, PhaseOK
  <2> QED BY <1>2, <2>1 DEF Phase, Away
<1>5. m.id[1] = source[w] /\ Has(doc[e], m.id)
  BY <1>2, <1>3, <1>4, PostedIds
<1>6. PICK x : x = IF m.kind = "open" THEN [m EXCEPT !.arg = w] ELSE m
  OBVIOUS
<1>7. x \in Message /\ x.kind = m.kind /\ x.id = m.id /\ (x.kind = "open" => x.arg = w)
  <2>1. w \in Args
    BY <1>2 DEF Args
  <2> QED BY <1>2, <1>6, <2>1 DEF Message
<1>8. q = <<x>>
  BY <1>6 DEF Passes, Conn
<1>9. Legal(x, UpFact(Len(up)))
  <2>1. PostTold(posted, 0) = {}
    BY <1>3 DEF PostTold
  <2>2. PostedFact(0) = UpFact(Len(up))
    BY <2>1 DEF PostedFact
  <2>3. Legal(m, PostedFact(1 - 1))
    BY <1>2, <1>3, <1>4 DEF StreamOK, Going
  <2>4. Legal(m, UpFact(Len(up)))
    BY <2>2, <2>3
  <2> QED BY <1>7, <2>4 DEF Legal
<1>10. Told(q, Len(q)) = PostTold(posted, 1) /\ Told(q, 0) = {} /\ DOMAIN q = {1} /\ q[1] = x
  <2>1. q \in Seq(Message) /\ Len(q) = 1 /\ Told(q, 1) = {f \in Fact : f = <<x.kind, x.id>>}
    BY <1>7, <1>8, <1>9, OutOne
  <2>2. Told(q, 0) = {}
    BY <2>1, ToldNone
  <2>3. DOMAIN q = {1} /\ q[1] = x
    BY <1>8
  <2> QED BY <1>1, <1>7, <2>1, <2>2, <2>3
<1>11. ASSUME NEW j \in DOMAIN q PROVE Legal(q[j], UpFact(Len(up)) \cup Told(q, j - 1))
  <2>1. j = 1 /\ j - 1 = 0
    BY <1>10
  <2>2. UpFact(Len(up)) \cup Told(q, j - 1) = UpFact(Len(up))
    BY <1>10, <2>1
  <2> QED BY <1>9, <1>10, <2>1, <2>2
<1>12. TakesOver(q)
  BY <1>1, <1>2, <1>10, <1>11 DEF TakesOver
<1>13. Owned(w, m.id)
  <2>1. e \in InWindow(w)
    BY <1>2, <1>4, DocWindow DEF InWindow
  <2> QED BY <1>2, <1>5, <2>1 DEF Owned
<1> QED BY <1>7, <1>10, <1>12, <1>13

\* What belongs to whom, when windows keep their names or lose them by a kill.
LEMMA TakenRoutesOver ==
  ASSUME Base, RoutesOK, NEW q, TakesOver(q),
         \A v \in Windows : source[v] # 0 => source'[v] = source[v] \/ \E j \in DOMAIN q : q[j] = Msg("kill", NoId, v),
         \A j \in DOMAIN q : q[j].kind = "open" => source' = source /\ Owned(q[j].arg, q[j].id)
  PROVE  RoutesOK'
<1>1. UpGrows(q) /\ loaded' = loaded /\ Types /\ loaded \subseteq Docs /\ \A d \in Docs : doc'[d] = doc[d]
  BY DEF TakesOver, Base, Types
<1>2. \A v, id : Owned(v, id) /\ source'[v] = source[v] => Owned(v, id)'
  BY <1>1 DEF Owned, InWindow
<1>3. \A v \in Windows : \A id : Owned(v, id) => Owned(v, id)' \/ \E j \in DOMAIN q : q[j] = Msg("kill", NoId, v)
  <2>1. \A v \in Windows : \A id : Owned(v, id) => source[v] # 0
    BY DEF Owned
  <2> QED BY <1>2, <2>1
<1>4. \A j \in DOMAIN q : q[j].kind = "open" /\ q[j].arg \in Windows => Owned(q[j].arg, q[j].id)'
  <2> SUFFICES ASSUME NEW j \in DOMAIN q, q[j].kind = "open", NEW v, v = q[j].arg, NEW id, id = q[j].id
               PROVE  Owned(v, id)'
    OBVIOUS
  <2>1. Owned(v, id) /\ source'[v] = source[v]
    OBVIOUS
  <2> QED BY <1>2, <2>1
<1> QED BY <1>1, <1>3, <1>4, GrownRoutes

\* The router handles a message.
LEMMA PostedRest ==
  ASSUME Base, Rest, PostedMessage
  PROVE  Rest'
<1>1. PICK e \in Docs, m \in Message, w \in Windows : First(e, m, w)
  BY FirstOf DEF PostedMessage
<1>2. PICK q : Takes(q) /\ (Drops(m, w, q) \/ Strays(m, w, q) \/ Passes(m, w, q) \/ Leaves(m, w, q) \/ Enters(m, w, q))
  BY <1>1, HandlerCases
<1>3. confused' = confused /\ link' = link /\ doc'[Top] = doc[Top]
  BY <1>2 DEF Takes
<1>7. Lost \subseteq Lost'
  <2>1. source \in [Windows -> Nat] /\ unique_id \in Nat
    BY DEF Base, Types
  <2>2. /\ unique_id' \in {unique_id, unique_id + 1}
        /\ source' \in {source, [source EXCEPT ![w] = 0], [source EXCEPT ![w] = unique_id + 1]}
    BY <1>2 DEF Drops, Strays, Passes, Leaves, Enters, Register
  <2>3. \A v \in Windows : source'[v] \in {0, source[v], unique_id + 1}
    BY <2>1, <2>2
  <2>4. unique_id' \in Nat /\ unique_id <= unique_id'
    BY <2>1, <2>2
  <2> QED BY <2>1, <2>3, <2>4, LostStays
<1>4. CASE ~Conn
  BY <1>3, <1>4, <1>7, LostRest DEF Conn
<1>5. ASSUME Conn PROVE StreamOK' /\ RoutesOK'
  <2>1. StreamOK /\ RoutesOK /\ link = "up" /\ doc[Top].ws # "null"
    BY <1>5 DEF Rest, Conn
  <2>2. CASE Drops(m, w, q)
    <3>1. TakesOver(q)
      BY <1>1, <1>2, <1>5, <2>2, DropsOver
    <3>2. source' = source /\ \A j \in DOMAIN q : FALSE
      BY <2>2 DEF Drops
    <3> QED BY <2>1, <3>1, <3>2, TakenStream, TakenRoutesOver
  <2>6. CASE Strays(m, w, q)
    <3>1. TakesOver(q) /\ source' = source /\ \A j \in DOMAIN q : q[j].kind # "open"
      BY <1>1, <1>2, <1>5, <2>6, StraysOver
    <3> QED BY <2>1, <3>1, TakenStream, TakenRoutesOver
  <2>3. CASE Passes(m, w, q)
    <3>1. TakesOver(q) /\ \A j \in DOMAIN q : q[j].kind = "open" => Owned(q[j].arg, q[j].id)
      BY <1>1, <1>2, <1>5, <2>1, <2>3, PassesOver
    <3>2. source' = source
      BY <2>3 DEF Passes
    <3> QED BY <2>1, <3>1, <3>2, TakenStream, TakenRoutesOver
  <2>4. CASE Leaves(m, w, q)
    <3>1. m.kind \notin Talk
      BY <2>4 DEF Leaves, Talk
    <3>2. /\ q = (IF source[w] = 0 THEN <<>> ELSE <<Msg("kill", NoId, w)>>)
          /\ source' = [source EXCEPT ![w] = 0] /\ unique_id' = unique_id
      BY <2>1, <2>4 DEF Leaves
    <3>3. \A v \in Windows : source'[v] = IF v = w THEN 0 ELSE source[v]
      BY <3>2 DEF Base, Types
    <3>4. \A i \in DOMAIN q : q[i] = Msg("kill", NoId, w)
      BY <3>2
    <3>5. Msg("kill", NoId, w).kind = "kill"
      BY DEF Msg
    <3>6. unique_id' \in Nat /\ unique_id <= unique_id'
      BY <3>2 DEF Base, Types
    <3>7. \A i \in DOMAIN q : q[i].kind \notin Talk
      BY <3>4, <3>5 DEF Talk
    <3>8. TakesOver(q)
      BY <1>1, <1>2, <2>1, <3>1, <3>3, <3>6, <3>7, SilentOver
    <3>9. source[w] # 0 => \E j \in DOMAIN q : q[j] = Msg("kill", NoId, w)
      BY <3>2
    <3>10. \A v \in Windows : source[v] # 0 => source'[v] = source[v] \/ \E j \in DOMAIN q : q[j] = Msg("kill", NoId, v)
      BY <3>3, <3>9
    <3>11. \A j \in DOMAIN q : q[j].kind # "open"
      BY <3>4, <3>5
    <3> QED BY <2>1, <3>8, <3>10, <3>11, TakenStream, TakenRoutesOver
  <2>5. CASE Enters(m, w, q)
    <3>1. m.kind \notin Talk
      BY <2>5 DEF Enters, Talk
    <3>2. /\ source[w] = 0 /\ q = <<>> /\ source' = [source EXCEPT ![w] = unique_id + 1]
          /\ unique_id' = unique_id + 1 /\ \A i \in DOMAIN posted' : Window(posted'[i].from) # w
      BY <1>1, <1>2, <2>5, EntersBase
    <3>3. \A v \in Windows : source'[v] = IF v = w THEN unique_id + 1 ELSE source[v]
      BY <3>2 DEF Base, Types
    <3>4. unique_id' \in Nat /\ unique_id <= unique_id'
      BY <3>2 DEF Base, Types
    <3>5. \A i \in DOMAIN q : FALSE
      BY <3>2
    <3>6. TakesOver(q)
      BY <1>1, <1>2, <2>1, <3>1, <3>2, <3>3, <3>4, <3>5, SilentOver
    <3>7. \A v \in Windows : source[v] # 0 => source'[v] = source[v]
      BY <3>2, <3>3
    <3> QED BY <2>1, <3>5, <3>6, <3>7, TakenStream, TakenRoutesOver
  <2> QED BY <1>2, <2>2, <2>3, <2>4, <2>5, <2>6
<1>6. CASE Conn
  BY <1>3, <1>5, <1>6, <1>7 DEF Rest
<1> QED BY <1>4, <1>6

----
(* Frames come and go, and the protocol.                                   *)

\* No channel is told of anything; a page may be gone; who has a name had it.
Silence(q) ==
  /\ UpGrows(q) /\ (\A i \in DOMAIN q : q[i].kind \notin Talk) /\ unique_id' = unique_id
  /\ posted' \in Seq(Post)
  /\ \A i \in DOMAIN posted' : (i \in DOMAIN posted /\ posted'[i] = posted[i]) \/ posted'[i].msg.kind = "bye"
  /\ \A i \in DOMAIN posted : i \in DOMAIN posted' /\ posted'[i] = posted[i]
  /\ \A d \in Docs \cup {Top} : \/ doc'[d] = doc[d]
                                \/ PageOK(doc'[d], Mine(d), {}) /\ doc'[d].out = <<>> /\ ~doc'[d].ready
  /\ \A d \in loaded' : source'[Window(d)] # 0 =>
       d \in loaded /\ source'[Window(d)] = source[Window(d)] /\ doc'[d] = doc[d]
  /\ \A v \in Windows : source'[v] \in {0, source[v]}

\* The facts stay as they are.
LEMMA SilenceFacts ==
  ASSUME Base, NEW q, Silence(q)
  PROVE  /\ Up(served', up', Len(up')) = UpFact(Len(up))
         /\ \A n : Heard(served', up', posted', n) = PostedFact(n)
         /\ Heard(served', up', posted', Len(posted')) = AllFacts
<1>1. Types /\ UpGrows(q) /\ q \in Seq(Message) /\ posted \in Seq(Post) /\ posted' \in Seq(Post)
  BY DEF Base, Types, Silence, UpGrows
<1>2. Told(q, Len(q)) = {}
  BY <1>1, SilentFacts DEF Silence
<1>3. Up(served', up', Len(up')) = UpFact(Len(up))
  BY <1>1, <1>2, UpFacts
<1>4. \A k, id : k = "bye" => <<k, id>> \notin Fact
  BY FactKind
<1>5. \A n : PostTold(posted', n) = PostTold(posted, n)
  BY <1>4 DEF PostTold, Silence
<1>6. \A n : Heard(served', up', posted', n) = PostedFact(n)
  BY <1>3, <1>5 DEF Heard, PostedFact
<1>7. PostTold(posted, Len(posted')) = PostTold(posted, Len(posted))
  <2>1. \A i \in DOMAIN posted : i <= Len(posted) /\ i <= Len(posted')
    <3>1. \A i \in DOMAIN posted : i \in DOMAIN posted'
      BY DEF Silence
    <3>2. DOMAIN posted = 1..Len(posted) /\ DOMAIN posted' = 1..Len(posted')
      BY <1>1
    <3> QED BY <3>1, <3>2
  <2> QED BY <2>1 DEF PostTold
<1>8. PostedFact(Len(posted')) = AllFacts
  BY <1>7 DEF PostedFact, AllFacts
<1> QED BY <1>3, <1>6, <1>8

\* The protocol is kept.
LEMMA SilenceStream ==
  ASSUME Base, StreamOK, NEW q, Silence(q)
  PROVE  StreamOK'
<1>1. /\ Types /\ UpGrows(q) /\ q \in Seq(Message) /\ posted \in Seq(Post) /\ unique_id' = unique_id
  BY DEF Base, Types, Silence, UpGrows
<1>2. /\ Up(served', up', Len(up')) = UpFact(Len(up))
      /\ \A n : Heard(served', up', posted', n) = PostedFact(n)
      /\ Heard(served', up', posted', Len(posted')) = AllFacts
  BY SilenceFacts
<1>3. \A f \in Up(served', up', Len(up')) : f[2][1] <= unique_id'
  BY <1>1, <1>2 DEF StreamOK
<1>4. \A s, t \in served' : s.id = t.id => s = t
  BY <1>1 DEF UpGrows, StreamOK
<1>5. PICK A \in SUBSET Fact : A = AllFacts
  BY <1>1, FactTypes
<1>6. ASSUME NEW d \in Docs \cup {Top}
      PROVE  PageOK(doc'[d], Mine(d), A)
  <2>1. CASE doc'[d] = doc[d]
    BY <1>5, <2>1 DEF StreamOK
  <2>2. CASE PageOK(doc'[d], Mine(d), {}) /\ doc'[d].out = <<>> /\ ~doc'[d].ready
    <3>1. PICK mine, D : mine \in Mines /\ mine = Mine(d) /\ D = doc'[d]
      BY MineType
    <3>2. {} \in SUBSET Fact
      OBVIOUS
    <3>3. PageOK(D, mine, A)
      BY <2>2, <3>1, <3>2, PageCovers
    <3> QED BY <3>1, <3>3
  <2> QED BY <2>1, <2>2 DEF Silence
<1>7. ASSUME NEW d \in loaded', source'[Window(d)] # 0, doc'[d].waiting_for_init, doc'[d].ws # "null"
      PROVE  \A f \in A : f[2][1] # source'[Window(d)]
  <2>1. d \in loaded /\ source'[Window(d)] = source[Window(d)] /\ doc'[d] = doc[d]
    BY <1>7 DEF Silence
  <2> QED BY <1>5, <1>7, <2>1 DEF StreamOK, Going
<1>8. \A i \in DOMAIN up' : up'[i] \in Lost' \/ Legal(up'[i], Up(served', up', i - 1))
  <2>1. \A i \in DOMAIN q : \A B : Legal(q[i], B)
    BY <1>1, SilentFacts DEF Silence
  <2>2. \A i \in DOMAIN up : up[i] \in Lost \/ Legal(up[i], UpFact(i - 1))
    BY DEF StreamOK
  <2>3. Lost \subseteq Lost'
    BY <1>1, LostStays DEF Silence, Types
  <2> QED BY <1>1, <2>1, <2>2, <2>3, UpLegal
<1>9. ASSUME NEW i \in DOMAIN posted', posted'[i].from \in loaded', source'[Window(posted'[i].from)] # 0
      PROVE  Legal(posted'[i].msg, Heard(served', up', posted', i - 1))
  <2>1. CASE posted'[i].msg.kind = "bye"
    BY <2>1 DEF Legal
  <2>2. CASE i \in DOMAIN posted /\ posted'[i] = posted[i]
    <3>1. PICK d : d = posted[i].from
      OBVIOUS
    <3>2. d \in loaded /\ source[Window(d)] # 0
      BY <1>9, <2>2, <3>1 DEF Silence
    <3>3. Legal(posted[i].msg, PostedFact(i - 1))
      BY <2>2, <3>1, <3>2 DEF StreamOK, Going
    <3> QED BY <1>2, <2>2, <3>3
  <2> QED BY <2>1, <2>2 DEF Silence
<1> QED BY <1>2, <1>3, <1>4, <1>5, <1>6, <1>7, <1>8, <1>9, StreamNext

\* Frames.lookup and index.current_frame
LEMMA NavigateRest ==
  ASSUME Base, Rest, NEW w \in Windows \cup {"none"}, Navigate(w)
  PROVE  Rest'
<1>1. /\ UNCHANGED <<doc, source, unique_id, posted, up, served, confused, link>> /\ link # "gone"
  BY DEF Navigate, server
<1>2. CASE ~Conn
  BY <1>1, <1>2, LostRest, LostSame DEF Conn
<1>3. ASSUME Conn PROVE StreamOK' /\ RoutesOK'
  <2>1. StreamOK /\ RoutesOK
    BY <1>3 DEF Rest
  <2>2. PICK q : q = <<>>
    OBVIOUS
  <2>3. q \in Seq(Message) /\ \A i \in DOMAIN q : FALSE
    BY <2>2, EmptySeq
  <2>4. up \in Seq(Message) /\ up \o q = up
    BY <2>2, <2>3, UpCat, TopPage
  <2>5. UpGrows(q)
    <3>1. IsCat(up \o q, up, q)
      BY <2>3, <2>4, UpCat
    <3> QED BY <1>1, <2>3, <2>4, <3>1 DEF UpGrows
  <2>6. loaded \subseteq loaded' /\ \A d \in loaded' : d \in loaded \/ source[Window(d)] = 0
    <3>1. CASE w # "none" /\ InWindow(w) = {}
      <4>1. w \in Windows /\ source[w] = 0 /\ shown[w] < Len(Documents[w])
        BY <1>1, <3>1 DEF Base, FramesOK, Navigate
      <4>2. PICK e : e = Documents[w][shown[w] + 1]
        OBVIOUS
      <4>3. Window(e) = w
        BY <1>1, <4>1, <4>2, NextDocument
      <4>4. loaded' = loaded \cup {e}
        BY <3>1, <4>2 DEF Navigate
      <4> QED BY <4>1, <4>3, <4>4
    <3>2. CASE ~(w # "none" /\ InWindow(w) = {})
      BY <3>2 DEF Navigate
    <3> QED BY <3>1, <3>2
  <2>7. Silence(q)
    <3>1. posted \in Seq(Post)
      BY DEF Base, Types
    <3> QED BY <1>1, <2>3, <2>5, <2>6, <3>1 DEF Silence
  <2>8. \A v, id : Owned(v, id) => Owned(v, id)'
    BY <1>1, <2>6 DEF Owned, InWindow
  <2>9. RoutesOK'
    BY <2>1, <2>3, <2>5, <2>8, GrownRoutes DEF Base
  <2> QED BY <2>1, <2>7, <2>9, SilenceStream
<1>4. CASE Conn
  BY <1>1, <1>3, <1>4, LostSame DEF Rest
<1> QED BY <1>2, <1>4

\* A document goes.
LEMMA GoodbyeRest ==
  ASSUME Base, Rest, NEW d \in Docs, NEW next \in BOOLEAN, NEW w, NEW q, Goodbye(d, next, w, q)
  PROVE  Rest'
<1>1. confused' = confused /\ link' = link /\ doc'[Top] = doc[Top]
  BY DEF Goodbye
<1>5. Lost \subseteq Lost'
  <2>1. source' = [source EXCEPT ![w] = 0] /\ unique_id' = unique_id /\ source \in [Windows -> Nat] /\ unique_id \in Nat
    BY DEF Goodbye, Base, Types
  <2>2. \A v \in Windows : source'[v] \in {0, source[v], unique_id + 1}
    BY <2>1
  <2> QED BY <2>1, <2>2, LostStays
<1>2. CASE ~Conn
  BY <1>1, <1>2, <1>5, LostRest DEF Conn
<1>3. ASSUME Conn PROVE StreamOK' /\ RoutesOK'
  <2>1. StreamOK /\ RoutesOK /\ link = "up" /\ doc[Top].ws # "null" /\ link # "gone"
    BY <1>3 DEF Rest, Conn
  <2>2. /\ d \in loaded /\ w = Window(d) /\ q \in Seq(Message) /\ w \in Windows
        /\ (next => shown[w] < Len(Documents[w]))
        /\ loaded' = (loaded \ {d}) \cup IF next THEN {Documents[w][shown[w] + 1]} ELSE {}
        /\ source' = [source EXCEPT ![w] = 0]
        /\ (\A e \in Docs : doc'[e] = IF e = d THEN [NewPage(Mine(d)) EXCEPT !.ws = "null"] ELSE doc[e])
        /\ q = (IF source[w] = 0 THEN <<>> ELSE <<Msg("kill", NoId, w)>>)
        /\ up' = up \o q /\ unique_id' = unique_id /\ served' = served
    BY <2>1, DocWindow DEF Goodbye
  <2>3. \A v \in Windows : source'[v] = IF v = w THEN 0 ELSE source[v]
    BY <2>2 DEF Base, Types
  <2>4. (\A i \in DOMAIN q : q[i] = Msg("kill", NoId, w)) /\ Msg("kill", NoId, w).kind = "kill"
    BY <2>2 DEF Msg
  <2>5. UpGrows(q)
    BY <2>2, UpCat, TopPage DEF UpGrows
  <2>6. loaded \subseteq Docs /\ posted \in Seq(Post)
    BY DEF Base, Types
  <2>7. \A e \in loaded' : (e \in loaded /\ e # d) \/ Window(e) = w
    <3>1. CASE next
      <4>1. PICK e : e = Documents[w][shown[w] + 1]
        OBVIOUS
      <4>2. Window(e) = w
        BY <2>1, <2>2, <3>1, <4>1, NextDocument
      <4> QED BY <2>2, <3>1, <4>1, <4>2
    <3>2. CASE ~next
      BY <2>2, <3>2
    <3> QED BY <3>1, <3>2
  <2>8. Silence(q)
    <3>1. \A i \in DOMAIN q : q[i].kind \notin Talk
      BY <2>4 DEF Talk
    <3>2. /\ posted' \in Seq(Post)
          /\ \A i \in DOMAIN posted' : (i \in DOMAIN posted /\ posted'[i] = posted[i]) \/ posted'[i].msg.kind = "bye"
          /\ \A i \in DOMAIN posted : i \in DOMAIN posted' /\ posted'[i] = posted[i]
      <4>1. PICK p : p = [from |-> d, msg |-> Msg("bye", NoId, "none")]
        OBVIOUS
      <4>2. posted' \in Seq(Post) /\ (posted' = posted \/ Appends(posted', posted, p))
        BY <4>1 DEF Goodbye
      <4> QED BY <4>1, <4>2, ByeSent
    <3>3. ASSUME NEW e \in Docs \cup {Top}
          PROVE  \/ doc'[e] = doc[e]
                 \/ PageOK(doc'[e], Mine(e), {}) /\ doc'[e].out = <<>> /\ ~doc'[e].ready
      <4>1. CASE e = Top \/ e # d
        BY <1>1, <2>2, <4>1
      <4>2. CASE e = d
        <5>1. PICK mine, F : mine \in Mines /\ mine = Mine(d) /\ F = [NewPage(mine) EXCEPT !.ws = "null"] /\ F = doc'[d]
          BY <2>2, MineType
        <5>2. PageOK(F, mine, {}) /\ F.out = <<>> /\ ~F.ready
          BY <5>1, BlankPage
        <5> QED BY <4>2, <5>1, <5>2
      <4> QED BY <4>1, <4>2
    <3>4. ASSUME NEW e \in loaded', source'[Window(e)] # 0
          PROVE  e \in loaded /\ source'[Window(e)] = source[Window(e)] /\ doc'[e] = doc[e]
      <4>1. e \in loaded /\ e # d /\ e \in Docs /\ Window(e) \in Windows /\ Window(e) # w
        BY <2>2, <2>3, <2>6, <2>7, <3>4, DocWindow
      <4> QED BY <2>2, <2>3, <4>1
    <3> QED BY <2>2, <2>3, <2>5, <3>1, <3>2, <3>3, <3>4 DEF Silence
  <2>9. ASSUME NEW v \in Windows, NEW id, Owned(v, id)
        PROVE  Owned(v, id)' \/ \E j \in DOMAIN q : q[j] = Msg("kill", NoId, v)
    <3>1. CASE v = w
      <4>1. source[w] # 0
        BY <2>9, <3>1 DEF Owned
      <4> QED BY <2>2, <3>1, <4>1
    <3>2. CASE v # w
      <4>1. PICK e \in InWindow(v) : Has(doc[e], id)
        BY <2>9 DEF Owned
      <4>2. e \in Docs /\ e \in loaded /\ e \in ToSet(Documents[v])
        BY <2>6, <4>1 DEF InWindow
      <4>3. e # d
        BY <2>2, <3>2, <4>2, DocWindow
      <4>4. e \in loaded' /\ doc'[e] = doc[e] /\ source'[v] = source[v]
        BY <2>2, <2>3, <3>2, <4>2, <4>3
      <4> QED BY <2>9, <4>1, <4>2, <4>4 DEF Owned, InWindow, Has
    <3> QED BY <3>1, <3>2
  <2>10. \A j \in DOMAIN q : q[j].kind # "open"
    BY <2>4
  <2>11. RoutesOK'
    BY <2>1, <2>5, <2>9, <2>10, GrownRoutes DEF Base
  <2> QED BY <2>1, <2>8, <2>11, SilenceStream
<1>4. CASE Conn
  BY <1>1, <1>3, <1>4, <1>5 DEF Rest
<1> QED BY <1>2, <1>4

\* A document moves.
LEMMA MovesRest ==
  ASSUME Base, Rest, SomeMoves, confused' = confused
  PROVE  Rest'
<1>1. PICK d, E, t : d \in Docs /\ t \in Seq(Message) /\ DocMoves(d, E, t)
  BY DEF SomeMoves
<1>2. d \in loaded /\ link' = link /\ Moves(d, E, t)
  BY <1>1 DEF DocMoves, DocStep, Alone
<1>3. PICK F, q : F = [E EXCEPT !.out = <<>>] /\ q = E.out
  OBVIOUS
<1>4. q \in Seq(Message) /\ DocStep(d, F, t, q)
  BY <1>1, <1>2, <1>3, MovesSound DEF DocMoves
<1>5. doc'[Top] = doc[Top]
  BY <1>1, <1>4, DocFields, TopPage DEF Base
<1>8. Lost' = Lost
  BY <1>4, LostSame DEF DocStep, Alone
<1>6. CASE ~Conn
  BY <1>2, <1>5, <1>6, <1>8, LostRest DEF Conn
<1>7. CASE Conn
  <2>1. StreamOK' /\ RoutesOK'
    BY <1>1, <1>7, MovesStream, MovesRoutes DEF Rest
  <2> QED BY <1>8, <2>1 DEF Rest
<1> QED BY <1>6, <1>7

\* A document's own steps.
LEMMA DocumentRest ==
  ASSUME Base, Rest
  PROVE  /\ \A c \in Channels : Create(c) \/ Send(c) \/ Done(c) \/ CloseChannel(c) \/ Wait(c) => Rest'
         /\ \A d \in Docs : Opened(d) \/ BeforeUnload(d) \/ FrameMessage(d) => Rest'
<1>1. ASSUME NEW c \in Channels, Create(c) \/ Send(c) \/ Done(c) \/ CloseChannel(c) \/ Wait(c)
      PROVE  Rest'
  <2>1. confused' = confused
    BY <1>1 DEF Create, Send, Done, CloseChannel, Wait, server
  <2> QED BY <1>1, <2>1, CallMoves, MovesRest
<1>2. ASSUME NEW d \in Docs, Opened(d) \/ BeforeUnload(d) \/ FrameMessage(d)
      PROVE  Rest'
  <2>1. confused' = confused
    BY <1>2 DEF Opened, BeforeUnload, FrameMessage, server
  <2> QED BY <1>2, <2>1, OpenedMoves, ExpectMoves, FrameMoves, MovesRest
<1> QED BY <1>1, <1>2

\* At first nothing is known, and nothing is on its way.
LEMMA InitRest ==
  ASSUME ShellInit
  PROVE  Rest
<1>1. /\ loaded = {} /\ unique_id = 0 /\ posted = <<>> /\ up = <<>> /\ served = {} /\ confused = {}
  BY DEF ShellInit
<1>2. (\A i \in DOMAIN up : FALSE) /\ (\A i \in DOMAIN posted : FALSE)
  BY <1>1
<1>3. UpFact(Len(up)) = {}
  BY <1>1, <1>2 DEF UpFact, ServedFact, Told
<1>4. AllFacts = {}
  BY <1>2, <1>3 DEF AllFacts, PostedFact, PostTold
<1>5. \A d \in Docs \cup {Top} : PageOK(doc[d], Mine(d), AllFacts)
  BY <1>4, FirstPages
<1>6. StreamOK
  BY <1>1, <1>2, <1>3, <1>5 DEF StreamOK
<1>7. RoutesOK
  BY <1>1, <1>2 DEF RoutesOK
<1> QED BY <1>1, <1>6, <1>7 DEF Rest

\* Every step keeps Rest.
LEMMA RestStep ==
  ASSUME ~hurried', Base, Rest, [ShellNext]_shellvars, Base'
  PROVE  Rest'
<1>1. ASSUME NEW c \in Channels, Create(c) \/ Send(c) \/ Done(c) \/ CloseChannel(c) \/ Wait(c)
      PROVE  Rest'
  BY <1>1, DocumentRest
<1>2. ASSUME NEW d \in Docs \cup {Top}, Opened(d)
      PROVE  Rest'
  BY <1>2, DocumentRest, OpenedRest
<1>13. ASSUME NEW d \in Docs \cup {Top}, BeforeUnload(d)
      PROVE  Rest'
  BY <1>13, DocumentRest, ExpectRest
<1>3. ASSUME NEW d \in Docs, FrameMessage(d)
      PROVE  Rest'
  BY <1>3, DocumentRest
<1>4. CASE SocketMessage
  BY <1>4, SocketHears, HearsRest
<1>5. CASE PostedMessage
  BY <1>5, PostedRest
<1>6. ASSUME NEW w \in Windows \cup {"none"}, Navigate(w)
      PROVE  Rest'
  BY <1>6, NavigateRest
<1>7. ASSUME NEW d \in Docs, NEW next \in BOOLEAN, Unload(d, next)
      PROVE  Rest'
  BY <1>7, Unloads, GoodbyeRest
<1>8. CASE HealthCheck \/ SocketClosed \/ \E how \in {"lost", "silent"} : ConnectionLost(how)
  BY <1>8, DownRest
<1>9. CASE Logout
  BY <1>9, LogoutRest
<1>10. CASE ServerReceives
  BY <1>10, ReceivesRest
<1>11. ASSUME NEW s \in served, NEW kind \in {"ready", "data", "done", "close"}, ServerSends(s, kind)
       PROVE  Rest'
  BY <1>11, SendsRest
<1>12. ASSUME UNCHANGED <<doc, loaded, source, unique_id, posted, up, served, confused, link>>
       PROVE  Rest'
  <2>1. UNCHANGED <<doc, loaded, source, unique_id, posted, up, served, confused, link>> /\ Lost' = Lost
    BY <1>12, LostSame
  <2>2. StreamOK => StreamOK'
    <3> SUFFICES ASSUME StreamOK PROVE StreamOK'
      OBVIOUS
    <3>1. /\ \A n : Up(served', up', n) = UpFact(n) /\ Heard(served', up', posted', n) = PostedFact(n)
          /\ Heard(served', up', posted', Len(posted')) = AllFacts
      BY <2>1, HeardNow
    <3> QED BY <2>1, <3>1, StreamNext DEF StreamOK, Going
  <2>3. RoutesOK => RoutesOK'
    BY <2>1 DEF RoutesOK, Owned, InWindow, OnTheWay
  <2> QED BY <2>1, <2>2, <2>3 DEF Rest, Conn
<1>14. ASSUME NEW b \in BOOLEAN, IgnoreHealthCheck(b)
       PROVE  UNCHANGED <<doc, loaded, source, unique_id, posted, up, served, confused, link>>
  BY <1>14 DEF IgnoreHealthCheck, frames
<1>15. CASE UNCHANGED shellvars
  BY <1>12, <1>15 DEF shellvars
<1> QED BY <1>1, <1>2, <1>3, <1>4, <1>5, <1>6, <1>7, <1>8, <1>9, <1>10, <1>11, <1>12, <1>13, <1>14, <1>15
        DEF ShellNext

\* A server that cannot be reached has ended what it served.
Cut == link # "up" => served = {}

\* Every step keeps Cut.
LEMMA CutStep ==
  ASSUME Base, Cut, [ShellNext]_shellvars
  PROVE  Cut'
<1>1. ASSUME UNCHANGED <<served, link>> PROVE Cut'
  BY <1>1 DEF Cut
<1>2. ASSUME NEW c \in Channels, Create(c) \/ Send(c) \/ Done(c) \/ CloseChannel(c) \/ Wait(c)
      PROVE  Cut'
  BY <1>1, <1>2 DEF Create, Send, Done, CloseChannel, Wait, server
<1>3. ASSUME NEW d, Opened(d) \/ BeforeUnload(d) \/ FrameMessage(d)
      PROVE  Cut'
  BY <1>1, <1>3 DEF Opened, BeforeUnload, FrameMessage, server
<1>4. CASE SocketMessage \/ PostedMessage \/ Logout
  BY <1>1, <1>4 DEF SocketMessage, PostedMessage, Logout, server
<1>5. ASSUME NEW w, Navigate(w) PROVE Cut'
  BY <1>1, <1>5 DEF Navigate, server
<1>6. ASSUME NEW d, NEW next, Unload(d, next) PROVE Cut'
  BY <1>1, <1>6 DEF Unload, server
<1>7. CASE HealthCheck \/ \E how : ConnectionLost(how)
  BY <1>7 DEF HealthCheck, ConnectionLost, Cut
<1>8. CASE SocketClosed
  BY <1>8 DEF SocketClosed, Cut
<1>9. CASE ServerReceives
  <2>1. link = "up" /\ (link' = link \/ served' = {})
    <3>1. PICK m : m = Head(up)
      OBVIOUS
    <3>2. CASE m.kind = "logout"
      BY <1>9, <3>1, <3>2 DEF ServerReceives
    <3>3. CASE m.kind \in {"init", "open", "data", "done", "close", "again", "kill"}
      BY <1>9, <3>1, <3>3 DEF ServerReceives, EndChannels
    <3>4. m.kind \in Talk \cup {"init", "kill", "logout"}
      <4>1. up \in Seq(Message) /\ up # <<>>
        BY <1>9 DEF ServerReceives, Base, Types
      <4>2. Head(up) = up[1] /\ 1 \in DOMAIN up
        BY <4>1, TailTails
      <4> QED BY <3>1, <4>2 DEF Base, TopOK
    <3> QED BY <3>2, <3>3, <3>4 DEF Talk
  <2> QED BY <2>1 DEF Cut
<1>10. ASSUME NEW s, NEW kind, ServerSends(s, kind) PROVE Cut'
  BY <1>10 DEF ServerSends, Cut
<1>12. ASSUME NEW b, IgnoreHealthCheck(b) PROVE Cut'
  BY <1>1, <1>12 DEF IgnoreHealthCheck
<1>11. CASE UNCHANGED shellvars
  BY <1>1, <1>11 DEF shellvars
<1> QED BY <1>2, <1>3, <1>4, <1>5, <1>6, <1>7, <1>8, <1>9, <1>10, <1>11, <1>12 DEF ShellNext

----
(* The invariant and the theorems.                                         *)

\* A document that went before its init was looked at is not forgotten.
LEMMA HurriedStays ==
  ASSUME hurried, [ShellNext]_shellvars
  PROVE  hurried'
<1>1. ASSUME NEW d \in Docs, NEW next \in BOOLEAN, Unload(d, next)
      PROVE  hurried'
  BY <1>1 DEF Unload
<1>2. CASE UNCHANGED hurried
  BY <1>2
<1>3. CASE UNCHANGED shellvars
  BY <1>3 DEF shellvars
<1> QED BY <1>1, <1>2, <1>3
        DEF ShellNext, frames, Create, Send, Done, CloseChannel, Wait, Opened, BeforeUnload, FrameMessage,
            SocketMessage, PostedMessage, Navigate, IgnoreHealthCheck, HealthCheck, SocketClosed, Logout,
            ServerReceives, ServerSends, ConnectionLost

\* The inductive invariant of the shell.  When a document went before its init
\* was looked at, the next one in its window is taken for it, and no more is
\* known.
ShellInv == hurried \/ (Base /\ Rest /\ Cut)

\* It holds of every behaviour.
LEMMA ShellInvariant ==
  ShellSpec => []ShellInv
<1>1. ShellInit => ShellInv
  <2>1. ShellInit => Cut
    BY DEF ShellInit, Cut
  <2> QED BY <2>1, InitBase, InitRest DEF ShellInv
<1>2. ShellInv /\ [ShellNext]_shellvars => ShellInv'
  BY HurriedStays, BaseStep, RestStep, CutStep DEF ShellInv
<1> QED BY <1>1, <1>2, PTL DEF ShellSpec

\* What reaches the server about a channel is its open, then its messages, at
\* most one done, and its close last: for any number of frames and channels,
\* whatever was queued and whoever closed first (Channel, cockpit.js).  Excepted
\* is binary data of a document that the router knows no more, which
\* message_handler forwards without a look at its sender; and, here and below,
\* all that follows when a document goes before its init was looked at (hurried).
THEOREM ProtocolIsKept ==
  ShellSpec => []ProtocolKept
<1>1. ShellInv => ProtocolKept
  BY DEF ShellInv, Rest, Lost, ProtocolKept
<1> QED BY <1>1, ShellInvariant, PTL

\* A channel that is open at the server belongs to a loaded document of the
\* window that opened it, and its messages are routed to this window, or a
\* kill is under way (Router.perform_unload, unregister, base_index.js), unless
\* a document went before its init was looked at.
THEOREM ChannelsAreRouted ==
  ShellSpec => []Routed
<1>1. ShellInv => Routed
  <2> SUFFICES ASSUME ShellInv, ~hurried, NEW s \in served, s.is \in {"open", "done"}, s.group \in Windows
               PROVE  \/ OnTheWay(Msg("kill", NoId, s.group))
                      \/ /\ source[s.group] = s.id[1]
                         /\ \E d \in InWindow(s.group) : \E c \in Mine(d) : doc[d].chan[c].id = s.id
    BY DEF Routed
  <2>1. Base /\ Rest /\ link = "up"
    BY DEF ShellInv, Cut
  <2>2. Conn
    BY <2>1 DEF Conn, Base, TopOK
  <2>3. OnTheWay(Msg("kill", NoId, s.group)) \/ Owned(s.group, s.id)
    BY <2>1, <2>2 DEF Rest, RoutesOK
  <2>4. ASSUME Owned(s.group, s.id)
        PROVE  /\ source[s.group] = s.id[1]
               /\ \E d \in InWindow(s.group) : \E c \in Mine(d) : doc[d].chan[c].id = s.id
    <3>1. PICK d \in InWindow(s.group) : Has(doc[d], s.id)
      BY <2>4 DEF Owned
    <3>2. d \in loaded
      BY <3>1 DEF InWindow
    <3>3. doc[d] \in Page(Mine(d))
      BY <2>1, <3>2, LoadedPhase
    <3>4. DOMAIN doc[d].chan = Mine(d)
      BY <3>3 DEF Page
    <3> QED BY <2>4, <3>1, <3>4 DEF Owned, Has
  <2> QED BY <2>3, <2>4
<1> QED BY <1>1, ShellInvariant, PTL

\* When no message is under way, a frame knows whether it is hidden, even when
\* it was shown or hidden before its init was handled (register and hint of
\* Router, base_index.js; the "hint" control of process_control, cockpit.js),
\* unless a document went before its init was looked at.
THEOREM HiddenIsKnown ==
  ShellSpec => []HiddenKnown
<1>1. ShellInv => HiddenKnown
  <2> SUFFICES ASSUME Base, NEW d \in loaded, doc[d].ws = "open", ~doc[d].waiting_for_init, inbox[d] = <<>>
               PROVE  doc[d].hidden = (current # Window(d))
    BY DEF HiddenKnown, ShellInv
  <2>1. Phase(doc[d], inbox[d], source[Window(d)], current # Window(d), Sent(posted, d), TRUE)
    BY LoadedPhase
  <2>2. Running(doc[d], inbox[d], source[Window(d)], current # Window(d), Sent(posted, d))
    BY <2>1 DEF Phase, Fresh, Asked, Answered, Shut
  <2>3. DOMAIN inbox[d] = {}
    OBVIOUS
  <2> QED BY <2>2, <2>3 DEF Running, Final
<1> QED BY <1>1, ShellInvariant, PTL

\* The first message a frame's transport gets is its init, whatever was routed
\* to the window's earlier document: process_control of cockpit.js closes a
\* transport that gets another message first.  The exception is the same.
THEOREM InitComesFirst ==
  ShellSpec => []InitFirst
<1>1. ShellInv => InitFirst
  <2> SUFFICES ASSUME Base, NEW d \in loaded, inbox[d] # <<>>, doc[d].ws \in {"opening", "open"},
                      doc[d].waiting_for_init
               PROVE  Head(inbox[d]).kind = "init"
    BY DEF InitFirst, ShellInv
  <2>1. /\ Phase(doc[d], inbox[d], source[Window(d)], current # Window(d), Sent(posted, d), TRUE)
        /\ inbox[d] \in Seq(Message)
    BY LoadedPhase
  <2>2. Answered(doc[d], inbox[d], source[Window(d)], current # Window(d), Sent(posted, d))
    BY <2>1 DEF Phase, Fresh, Asked, Running, Shut
  <2>3. Head(inbox[d]) = inbox[d][1]
    BY <2>1, TailTails
  <2> QED BY <2>2, <2>3 DEF Answered
<1> QED BY <1>1, ShellInvariant, PTL
=============================================================================
