--------------------------- MODULE TransportProofs ---------------------------
(***************************************************************************)
(* The theorems about Transport: for any set of channels, any number of    *)
(* messages and any nesting of freezes and thaws, messages of a channel    *)
(* are handled in the order they were received, and none is left behind in *)
(* the queue.                                                              *)
(***************************************************************************)
EXTENDS Transport, SequenceTheorems, TLAPS

-----------------------------------------------------------------------------
(* The queue and the stack as sequences. *)

\* Taking a link out of the queue moves the ones after it up by one.
LEMMA DeleteLinkProperties ==
  ASSUME NEW S, NEW q \in Seq(S), NEW i \in 1 .. Len(q)
  PROVE  /\ DeleteLink(q, i) \in Seq(S)
         /\ Len(DeleteLink(q, i)) = Len(q) - 1
         /\ \A k \in 1 .. Len(q) - 1 :
              DeleteLink(q, i)[k] = IF k < i THEN q[k] ELSE q[k + 1]
<1>1. Len(q) \in Nat /\ Len(q) - 1 \in Nat
  BY LenProperties
<1>2. \A k \in 1 .. Len(q) - 1 : (IF k < i THEN q[k] ELSE q[k + 1]) \in S
  BY <1>1, ElementOfSeq
<1>3. DeleteLink(q, i) \in [1 .. Len(q) - 1 -> S]
  BY <1>2 DEF DeleteLink
<1>4. DeleteLink(q, i) \in Seq(S)
  BY <1>1, <1>3, SeqDef
<1>5. DOMAIN DeleteLink(q, i) = 1 .. Len(q) - 1
  BY DEF DeleteLink
<1>6. Len(DeleteLink(q, i)) = Len(q) - 1
  BY <1>1, <1>4, <1>5, LenProperties
<1>7. \A k \in 1 .. Len(q) - 1 :
        DeleteLink(q, i)[k] = IF k < i THEN q[k] ELSE q[k + 1]
  BY DEF DeleteLink
<1> QED
  BY <1>4, <1>6, <1>7

\* Returning from a walk leaves the outer walks as they were.
LEMMA PopProperties ==
  ASSUME NEW S, stack \in Seq(S), stack # <<>>
  PROVE  /\ Pop \in Seq(S)
         /\ Len(stack) \in Nat /\ Len(stack) > 0
         /\ Len(Pop) = Len(stack) - 1
         /\ \A a \in 1 .. Len(stack) - 1 : Pop[a] = stack[a]
         /\ Top \in S
<1>1. Len(stack) \in Nat /\ Len(stack) > 0
  BY EmptySeq
<1>2. \A a \in 1 .. Len(stack) : stack[a] \in S
  BY <1>1, ElementOfSeq
<1>3. Pop \in Seq(S)
  BY <1>1, <1>2 DEF Pop
<1>4. Len(Pop) = Len(stack) - 1
  <2>1. CASE Len(stack) - 1 > 0
    BY <1>1, <1>2, <2>1 DEF Pop
  <2>2. CASE ~(Len(stack) - 1 > 0)
    <3>1. Pop = <<>>
      BY <1>1, <2>2, SubSeqEmpty DEF Pop
    <3>2. Len(Pop) = 0
      BY <3>1, EmptySeq
    <3>3. ASSUME NEW n \in Nat, n > 0, ~(n - 1 > 0)  PROVE n - 1 = 0
      BY <3>3
    <3>4. Len(stack) - 1 = 0
      BY <1>1, <2>2, <3>3
    <3> QED
      BY <3>2, <3>4
  <2> QED
    BY <2>1, <2>2
<1>5. \A a \in 1 .. Len(stack) - 1 : Pop[a] = stack[a]
  BY <1>1, <1>2 DEF Pop
<1> QED
  BY <1>1, <1>2, <1>3, <1>4, <1>5 DEF Top

-----------------------------------------------------------------------------
(* Types. *)

\* A message that is emitted is held under a copy of its channel's name.
LEMMA EmitType ==
  ASSUME NEW q \in Seq(Node), NEW m \in Message, key \in [Channels -> Nat],
         Emit(q, m)
  PROVE  frozen' \in Seq(Node) /\ cur' \in SUBSET Message
<1>1. [ch |-> m.ch, n |-> m.n, key |-> key[m.ch]] \in Node
  BY DEF Message, Node
<1>2. Hold(q, m) \in Seq(Node)
  BY <1>1, AppendProperties DEF Hold
<1> QED
  BY <1>2 DEF Emit

\* The initial state has its type.
LEMMA InitType == TransportInit => TransportTypeOK
<1>1. <<>> \in Seq(Node) /\ <<>> \in Seq(Flush)
  BY EmptySeq
<1>2. TransportInit => [c \in Channels |-> 0] \in [Channels -> Nat]
  OBVIOUS
<1>3. FALSE \in BOOLEAN
  OBVIOUS
<1> QED
  BY <1>1, <1>2, <1>3, Zenon DEF TransportInit, TransportTypeOK

\* Every operation of the transport and of its clients keeps the types.
LEMMA NextType ==
  ASSUME TransportTypeOK, [TransportNext]_tvars
  PROVE  TransportTypeOK'
<1> USE DEF TransportTypeOK
<1>1. ASSUME NEW c \in Channels, Recv(c)  PROVE TransportTypeOK'
  <2>1. [ch |-> c, n |-> sent[c] + 1] \in Message
    BY DEF Message
  <2>2. frozen' \in Seq(Node) /\ cur' \in SUBSET Message
    BY <1>1, <2>1, EmitType DEF Recv
  <2> QED
    BY <1>1, <2>2 DEF Recv
<1>2. ASSUME NEW c \in Channels, Thaw(c)  PROVE TransportTypeOK'
  <2>1. Walk(c) \in Flush
    <3>1. frozen # <<>> => frozen[1] \in Node
      BY EmptySeq, ElementOfSeq
    <3> QED
      BY <3>1 DEF Walk, Flush
  <2>2. stack' \in Seq(Flush)
    BY <1>2, <2>1, AppendProperties DEF Thaw
  <2> QED
    BY <1>2, <2>2 DEF Thaw
<1>3. ASSUME NEW m \in cur, Taken(m)
      PROVE  taken' \in [Channels -> Nat] /\ cur' \in SUBSET Message
  BY <1>3 DEF Taken, Message
<1>4. CASE Take
  BY <1>3, <1>4 DEF Take
<1>5. CASE TakeAndFreeze
  <2>1. PICK m \in cur : /\ Taken(m) /\ Freeze(m.ch)
                         /\ UNCHANGED <<frozen, stack, sent, dangled, closed>>
    BY <1>5 DEF TakeAndFreeze
  <2>2. freeze' \subseteq Channels /\ key' \in [Channels -> Nat]
    BY <2>1 DEF Freeze, Message
  <2> QED
    BY <1>3, <2>1, <2>2
<1>6. CASE PutBack
  <2>1. PICK m \in cur : /\ Requeue(m)
                         /\ UNCHANGED <<stack, sent, taken, dangled, closed>>
    BY <1>6 DEF PutBack
  <2>2. freeze' \subseteq Channels /\ key' \in [Channels -> Nat]
    BY <2>1 DEF Requeue, Freeze, Message
  <2>3. [ch |-> m.ch, n |-> m.n, key |-> key'[m.ch]] \in Node
    BY <2>2 DEF Message, Node
  <2>4. frozen' \in Seq(Node) /\ cur' = {}
    BY <2>1, <2>3, AppendProperties DEF Requeue
  <2> QED
    BY <2>1, <2>2, <2>4
<1>7. CASE FlushNext
  <2>1. PICK i \in 1 .. Len(frozen) :
          /\ stack' = Advance(i)
          /\ Emit(DeleteLink(frozen, i), [ch |-> frozen[i].ch, n |-> frozen[i].n])
    BY <1>7 DEF FlushNext
  <2>2. frozen[i] \in Node /\ (i < Len(frozen) => frozen[i + 1] \in Node)
    BY ElementOfSeq, LenProperties
  <2>3. frozen' \in Seq(Node) /\ cur' \in SUBSET Message
    <3>1. [ch |-> frozen[i].ch, n |-> frozen[i].n] \in Message
      BY <2>2 DEF Node, Message
    <3>2. DeleteLink(frozen, i) \in Seq(Node)
      BY DeleteLinkProperties
    <3> QED
      BY <2>1, <3>1, <3>2, EmitType
  <2>4. stack' \in Seq(Flush)
    <3>1. Len(stack) \in 1 .. Len(stack) /\ stack[Len(stack)] \in Flush
      BY <1>7, PopProperties DEF FlushNext, Walking, Top
    <3>2. [stack[Len(stack)] EXCEPT !.next =
             IF i < Len(frozen) THEN {frozen[i + 1]} ELSE {}] \in Flush
      BY <2>2, <3>1 DEF Flush
    <3> QED
      BY <2>1, <3>1, <3>2, ExceptSeq DEF Advance
  <2> QED
    BY <1>7, <2>3, <2>4 DEF FlushNext
<1>8. CASE FlushEnd
  BY <1>8, PopProperties DEF FlushEnd, Walking
<1>9. CASE FlushDangling
  BY <1>9, PopProperties DEF FlushDangling, Walking
<1>10. CASE Close
  BY <1>10 DEF Close
<1>11. CASE UNCHANGED tvars
  BY <1>11 DEF tvars
<1> QED
  BY <1>1, <1>2, <1>4, <1>5, <1>6, <1>7, <1>8, <1>9, <1>10, <1>11 DEF TransportNext

-----------------------------------------------------------------------------
(* The inductive invariant. *)

\* What the types say of the links and of the walks.
LEMMA Elements ==
  ASSUME TransportTypeOK
  PROVE  /\ Len(frozen) \in Nat /\ Len(stack) \in Nat
         /\ \A i \in 1 .. Len(frozen) :
              /\ frozen[i] \in Node /\ frozen[i].ch \in Channels
              /\ frozen[i].n \in Nat /\ frozen[i].key \in Nat
         /\ \A a \in 1 .. Len(stack) :
              /\ stack[a].ch \in Channels /\ stack[a].key \in Nat
              /\ \A x \in stack[a].next :
                   x \in Node /\ x.ch \in Channels /\ x.n \in Nat /\ x.key \in Nat
         /\ \A m \in cur : m.ch \in Channels /\ m.n \in Nat
<1>1. Len(frozen) \in Nat /\ Len(stack) \in Nat
  BY LenProperties DEF TransportTypeOK
<1>2. \A i \in 1 .. Len(frozen) : frozen[i] \in Node
  BY ElementOfSeq DEF TransportTypeOK
<1>3. \A a \in 1 .. Len(stack) : stack[a] \in Flush
  BY ElementOfSeq DEF TransportTypeOK
<1> QED
  BY <1>1, <1>2, <1>3 DEF TransportTypeOK, Node, Flush, Message

\* No message is in the queue twice.
LEMMA Distinct ==
  ASSUME TransportTypeOK, QueueOrder,
         NEW i \in 1 .. Len(frozen), NEW j \in 1 .. Len(frozen),
         frozen[i] = frozen[j]
  PROVE  i = j
BY Elements DEF QueueOrder

\* The initial state satisfies the invariant.
LEMMA InitOrderly == TransportInit => Orderly
<1> SUFFICES ASSUME TransportInit  PROVE Orderly
  OBVIOUS
<1>1. Len(frozen) = 0 /\ Len(stack) = 0
  BY EmptySeq DEF TransportInit
<1>2. \A k : k \notin 1 .. 0
  OBVIOUS
<1>3. OneAtATime
  BY DEF TransportInit, OneAtATime
<1>4. KeysGrow /\ HasWalk /\ QueueOrder /\ Ahead
  BY <1>1, <1>2, Zenon DEF KeysGrow, HasWalk, QueueOrder, Ahead
<1>5. Pending
  BY <1>1, <1>2 DEF TransportInit, Pending
<1> QED
  BY <1>3, <1>4, <1>5 DEF Orderly

\* A handler that takes a message leaves the others pending.
LEMMA TakenPending ==
  ASSUME TransportTypeOK, Orderly, NEW m \in cur, Taken(m),
         UNCHANGED <<frozen, sent>>
  PROVE  Pending'
<1> USE Elements DEF Orderly, TransportTypeOK
<1>1. /\ m.ch \in Channels /\ m.n \in Nat
      /\ taken'[m.ch] = m.n
      /\ \A c \in Channels : c # m.ch => taken'[c] = taken[c]
      /\ cur' = {} /\ frozen' = frozen /\ sent' = sent
  BY DEF Taken
<1>2. /\ taken[m.ch] < m.n /\ m.n <= sent[m.ch]
      /\ \A i \in 1 .. Len(frozen) : frozen[i].ch = m.ch => m.n < frozen[i].n
  BY DEF Pending
<1>3. \A c \in Channels : taken'[c] <= sent'[c]
  BY <1>1, <1>2 DEF Pending
<1>4. \A i \in 1 .. Len(frozen) :
        taken'[frozen[i].ch] < frozen[i].n /\ frozen[i].n <= sent[frozen[i].ch]
  BY <1>1, <1>2 DEF Pending
<1>5. ASSUME NEW c \in Channels, NEW n \in 1 .. sent[c], taken'[c] < n
      PROVE  \E i \in 1 .. Len(frozen) : frozen[i].ch = c /\ frozen[i].n = n
  <2>1. taken[c] < n
    <3>1. taken[c] \in Nat /\ sent[c] \in Nat /\ n \in Nat
      OBVIOUS
    <3>2. CASE c = m.ch
      BY <1>1, <1>2, <1>5, <3>1, <3>2
    <3>3. CASE c # m.ch
      BY <1>1, <1>5, <3>3
    <3> QED
      BY <3>2, <3>3
  <2>2. ~\E m1 \in cur : m1.ch = c /\ m1.n = n
    BY <1>1, <1>5 DEF OneAtATime
  <2> QED
    BY <2>1, <2>2 DEF Pending
<1> QED
  BY <1>1, <1>3, <1>4, <1>5 DEF Pending

\* A handler that takes the message keeps the invariant.
LEMMA TakeOrderly ==
  ASSUME TransportTypeOK, Orderly, Take
  PROVE  Orderly'
<1>1. PICK m \in cur : /\ Taken(m)
                       /\ UNCHANGED <<freeze, key, frozen, stack, sent, dangled, closed>>
  BY DEF Take
<1>2. OneAtATime' /\ KeysGrow' /\ HasWalk' /\ QueueOrder' /\ Ahead'
  BY <1>1 DEF Taken, Orderly, OneAtATime, KeysGrow, HasWalk, QueueOrder, Ahead, Live
<1>3. Pending'
  BY <1>1, TakenPending
<1> QED
  BY <1>2, <1>3 DEF Orderly

\* Freezing the channel of the message at hand: the new copy of the name is
\* newer than those of all links and walks.
LEMMA FreezeFacts ==
  ASSUME TransportTypeOK, Orderly, NEW m \in cur, Freeze(m.ch)
  PROVE  /\ m.ch \in Channels /\ m.ch \notin freeze
         /\ freeze' = freeze \cup {m.ch}
         /\ key'[m.ch] = key[m.ch] + 1
         /\ \A c \in Channels : /\ key[c] \in Nat /\ key'[c] \in Nat
                                 /\ key[c] <= key'[c]
                                 /\ c # m.ch => key'[c] = key[c]
         /\ \A x : x.ch \in Channels /\ x.key \in Nat /\ x.key <= key[x.ch] =>
              /\ x.key <= key'[x.ch]
              /\ x.ch \in freeze' /\ x.key = key'[x.ch] <=> Live(x)
<1>1. /\ m.ch \in Channels /\ m.ch \notin freeze
      /\ freeze' = freeze \cup {m.ch}
      /\ key'[m.ch] = key[m.ch] + 1
      /\ \A c \in Channels : key[c] \in Nat
      /\ \A c \in Channels : c # m.ch => key'[c] = key[c]
  BY Elements DEF Freeze, Orderly, OneAtATime, TransportTypeOK
<1>2. \A c \in Channels : key'[c] \in Nat /\ key[c] <= key'[c]
  BY <1>1
<1>3. ASSUME NEW x, x.ch \in Channels, x.key \in Nat, x.key <= key[x.ch]
      PROVE  /\ x.key <= key'[x.ch]
             /\ x.ch \in freeze' /\ x.key = key'[x.ch] <=> Live(x)
  <2>1. CASE x.ch = m.ch
    BY <1>1, <1>2, <1>3, <2>1 DEF Live
  <2>2. CASE x.ch # m.ch
    BY <1>1, <1>2, <1>3, <2>2 DEF Live
  <2> QED
    BY <2>1, <2>2
<1> QED
  BY <1>1, <1>2, <1>3

\* The walks and the links in front of them stay in order.
LEMMA FreezeWalks ==
  ASSUME TransportTypeOK, Orderly, NEW m \in cur, Freeze(m.ch)
  PROVE  /\ \A i \in 1 .. Len(frozen) :
              /\ frozen[i].key <= key'[frozen[i].ch]
              /\ \/ frozen[i].ch \in freeze' /\ frozen[i].key = key'[frozen[i].ch]
                 \/ \E a \in 1 .. Len(stack) :
                      stack[a].ch = frozen[i].ch /\ stack[a].key = frozen[i].key
         /\ \A a \in 1 .. Len(stack) :
              /\ stack[a].key <= key'[stack[a].ch]
              /\ ~(stack[a].ch \in freeze' /\ stack[a].key = key'[stack[a].ch])
              /\ \A x \in stack[a].next :
                   /\ x.key <= key'[x.ch]
                   /\ x.ch \in freeze' /\ x.key = key'[x.ch] =>
                        \E j \in 1 .. Len(frozen) : frozen[j] = x
<1>1. \A x : x.ch \in Channels /\ x.key \in Nat /\ x.key <= key[x.ch] =>
        /\ x.key <= key'[x.ch]
        /\ x.ch \in freeze' /\ x.key = key'[x.ch] <=> Live(x)
  BY FreezeFacts
<1>2. ASSUME NEW i \in 1 .. Len(frozen)
      PROVE  /\ frozen[i].key <= key'[frozen[i].ch]
             /\ \/ frozen[i].ch \in freeze' /\ frozen[i].key = key'[frozen[i].ch]
                \/ \E a \in 1 .. Len(stack) :
                     stack[a].ch = frozen[i].ch /\ stack[a].key = frozen[i].key
  BY <1>1, Elements DEF Orderly, KeysGrow, HasWalk
<1>3. ASSUME NEW a \in 1 .. Len(stack)
      PROVE  /\ stack[a].key <= key'[stack[a].ch]
             /\ ~(stack[a].ch \in freeze' /\ stack[a].key = key'[stack[a].ch])
  BY <1>1, Elements DEF Orderly, KeysGrow
<1>4. ASSUME NEW a \in 1 .. Len(stack), NEW x \in stack[a].next
      PROVE  /\ x.key <= key'[x.ch]
             /\ x.ch \in freeze' /\ x.key = key'[x.ch] =>
                  \E j \in 1 .. Len(frozen) : frozen[j] = x
  <2>1. x.ch \in Channels /\ x.key \in Nat
    BY Elements
  <2>2. /\ x.key <= key[x.ch]
        /\ Live(x) => \E j \in 1 .. Len(frozen) : frozen[j] = x
    BY DEF Orderly, Ahead
  <2> QED
    BY <1>1, <2>1, <2>2
<1> QED
  BY <1>2, <1>3, <1>4

\* A handler that takes a message and freezes the channel.
LEMMA TakeAndFreezeOrderly ==
  ASSUME TransportTypeOK, Orderly, TakeAndFreeze
  PROVE  Orderly'
<1>1. PICK m \in cur : /\ Taken(m) /\ Freeze(m.ch)
                       /\ UNCHANGED <<frozen, stack, sent, dangled, closed>>
  BY DEF TakeAndFreeze
<1>2. OneAtATime' /\ QueueOrder'
  BY <1>1 DEF Taken, Orderly, OneAtATime, QueueOrder
<1>3. KeysGrow'
  BY <1>1, FreezeWalks DEF Orderly, KeysGrow, Live
<1>4. HasWalk'
  BY <1>1, FreezeWalks DEF HasWalk, Live
<1>5. Ahead'
  <2>1. \A a \in 1 .. Len(stack) : \A x \in stack[a].next :
          /\ x.key <= key'[x.ch]
          /\ x.ch \in freeze' /\ x.key = key'[x.ch] =>
               \E j \in 1 .. Len(frozen) : frozen[j] = x
    BY <1>1, FreezeWalks
  <2> QED
    BY <1>1, <2>1 DEF Orderly, Ahead, Live
<1>6. Pending'
  BY <1>1, TakenPending
<1> QED
  BY <1>2, <1>3, <1>4, <1>5, <1>6 DEF Orderly

\* A handler that puts the message back: the message is earlier than all
\* frozen ones of its channel and is kept under a newer copy of the name.
LEMMA PutBackOrderly ==
  ASSUME TransportTypeOK, Orderly, PutBack
  PROVE  Orderly'
<1>1. PICK m \in cur : /\ Requeue(m)
                       /\ UNCHANGED <<stack, sent, taken, dangled, closed>>
  BY DEF PutBack
<1> DEFINE new == [ch |-> m.ch, n |-> m.n, key |-> key'[m.ch]]
           L == Len(frozen)
<1>2. /\ m.ch \in Channels /\ m.n \in Nat /\ m.ch \in freeze'
      /\ key[m.ch] \in Nat /\ key'[m.ch] = key[m.ch] + 1
      /\ cur' = {} /\ stack' = stack /\ sent' = sent /\ taken' = taken
  <2>1. Freeze(m.ch)
    BY <1>1 DEF Requeue
  <2>2. /\ m.ch \in Channels /\ freeze' = freeze \cup {m.ch}
        /\ key'[m.ch] = key[m.ch] + 1
    BY <2>1, FreezeFacts, Zenon
  <2> QED
    BY <1>1, <2>2, Elements DEF Requeue, TransportTypeOK
<1>3. /\ new \in Node /\ new.ch = m.ch /\ new.n = m.n /\ new.key = key[m.ch] + 1
  BY <1>2 DEF Node
<1>4. /\ L \in Nat /\ Len(frozen') = L + 1
      /\ \A k \in 1 .. L : frozen'[k] = frozen[k]
      /\ frozen'[L + 1] = new
  BY <1>1, <1>3, AppendProperties, Elements DEF Requeue, TransportTypeOK
<1> HIDE DEF new, L
<1>5. \A k \in 1 .. L + 1 : k \in 1 .. L \/ k = L + 1
  BY <1>4
<1>6. \A i \in 1 .. L :
        /\ frozen[i].key \in Nat
        /\ frozen[i].ch = m.ch => frozen[i].key < new.key /\ new.n < frozen[i].n
  BY <1>2, <1>3, Elements DEF Orderly, KeysGrow, Pending, L
<1>7. OneAtATime'
  BY <1>2 DEF OneAtATime
<1>8. KeysGrow'
  <2>1. \A i \in 1 .. L + 1 : frozen'[i].key <= key'[frozen'[i].ch]
    BY <1>1, <1>2, <1>3, <1>4, <1>5, FreezeWalks DEF L, Requeue
  <2> QED
    BY <1>1, <1>2, <1>4, <2>1, FreezeWalks DEF Orderly, KeysGrow, Live, Requeue
<1>9. HasWalk'
  <2>1. ASSUME NEW i \in 1 .. L + 1
        PROVE  \/ frozen'[i].ch \in freeze' /\ frozen'[i].key = key'[frozen'[i].ch]
               \/ \E a \in 1 .. Len(stack) :
                    stack[a].ch = frozen'[i].ch /\ stack[a].key = frozen'[i].key
    BY <1>1, <1>2, <1>3, <1>4, <1>5, FreezeWalks DEF L, Requeue
  <2> QED
    BY <1>2, <1>4, <2>1 DEF HasWalk, Live
<1>10. QueueOrder'
  <2>1. ASSUME NEW i \in 1 .. L + 1, NEW j \in 1 .. L + 1,
               frozen'[i].ch = frozen'[j].ch
        PROVE  /\ frozen'[i].key > frozen'[j].key => frozen'[i].n < frozen'[j].n
               /\ frozen'[i].key = frozen'[j].key /\ i < j =>
                    frozen'[i].n < frozen'[j].n
    <3>1. CASE i \in 1 .. L /\ j \in 1 .. L
      BY <1>4, <2>1, <3>1 DEF Orderly, QueueOrder, L
    <3>2. CASE i = L + 1 /\ j \in 1 .. L
      BY <1>3, <1>4, <1>6, <2>1, <3>2
    <3>3. CASE i \in 1 .. L /\ j = L + 1
      <4>1. frozen'[i] = frozen[i] /\ frozen'[j] = new /\ frozen[i].ch = m.ch
        BY <1>3, <1>4, <2>1, <3>3
      <4>2. frozen[i].key < new.key /\ frozen[i].key \in Nat /\ new.key \in Nat
        BY <1>2, <1>3, <1>6, <3>3, <4>1
      <4> QED
        BY <4>1, <4>2
    <3>4. CASE i = L + 1 /\ j = L + 1
      BY <1>2, <1>3, <1>4, <3>4
    <3> QED
      BY <1>5, <3>1, <3>2, <3>3, <3>4
  <2> QED
    BY <1>4, <2>1 DEF QueueOrder
<1>11. Ahead'
  <2>1. ASSUME NEW a \in 1 .. Len(stack), NEW x \in stack[a].next
        PROVE  /\ x # new
               /\ x.key <= key'[x.ch]
               /\ x.ch \in freeze' /\ x.key = key'[x.ch] =>
                    \E j \in 1 .. L + 1 : frozen'[j] = x
    <3>1. x # new
      BY <1>2, <1>3, Elements DEF Orderly, Ahead
    <3> QED
      BY <1>1, <1>4, <3>1, FreezeWalks DEF L, Requeue
  <2>2. ASSUME NEW a \in 1 .. Len(stack), NEW i \in 1 .. L + 1,
               stack[a].ch = frozen'[i].ch, stack[a].key = frozen'[i].key
        PROVE  /\ stack[a].next # {}
               /\ \A j \in 1 .. L + 1 : frozen'[j] \in stack[a].next => j <= i
    <3>1. i \in 1 .. L
      <4>1. stack[a].key <= key[stack[a].ch]
        BY DEF Orderly, KeysGrow
      <4>2. i # L + 1
        BY <1>2, <1>3, <1>4, <2>2, <4>1
      <4> QED
        BY <1>5, <4>2
    <3>2. \A j \in 1 .. L + 1 : frozen'[j] \in stack[a].next => j \in 1 .. L
      BY <1>4, <1>5, <2>1
    <3> QED
      BY <1>4, <2>2, <3>1, <3>2 DEF Orderly, Ahead, L
  <2> QED
    BY <1>2, <1>4, <2>1, <2>2 DEF Orderly, Ahead, Live
<1>12. Pending'
  <2>1. \A i \in 1 .. L + 1 :
          taken[frozen'[i].ch] < frozen'[i].n /\ frozen'[i].n <= sent[frozen'[i].ch]
    BY <1>3, <1>4, <1>5 DEF Orderly, Pending, L
  <2>2. ASSUME NEW c \in Channels, NEW n \in 1 .. sent[c], taken[c] < n
        PROVE  \E i \in 1 .. L + 1 : frozen'[i].ch = c /\ frozen'[i].n = n
    <3>1. CASE \E m1 \in cur : m1.ch = c /\ m1.n = n
      <4>1. m.ch = c /\ m.n = n
        BY <3>1 DEF Orderly, OneAtATime
      <4>2. L + 1 \in 1 .. L + 1
        BY <1>4
      <4> QED
        BY <1>3, <1>4, <4>1, <4>2
    <3>2. CASE \E i \in 1 .. L : frozen[i].ch = c /\ frozen[i].n = n
      BY <1>4, <3>2
    <3> QED
      BY <2>2, <3>1, <3>2 DEF Orderly, Pending, L
  <2> QED
    BY <1>2, <1>4, <2>1, <2>2 DEF Orderly, Pending
<1> QED
  BY <1>7, <1>8, <1>9, <1>10, <1>11, <1>12 DEF Orderly

\* Thawing: the live links of the channel become those of the new walk.
LEMMA ThawOrderly ==
  ASSUME TransportTypeOK, Orderly, NEW c \in Channels, Thaw(c)
  PROVE  Orderly'
<1> DEFINE D == Len(stack)
<1>1. /\ cur = {} /\ c \in freeze /\ freeze' = freeze \ {c}
      /\ stack' = Append(stack, Walk(c))
      /\ key' = key /\ frozen' = frozen /\ cur' = cur /\ sent' = sent /\ taken' = taken
  BY DEF Thaw
<1>2. Walk(c) \in Flush
  <2>1. frozen # <<>> => frozen[1] \in Node
    BY EmptySeq, ElementOfSeq DEF TransportTypeOK
  <2> QED
    BY <2>1 DEF Walk, Flush, TransportTypeOK
<1>3. /\ D \in Nat /\ Len(stack') = D + 1
      /\ \A a \in 1 .. D : stack'[a] = stack[a]
      /\ stack'[D + 1] = Walk(c)
  BY <1>1, <1>2, AppendProperties, Elements DEF TransportTypeOK
<1>4. Walk(c).ch = c /\ Walk(c).key = key[c]
  BY DEF Walk
<1>5. D + 1 \in 1 .. D + 1 /\ \A a \in 1 .. D + 1 : a \in 1 .. D \/ a = D + 1
  BY <1>3
<1>6. \A a \in 1 .. D : stack[a].ch = c => stack[a].key < key[c]
  BY <1>1, Elements DEF Orderly, KeysGrow, Live, TransportTypeOK
<1> HIDE DEF D
<1>7. OneAtATime'
  BY <1>1 DEF OneAtATime
<1>8. KeysGrow'
  <2>1. ASSUME NEW a \in 1 .. D + 1
        PROVE  /\ stack'[a].key <= key[stack'[a].ch]
               /\ ~(stack'[a].ch \in freeze' /\ stack'[a].key = key[stack'[a].ch])
    <3>1. CASE a \in 1 .. D
      BY <1>1, <1>3, <3>1 DEF Orderly, KeysGrow, Live, D
    <3>2. CASE a = D + 1
      BY <1>1, <1>3, <1>4, <3>2 DEF TransportTypeOK
    <3> QED
      BY <1>5, <3>1, <3>2
  <2>2. ASSUME NEW a \in 1 .. D + 1, NEW b \in 1 .. D + 1,
               a < b, stack'[a].ch = stack'[b].ch
        PROVE  stack'[a].key < stack'[b].key
    <3>1. a \in 1 .. D
      BY <1>3, <2>2
    <3>2. CASE b \in 1 .. D
      BY <1>3, <2>2, <3>1, <3>2 DEF Orderly, KeysGrow, D
    <3>3. CASE b = D + 1
      BY <1>3, <1>4, <1>6, <2>2, <3>1, <3>3
    <3> QED
      BY <1>5, <3>2, <3>3
  <2> QED
    BY <1>1, <1>3, <2>1, <2>2 DEF Orderly, KeysGrow, Live
<1>9. HasWalk'
  <2>1. ASSUME NEW i \in 1 .. Len(frozen)
        PROVE  \/ frozen[i].ch \in freeze' /\ frozen[i].key = key[frozen[i].ch]
               \/ \E a \in 1 .. D + 1 :
                    stack'[a].ch = frozen[i].ch /\ stack'[a].key = frozen[i].key
    <3>1. CASE Live(frozen[i]) /\ frozen[i].ch = c
      BY <1>3, <1>4, <1>5, <3>1 DEF Live
    <3>2. CASE Live(frozen[i]) /\ frozen[i].ch # c
      BY <1>1, <3>2 DEF Live
    <3>3. CASE \E a \in 1 .. D : stack[a].ch = frozen[i].ch /\ stack[a].key = frozen[i].key
      BY <1>3, <3>3
    <3> QED
      BY <3>1, <3>2, <3>3 DEF Orderly, HasWalk, D
  <2> QED
    BY <1>1, <1>3, <2>1 DEF HasWalk, Live
<1>10. QueueOrder'
  BY <1>1 DEF Orderly, QueueOrder
<1>11. Ahead'
  <2>1. Walk(c).next = IF frozen = <<>> THEN {} ELSE {frozen[1]}
    BY DEF Walk
  <2>2. ASSUME NEW i \in 1 .. Len(frozen)  PROVE frozen # <<>> /\ 1 \in 1 .. Len(frozen)
    BY Elements, EmptySeq
  <2>3. ASSUME frozen # <<>>  PROVE 1 \in 1 .. Len(frozen)
    BY <2>3, Elements, EmptySeq DEF TransportTypeOK
  <2>4. ASSUME NEW a \in 1 .. D + 1
        PROVE  /\ \A x, y \in stack'[a].next : x = y
               /\ \A x \in stack'[a].next :
                    /\ x.key <= key[x.ch]
                    /\ x.ch \in freeze' /\ x.key = key[x.ch] =>
                         \E j \in 1 .. Len(frozen) : frozen[j] = x
               /\ \A i \in 1 .. Len(frozen) :
                    stack'[a].ch = frozen[i].ch /\ stack'[a].key = frozen[i].key =>
                      /\ stack'[a].next # {}
                      /\ \A j \in 1 .. Len(frozen) : frozen[j] \in stack'[a].next => j <= i
    <3>1. CASE a \in 1 .. D
      BY <1>1, <1>3, <3>1 DEF Orderly, Ahead, Live, D
    <3>2. CASE a = D + 1
      <4>1. stack'[a].next = IF frozen = <<>> THEN {} ELSE {frozen[1]}
        BY <1>3, <2>1, <3>2
      <4>2. \A x \in stack'[a].next :
              x.key <= key[x.ch] /\ \E j \in 1 .. Len(frozen) : frozen[j] = x
        BY <2>3, <4>1 DEF Orderly, KeysGrow
      <4>3. ASSUME NEW i \in 1 .. Len(frozen), NEW j \in 1 .. Len(frozen),
                   frozen[j] \in stack'[a].next
            PROVE  j <= i
        <5>1. frozen[j] = frozen[1]
          BY <2>2, <4>1, <4>3
        <5>2. j = 1
          BY <2>2, <5>1, Distinct DEF Orderly
        <5> QED
          BY <5>2, Elements
      <4>4. \A i \in 1 .. Len(frozen) : stack'[a].next # {}
        BY <2>2, <4>1
      <4> QED
        BY <4>1, <4>2, <4>3, <4>4
    <3> QED
      BY <1>5, <3>1, <3>2
  <2> QED
    BY <1>1, <1>3, <2>4 DEF Ahead, Live
<1>12. Pending'
  BY <1>1 DEF Orderly, Pending
<1> QED
  BY <1>7, <1>8, <1>9, <1>10, <1>11, <1>12 DEF Orderly

\* A message arrives: no walk is in progress, so every link is live, and
\* older than the new one.
LEMMA RecvOrderly ==
  ASSUME TransportTypeOK, Orderly, NEW c \in Channels, Recv(c)
  PROVE  Orderly'
<1> DEFINE m == [ch |-> c, n |-> sent[c] + 1]
           new == [ch |-> c, n |-> sent[c] + 1, key |-> key[c]]
           L == Len(frozen)
<1>1. /\ stack = <<>> /\ cur = {} /\ stack' = stack
      /\ freeze' = freeze /\ key' = key /\ taken' = taken
      /\ sent'[c] = sent[c] + 1
      /\ \A d \in Channels : d # c => sent'[d] = sent[d]
  BY DEF Recv, TransportTypeOK
<1>2. \A d \in Channels : /\ sent[d] \in Nat /\ sent'[d] \in Nat /\ sent[d] <= sent'[d]
                           /\ taken[d] \in Nat /\ taken[d] <= sent[d]
                           /\ taken[d] <= sent'[d]
  <2>1. \A d \in Channels : sent[d] \in Nat /\ taken[d] \in Nat /\ taken[d] <= sent[d]
    BY DEF Orderly, Pending, TransportTypeOK
  <2>2. \A d \in Channels : sent'[d] \in Nat /\ sent[d] <= sent'[d]
    BY <1>1, <2>1
  <2> QED
    BY <2>1, <2>2
<1>3. \A a : a \notin 1 .. Len(stack)
  BY <1>1, EmptySeq
<1>4. \A i \in 1 .. L : frozen[i].ch \in freeze /\ frozen[i].key = key[frozen[i].ch]
  BY <1>3 DEF Orderly, HasWalk, Live
<1>5. KeysGrow' /\ Ahead' <=> \A i \in 1 .. Len(frozen') : frozen'[i].key <= key[frozen'[i].ch]
  BY <1>1, <1>3, Zenon DEF KeysGrow, Ahead
<1>6. CASE c \in freeze
  <2>1. frozen' = Append(frozen, new) /\ cur' = {}
    BY <1>6 DEF Recv, Emit, Hold
  <2>2. new \in Node /\ new.ch = c /\ new.n = sent[c] + 1 /\ new.key = key[c]
    BY DEF Node, TransportTypeOK
  <2> HIDE DEF new
  <2>3. /\ L \in Nat /\ Len(frozen') = L + 1
        /\ \A k \in 1 .. L : frozen'[k] = frozen[k]
        /\ frozen'[L + 1] = new
    BY <2>1, <2>2, AppendProperties, Elements DEF TransportTypeOK
  <2>4. L + 1 \in 1 .. L + 1 /\ \A k \in 1 .. L + 1 : k \in 1 .. L \/ k = L + 1
    BY <2>3
  <2>5. \A i \in 1 .. L + 1 :
          frozen'[i].ch \in freeze /\ frozen'[i].key = key[frozen'[i].ch]
    BY <1>4, <1>6, <2>2, <2>3, <2>4
  <2>6. \A i \in 1 .. L :
          /\ frozen[i].ch \in Channels /\ frozen[i].n \in Nat
          /\ taken[frozen[i].ch] < frozen[i].n /\ frozen[i].n <= sent[frozen[i].ch]
    BY Elements DEF Orderly, Pending
  <2> HIDE DEF L
  <2>7. OneAtATime'
    BY <2>1 DEF OneAtATime
  <2>8. KeysGrow' /\ Ahead'
    <3>1. \A i \in 1 .. L + 1 : frozen'[i].ch \in Channels
      BY <2>2, <2>3, <2>4, <2>6
    <3>2. \A i \in 1 .. L + 1 : frozen'[i].key <= key[frozen'[i].ch]
      BY <2>5, <3>1 DEF TransportTypeOK
    <3> QED
      BY <1>5, <2>3, <3>2
  <2>9. HasWalk'
    BY <1>1, <2>3, <2>5 DEF HasWalk, Live
  <2>10. QueueOrder'
    <3>1. ASSUME NEW i \in 1 .. L + 1, NEW j \in 1 .. L + 1,
                 frozen'[i].ch = frozen'[j].ch
          PROVE  /\ frozen'[i].key = frozen'[j].key /\ frozen'[i].key \in Nat
                 /\ i < j => frozen'[i].n < frozen'[j].n
      <4>1. frozen'[i].key = frozen'[j].key /\ frozen'[i].key \in Nat
        BY <2>2, <2>3, <2>4, <2>5, <2>6, <3>1 DEF TransportTypeOK
      <4>2. ASSUME i < j  PROVE frozen'[i].n < frozen'[j].n
        <5>1. i \in 1 .. L
          BY <2>3, <4>2
        <5>2. CASE j \in 1 .. L
          BY <2>3, <3>1, <4>1, <4>2, <5>1, <5>2 DEF Orderly, QueueOrder, L
        <5>3. CASE j = L + 1
          BY <1>2, <2>2, <2>3, <2>6, <3>1, <5>1, <5>3
        <5> QED
          BY <2>4, <5>2, <5>3
      <4> QED
        BY <4>1, <4>2
    <3> QED
      BY <2>3, <3>1 DEF QueueOrder
  <2>11. Pending'
    <3>1. ASSUME NEW i \in 1 .. L + 1
          PROVE  /\ taken[frozen'[i].ch] < frozen'[i].n
                 /\ frozen'[i].n <= sent'[frozen'[i].ch]
      <4>1. CASE i \in 1 .. L
        BY <1>2, <2>3, <2>6, <4>1
      <4>2. CASE i = L + 1
        BY <1>1, <1>2, <2>2, <2>3, <4>2
      <4> QED
        BY <2>4, <4>1, <4>2
    <3>2. ASSUME NEW d \in Channels, NEW n \in 1 .. sent'[d], taken[d] < n
          PROVE  \E i \in 1 .. L + 1 : frozen'[i].ch = d /\ frozen'[i].n = n
      <4>1. CASE n \in 1 .. sent[d]
        <5>1. \E i \in 1 .. L : frozen[i].ch = d /\ frozen[i].n = n
          BY <1>1, <3>2, <4>1 DEF Orderly, Pending, L
        <5> QED
          BY <2>3, <5>1
      <4>2. CASE n \notin 1 .. sent[d]
        <5>1. d = c /\ n = sent[c] + 1
          BY <1>1, <1>2, <4>2
        <5> QED
          BY <2>2, <2>3, <2>4, <5>1
      <4> QED
        BY <4>1, <4>2
    <3>3. /\ taken' = taken /\ cur' = {} /\ Len(frozen') = L + 1
          /\ \A d \in Channels : taken[d] <= sent'[d]
      BY <1>1, <1>2, <2>1, <2>3
    <3> QED
      BY <3>1, <3>2, <3>3 DEF Pending
  <2> QED
    BY <2>7, <2>8, <2>9, <2>10, <2>11 DEF Orderly
<1>7. CASE c \notin freeze
  <2>1. frozen' = frozen /\ cur' = {m}
    BY <1>7 DEF Recv, Emit
  <2>2. m.ch = c /\ m.n = sent[c] + 1
    OBVIOUS
  <2>3. \A i \in 1 .. L : frozen[i].ch # c
    BY <1>4, <1>7
  <2> HIDE DEF m
  <2>4. OneAtATime'
    BY <1>1, <1>7, <2>1, <2>2 DEF OneAtATime
  <2>5. KeysGrow' /\ Ahead'
    BY <1>5, <2>1 DEF Orderly, KeysGrow
  <2>6. HasWalk' /\ QueueOrder'
    BY <1>1, <2>1 DEF Orderly, HasWalk, QueueOrder, Live
  <2>7. Pending'
    <3>1. \A i \in 1 .. L :
            taken[frozen[i].ch] < frozen[i].n /\ frozen[i].n <= sent'[frozen[i].ch]
      BY <1>1, <2>3, Elements DEF Orderly, Pending
    <3>2. taken[m.ch] < m.n /\ m.n <= sent'[m.ch]
      BY <1>1, <1>2, <2>2
    <3>3. ASSUME NEW d \in Channels, NEW n \in 1 .. sent'[d], taken[d] < n
          PROVE  \/ m.ch = d /\ m.n = n
                 \/ \E i \in 1 .. L : frozen[i].ch = d /\ frozen[i].n = n
      <4>1. CASE n \in 1 .. sent[d]
        BY <1>1, <3>3, <4>1 DEF Orderly, Pending
      <4>2. CASE n \notin 1 .. sent[d]
        BY <1>1, <1>2, <2>2, <4>2
      <4> QED
        BY <4>1, <4>2
    <3> QED
      BY <1>1, <1>2, <2>1, <2>2, <2>3, <3>1, <3>2, <3>3 DEF Pending
  <2> QED
    BY <2>4, <2>5, <2>6, <2>7 DEF Orderly
<1> QED
  BY <1>6, <1>7

\* A walk that has reached the end of the queue leaves no link of its own.
LEMMA FlushEndOrderly ==
  ASSUME TransportTypeOK, Orderly, FlushEnd
  PROVE  Orderly'
<1> DEFINE D == Len(stack)
<1>1. /\ stack # <<>> /\ stack' = Pop /\ UNCHANGED <<freeze, key, frozen, cur, sent, taken>>
  BY DEF FlushEnd, Walking
<1>2. /\ D \in Nat /\ D > 0 /\ Len(stack') = D - 1
      /\ \A a \in 1 .. D - 1 : stack'[a] = stack[a]
  BY <1>1, PopProperties DEF TransportTypeOK
<1>3. /\ D \in 1 .. D
      /\ \A a \in 1 .. D - 1 : a \in 1 .. D
      /\ \A a \in 1 .. D : a \in 1 .. D - 1 \/ a = D
  BY <1>2
<1>4. ASSUME NEW i \in 1 .. Len(frozen)
      PROVE  ~(stack[D].ch = frozen[i].ch /\ stack[D].key = frozen[i].key)
  <2>1. SUFFICES ASSUME stack[D].ch = frozen[i].ch, stack[D].key = frozen[i].key
                 PROVE  FALSE
    OBVIOUS
  <2>2. /\ stack[D].next # {}
        /\ \A j \in 1 .. Len(frozen) : frozen[j] \in stack[D].next => j <= i
    BY <1>3, <2>1 DEF Orderly, Ahead
  <2>3. PICK j \in 1 .. Len(frozen) :
          /\ frozen[j] \in stack[D].next
          /\ \A k \in j .. Len(frozen) :
               ~(frozen[k].ch = stack[D].ch /\ frozen[k].key = stack[D].key)
    BY <2>2 DEF FlushEnd, Top, Belongs
  <2>4. i \in j .. Len(frozen)
    BY <2>2, <2>3, Elements
  <2> QED
    BY <2>1, <2>3, <2>4
<1> HIDE DEF D
<1>5. OneAtATime' /\ QueueOrder' /\ Pending'
  BY <1>1 DEF Orderly, OneAtATime, QueueOrder, Pending
<1>6. KeysGrow'
  <2>1. \A a \in 1 .. D - 1 :
          /\ stack'[a].key <= key[stack'[a].ch]
          /\ ~(stack'[a].ch \in freeze /\ stack'[a].key = key[stack'[a].ch])
    BY <1>2, <1>3 DEF Orderly, KeysGrow, Live, D
  <2>2. \A a, b \in 1 .. D - 1 :
          a < b /\ stack'[a].ch = stack'[b].ch => stack'[a].key < stack'[b].key
    BY <1>2, <1>3 DEF Orderly, KeysGrow, D
  <2> QED
    BY <1>1, <1>2, <2>1, <2>2 DEF Orderly, KeysGrow, Live
<1>7. HasWalk'
  <2>1. ASSUME NEW i \in 1 .. Len(frozen), ~Live(frozen[i])
        PROVE  \E a \in 1 .. D - 1 :
                 stack'[a].ch = frozen[i].ch /\ stack'[a].key = frozen[i].key
    <3>1. PICK a \in 1 .. D : stack[a].ch = frozen[i].ch /\ stack[a].key = frozen[i].key
      BY <2>1 DEF Orderly, HasWalk, D
    <3>2. a \in 1 .. D - 1
      BY <1>3, <1>4, <3>1
    <3> QED
      BY <1>2, <3>1, <3>2
  <2> QED
    BY <1>1, <1>2, <2>1 DEF HasWalk, Live
<1>8. Ahead'
  <2>1. ASSUME NEW a \in 1 .. D - 1
        PROVE  /\ stack'[a] = stack[a]
               /\ \A x, y \in stack[a].next : x = y
               /\ \A x \in stack[a].next :
                    /\ x.key <= key[x.ch]
                    /\ Live(x) => \E j \in 1 .. Len(frozen) : frozen[j] = x
               /\ \A i \in 1 .. Len(frozen) :
                    stack[a].ch = frozen[i].ch /\ stack[a].key = frozen[i].key =>
                      /\ stack[a].next # {}
                      /\ \A j \in 1 .. Len(frozen) : frozen[j] \in stack[a].next => j <= i
    <3>1. a \in 1 .. Len(stack) /\ stack'[a] = stack[a]
      BY <1>2, <1>3 DEF D
    <3> QED
      BY <3>1, Zenon DEF Orderly, Ahead
  <2> QED
    BY <1>1, <1>2, <2>1 DEF Ahead, Live
<1> QED
  BY <1>5, <1>6, <1>7, <1>8 DEF Orderly

\* The link a walk emits is the first of its own.  Of the channel's other
\* links the live ones, which wait for a later thaw, hold earlier messages,
\* and all the rest later ones.
LEMMA FlushFacts ==
  ASSUME TransportTypeOK, Orderly, Walking,
         NEW i \in 1 .. Len(frozen), NEW j \in 1 .. i, Reaches(j, i)
  PROVE  /\ Len(stack) \in 1 .. Len(stack)
         /\ stack[Len(stack)].ch = frozen[i].ch /\ stack[Len(stack)].key = frozen[i].key
         /\ ~Live(frozen[i])
         /\ \A k \in 1 .. Len(frozen) :
              frozen[k].ch = frozen[i].ch /\ k # i =>
                /\ Live(frozen[k]) => frozen[k].n < frozen[i].n
                /\ ~Live(frozen[k]) => frozen[i].n < frozen[k].n
                /\ frozen[k].key = frozen[i].key => i < k
<1> DEFINE D == Len(stack)
           L == Len(frozen)
<1>1. D \in 1 .. D /\ D \in Nat /\ L \in Nat
  BY PopProperties, Elements DEF Walking, TransportTypeOK
<1>2. /\ stack[D].ch = frozen[i].ch /\ stack[D].key = frozen[i].key
      /\ frozen[j] \in stack[D].next
      /\ \A k \in j .. i - 1 :
           ~(frozen[k].ch = stack[D].ch /\ frozen[k].key = stack[D].key)
  BY DEF Reaches, Belongs, Top
<1>3. ~Live(frozen[i])
  BY <1>1, <1>2 DEF Orderly, KeysGrow, Live
<1>4. \A k \in 1 .. L : /\ frozen[k].ch \in Channels /\ frozen[k].n \in Nat
                         /\ frozen[k].key \in Nat /\ key[frozen[k].ch] \in Nat
                         /\ frozen[k].key <= key[frozen[k].ch]
  BY Elements DEF Orderly, KeysGrow, TransportTypeOK
<1>5. \A a \in 1 .. D : stack[a].key \in Nat
  BY Elements
<1>6. ASSUME NEW k \in 1 .. L, frozen[k].ch = frozen[i].ch, k # i,
             frozen[k].key = frozen[i].key
      PROVE  i < k
  <2>1. j <= k
    <3>1. j \in 1 .. L
      BY <1>1
    <3> QED
      BY <1>1, <1>2, <1>6, <3>1 DEF Orderly, Ahead
  <2>2. k \notin j .. i - 1
    BY <1>2, <1>6
  <2> QED
    BY <1>1, <1>6, <2>1, <2>2
<1>7. ASSUME NEW k \in 1 .. L, frozen[k].ch = frozen[i].ch, Live(frozen[k])
      PROVE  frozen[k].n < frozen[i].n
  <2>1. frozen[k].key > frozen[i].key
    BY <1>3, <1>4, <1>7 DEF Live
  <2> QED
    BY <1>7, <2>1 DEF Orderly, QueueOrder
<1>8. ASSUME NEW k \in 1 .. L, frozen[k].ch = frozen[i].ch, k # i, ~Live(frozen[k])
      PROVE  frozen[i].n < frozen[k].n
  <2>1. PICK a \in 1 .. D : stack[a].ch = frozen[k].ch /\ stack[a].key = frozen[k].key
    BY <1>8 DEF Orderly, HasWalk
  <2>2. CASE a = D
    <3>1. frozen[k].key = frozen[i].key
      BY <1>2, <2>1, <2>2
    <3>2. i < k
      BY <1>6, <1>8, <3>1
    <3> QED
      BY <1>8, <3>1, <3>2 DEF Orderly, QueueOrder
  <2>3. CASE a # D
    <3>1. a < D
      BY <1>1, <2>3
    <3>2. stack[a].ch = stack[D].ch
      BY <1>2, <1>8, <2>1
    <3>3. stack[a].key < stack[D].key
      BY <1>1, <3>1, <3>2 DEF Orderly, KeysGrow
    <3>4. frozen[i].key > frozen[k].key
      BY <1>1, <1>2, <1>4, <1>5, <2>1, <3>3
    <3> QED
      BY <1>8, <3>4 DEF Orderly, QueueOrder
  <2> QED
    BY <2>2, <2>3
<1> QED
  BY <1>1, <1>2, <1>3, <1>6, <1>7, <1>8

\* What holds of q, the queue without the link that a walk emits, before the
\* message is held again or handled: the rest keeps its order, and its walks.
RestOrderly(q, M, i) ==
  /\ M \in Nat /\ q \in Seq(Node) /\ Len(q) = M
  /\ \A k \in 1 .. M : \E o \in 1 .. Len(frozen) : o # i /\ q[k] = frozen[o]
  /\ \A o \in 1 .. Len(frozen) : o # i => \E k \in 1 .. M : q[k] = frozen[o]
  /\ \A k, l \in 1 .. M :
       q[k].ch = q[l].ch =>
         /\ q[k].key > q[l].key => q[k].n < q[l].n
         /\ q[k].key = q[l].key /\ k < l => q[k].n < q[l].n
  /\ Len(stack') = Len(stack)
  /\ \A a \in 1 .. Len(stack) :
       /\ stack'[a].ch = stack[a].ch /\ stack'[a].key = stack[a].key
       /\ \A x, y \in stack'[a].next : x = y
       /\ \A x \in stack'[a].next :
            /\ x \in Node /\ x.key <= key[x.ch]
            /\ Live(x) => \E l \in 1 .. M : q[l] = x
       /\ \A k \in 1 .. M :
            stack[a].ch = q[k].ch /\ stack[a].key = q[k].key =>
              /\ stack'[a].next # {}
              /\ \A l \in 1 .. M : q[l] \in stack'[a].next => l <= k

\* Taking the emitted link out of the queue, with the walk's pointer moved
\* past it, keeps the order of the rest.
LEMMA DeleteOrderly ==
  ASSUME TransportTypeOK, Orderly, Walking,
         NEW i \in 1 .. Len(frozen), NEW j \in 1 .. i, Reaches(j, i),
         stack' = Advance(i)
  PROVE  RestOrderly(DeleteLink(frozen, i), Len(frozen) - 1, i)
<1>0. PICK q, M : q = DeleteLink(frozen, i) /\ M = Len(frozen) - 1
  OBVIOUS
<1> SUFFICES RestOrderly(q, M, i)
  BY <1>0
<1> DEFINE L == Len(frozen)
           D == Len(stack)
           O(k) == IF k < i THEN k ELSE k + 1
<1>1. L \in Nat /\ D \in Nat /\ D \in 1 .. D /\ M \in Nat /\ i \in 1 .. L /\ M = L - 1
  BY <1>0, Elements, FlushFacts
<1>2. q \in Seq(Node) /\ Len(q) = M /\ \A k \in 1 .. M : q[k] = frozen[O(k)]
  BY <1>0, DeleteLinkProperties, Zenon DEF TransportTypeOK
<1>3. \A k \in 1 .. M : O(k) \in 1 .. L /\ O(k) # i
  BY <1>1
<1>4. \A k, l \in 1 .. M : (k < l <=> O(k) < O(l)) /\ (k <= l <=> O(k) <= O(l))
  BY <1>1
<1>5. ASSUME NEW o \in 1 .. L, o # i  PROVE \E k \in 1 .. M : q[k] = frozen[o] /\ O(k) = o
  <2>1. CASE o < i
    BY <1>1, <1>2, <2>1
  <2>2. CASE ~(o < i)
    <3>1. o - 1 \in 1 .. M /\ O(o - 1) = o
      BY <1>1, <1>5, <2>2
    <3> QED
      BY <1>2, <3>1
  <2> QED
    BY <2>1, <2>2
<1> HIDE DEF O, L, D
<1>6. \A k \in 1 .. M : \E o \in 1 .. L : o # i /\ q[k] = frozen[o]
  BY <1>2, <1>3
<1>7. ASSUME NEW k \in 1 .. M, NEW l \in 1 .. M, q[k].ch = q[l].ch
      PROVE  /\ q[k].key > q[l].key => q[k].n < q[l].n
             /\ q[k].key = q[l].key /\ k < l => q[k].n < q[l].n
  <2>1. /\ O(k) \in 1 .. L /\ O(l) \in 1 .. L
        /\ q[k] = frozen[O(k)] /\ q[l] = frozen[O(l)] /\ (k < l => O(k) < O(l))
    BY <1>2, <1>3, <1>4
  <2> QED
    BY <1>7, <2>1 DEF Orderly, QueueOrder, L
<1>8. /\ Len(stack') = D
      /\ \A a \in 1 .. D : a # D => stack'[a] = stack[a]
      /\ stack'[D].ch = stack[D].ch /\ stack'[D].key = stack[D].key
      /\ stack'[D].next = IF i < L THEN {frozen[i + 1]} ELSE {}
  <2>1. stack[D] \in Flush
    BY <1>1, ElementOfSeq DEF D, TransportTypeOK
  <2> DEFINE nx == IF i < L THEN {frozen[i + 1]} ELSE {}
             w == [stack[D] EXCEPT !.next = nx]
  <2>2. nx \in SUBSET Node
    BY <1>1, Elements DEF L
  <2>3. stack' = [stack EXCEPT ![D] = w]
    BY DEF D, L, Advance
  <2> HIDE DEF nx
  <2>4. w \in Flush /\ w.ch = stack[D].ch /\ w.key = stack[D].key /\ w.next = nx
    BY <2>1, <2>2 DEF Flush
  <2> HIDE DEF w
  <2>5. /\ Len(stack') = D
        /\ \A a \in 1 .. D : stack'[a] = IF a = D THEN w ELSE stack[a]
    <3>1. stack \in Seq(Flush) /\ D \in 1 .. Len(stack) /\ D = Len(stack)
      BY <1>1 DEF D, TransportTypeOK
    <3>2. /\ Len([stack EXCEPT ![D] = w]) = Len(stack)
          /\ \A a \in 1 .. Len(stack) :
               [stack EXCEPT ![D] = w][a] = IF a = D THEN w ELSE stack[a]
      BY <2>4, <3>1, ExceptSeq
    <3> QED
      BY <2>3, <3>1, <3>2, Zenon
  <2> QED
    BY <1>1, <2>4, <2>5 DEF nx
<1>9. ASSUME NEW a \in 1 .. D, a # D
      PROVE  /\ stack'[a].ch = stack[a].ch /\ stack'[a].key = stack[a].key
             /\ \A x, y \in stack'[a].next : x = y
             /\ \A x \in stack'[a].next :
                  /\ x \in Node /\ x.key <= key[x.ch]
                  /\ Live(x) => \E l \in 1 .. M : q[l] = x
             /\ \A k \in 1 .. M :
                  stack[a].ch = q[k].ch /\ stack[a].key = q[k].key =>
                    /\ stack'[a].next # {}
                    /\ \A l \in 1 .. M : q[l] \in stack'[a].next => l <= k
  <2>1. stack'[a] = stack[a]
    BY <1>8, <1>9
  <2>2. \A x, y \in stack[a].next : x = y
    BY DEF Orderly, Ahead, D
  <2>3. ASSUME NEW x \in stack[a].next
        PROVE  /\ x \in Node /\ x.key <= key[x.ch]
               /\ Live(x) => \E l \in 1 .. M : q[l] = x
    <3>1. x \in Node /\ x.key <= key[x.ch]
      BY Elements DEF Orderly, Ahead, D
    <3>2. ASSUME Live(x)  PROVE \E l \in 1 .. M : q[l] = x
      <4>1. PICK o \in 1 .. L : frozen[o] = x
        BY <3>2 DEF Orderly, Ahead, D, L
      <4>2. o # i
        BY <3>2, <4>1, FlushFacts
      <4> QED
        BY <1>5, <4>1, <4>2
    <3> QED
      BY <3>1, <3>2
  <2>4. ASSUME NEW k \in 1 .. M, stack[a].ch = q[k].ch, stack[a].key = q[k].key
        PROVE  /\ stack[a].next # {}
               /\ \A l \in 1 .. M : q[l] \in stack[a].next => l <= k
    <3>1. stack[a].ch = frozen[O(k)].ch /\ stack[a].key = frozen[O(k)].key
      BY <1>2, <2>4
    <3>2. /\ stack[a].next # {}
          /\ \A o \in 1 .. L : frozen[o] \in stack[a].next => o <= O(k)
      BY <1>3, <3>1 DEF Orderly, Ahead, D, L
    <3> QED
      BY <1>2, <1>3, <1>4, <3>2
  <2> QED
    BY <2>1, <2>2, <2>3, <2>4
<1>10. /\ \A x, y \in stack'[D].next : x = y
       /\ \A x \in stack'[D].next :
            /\ x \in Node /\ x.key <= key[x.ch]
            /\ Live(x) => \E l \in 1 .. M : q[l] = x
       /\ \A k \in 1 .. M :
            stack[D].ch = q[k].ch /\ stack[D].key = q[k].key =>
              /\ stack'[D].next # {}
              /\ \A l \in 1 .. M : q[l] \in stack'[D].next => l <= k
  <2>1. \A x, y \in stack'[D].next : x = y
    BY <1>8
  <2>2. ASSUME NEW x \in stack'[D].next
        PROVE  x \in Node /\ x.key <= key[x.ch] /\ \E l \in 1 .. M : q[l] = x
    <3>1. i + 1 \in 1 .. L /\ i + 1 # i /\ x = frozen[i + 1]
      BY <1>1, <1>8, <2>2
    <3> QED
      BY <1>5, <3>1, Elements DEF Orderly, KeysGrow, L
  <2>3. ASSUME NEW k \in 1 .. M, stack[D].ch = q[k].ch, stack[D].key = q[k].key
        PROVE  /\ stack'[D].next # {}
               /\ \A l \in 1 .. M : q[l] \in stack'[D].next => l <= k
    <3>1. i < O(k)
      <4>1. /\ frozen[O(k)].ch = frozen[i].ch /\ frozen[O(k)].key = frozen[i].key
            /\ O(k) \in 1 .. L /\ O(k) # i
        BY <1>2, <1>3, <2>3, FlushFacts DEF D
      <4> QED
        BY <4>1, FlushFacts DEF L
    <3>2. i < L /\ i + 1 \in 1 .. L /\ stack'[D].next = {frozen[i + 1]}
      BY <1>1, <1>3, <1>8, <3>1
    <3>3. ASSUME NEW l \in 1 .. M, q[l] \in stack'[D].next  PROVE l <= k
      <4>1. frozen[O(l)] = frozen[i + 1] /\ O(l) \in 1 .. L
        BY <1>2, <1>3, <3>2, <3>3
      <4>2. O(l) = i + 1
        BY <3>2, <4>1, Distinct DEF Orderly, L
      <4>3. O(l) <= O(k)
        BY <1>1, <1>3, <3>1, <4>2
      <4> QED
        BY <1>4, <4>3
    <3> QED
      BY <3>2, <3>3
  <2> QED
    BY <2>1, <2>2, <2>3
<1>11. ASSUME NEW a \in 1 .. D
       PROVE  /\ stack'[a].ch = stack[a].ch /\ stack'[a].key = stack[a].key
              /\ \A x, y \in stack'[a].next : x = y
              /\ \A x \in stack'[a].next :
                   /\ x \in Node /\ x.key <= key[x.ch]
                   /\ Live(x) => \E l \in 1 .. M : q[l] = x
              /\ \A k \in 1 .. M :
                   stack[a].ch = q[k].ch /\ stack[a].key = q[k].key =>
                     /\ stack'[a].next # {}
                     /\ \A l \in 1 .. M : q[l] \in stack'[a].next => l <= k
  <2>1. CASE a # D
    BY <1>9, <2>1, Zenon
  <2>2. CASE a = D
    BY <1>8, <1>10, <2>2
  <2> QED
    BY <2>1, <2>2, Zenon
<1>12. \A o \in 1 .. L : o # i => \E k \in 1 .. M : q[k] = frozen[o]
  BY <1>5
<1> QED
  BY <1>1, <1>2, <1>6, <1>7, <1>8, <1>11, <1>12, Zenon DEF L, D, RestOrderly

\* A walk emits its next message, which is handled or, if the channel was
\* frozen again meanwhile, held behind the live links.
LEMMA FlushNextOrderly ==
  ASSUME TransportTypeOK, Orderly, FlushNext
  PROVE  Orderly'
<1>1. Walking /\ UNCHANGED <<freeze, key, sent, taken>>
  BY DEF FlushNext
<1>2. PICK i \in 1 .. Len(frozen) :
        /\ \E j \in 1 .. i : Reaches(j, i)
        /\ stack' = Advance(i)
        /\ Emit(DeleteLink(frozen, i), [ch |-> frozen[i].ch, n |-> frozen[i].n])
  BY DEF FlushNext
<1>3. PICK j \in 1 .. i : Reaches(j, i)
  BY <1>2
<1> DEFINE L == Len(frozen)
           D == Len(stack)
           x == frozen[i]
           m == [ch |-> x.ch, n |-> x.n]
<1>q. PICK q, M : q = DeleteLink(frozen, i) /\ M = Len(frozen) - 1
  OBVIOUS
<1>rest. RestOrderly(q, M, i)
  BY <1>1, <1>2, <1>3, <1>q, DeleteOrderly
<1>4. /\ M \in Nat /\ q \in Seq(Node) /\ Len(q) = M
      /\ \A k \in 1 .. M : \E o \in 1 .. L : o # i /\ q[k] = frozen[o]
      /\ \A o \in 1 .. L : o # i => \E k \in 1 .. M : q[k] = frozen[o]
  BY <1>rest DEF RestOrderly
<1>5. \A k, l \in 1 .. M :
        q[k].ch = q[l].ch =>
          /\ q[k].key > q[l].key => q[k].n < q[l].n
          /\ q[k].key = q[l].key /\ k < l => q[k].n < q[l].n
  BY <1>rest DEF RestOrderly
<1>6. /\ Len(stack') = D
      /\ \A a \in 1 .. D :
           /\ stack'[a].ch = stack[a].ch /\ stack'[a].key = stack[a].key
           /\ \A y, z \in stack'[a].next : y = z
           /\ \A y \in stack'[a].next :
                /\ y \in Node /\ y.key <= key[y.ch]
                /\ Live(y) => \E l \in 1 .. M : q[l] = y
           /\ \A k \in 1 .. M :
                stack[a].ch = q[k].ch /\ stack[a].key = q[k].key =>
                  /\ stack'[a].next # {}
                  /\ \A l \in 1 .. M : q[l] \in stack'[a].next => l <= k
  BY <1>rest, Zenon DEF RestOrderly
<1>7. /\ ~Live(x)
      /\ \A k \in 1 .. L :
           frozen[k].ch = x.ch /\ k # i =>
             /\ Live(frozen[k]) => frozen[k].n < x.n
             /\ ~Live(frozen[k]) => x.n < frozen[k].n
  BY <1>1, <1>3, FlushFacts, Zenon
<1>len. L = Len(frozen) /\ D = Len(stack)
  OBVIOUS
<1> HIDE DEF L, D
<1>8. /\ x.ch \in Channels /\ x.n \in Nat /\ x.key \in Nat
      /\ key[x.ch] \in Nat /\ x.key <= key[x.ch]
      /\ taken[x.ch] < x.n /\ x.n <= sent[x.ch]
  BY Elements DEF Orderly, KeysGrow, Pending, TransportTypeOK
<1>9. cur = {} /\ freeze' = freeze /\ key' = key /\ sent' = sent /\ taken' = taken
  BY <1>1 DEF Walking
<1>10. \A k \in 1 .. M :
         /\ q[k].ch \in Channels /\ q[k].n \in Nat /\ q[k].key \in Nat
         /\ q[k].key <= key[q[k].ch]
         /\ taken[q[k].ch] < q[k].n /\ q[k].n <= sent[q[k].ch]
         /\ Live(q[k]) \/ \E a \in 1 .. D : stack[a].ch = q[k].ch /\ stack[a].key = q[k].key
         /\ q[k].ch = x.ch => /\ Live(q[k]) => q[k].n < x.n
                              /\ ~Live(q[k]) => x.n < q[k].n
  <2>1. ASSUME NEW k \in 1 .. M, NEW o \in 1 .. L, o # i, q[k] = frozen[o]
        PROVE  /\ q[k].ch \in Channels /\ q[k].n \in Nat /\ q[k].key \in Nat
               /\ q[k].key <= key[q[k].ch]
               /\ taken[q[k].ch] < q[k].n /\ q[k].n <= sent[q[k].ch]
               /\ \/ Live(q[k])
                  \/ \E a \in 1 .. D : stack[a].ch = q[k].ch /\ stack[a].key = q[k].key
               /\ q[k].ch = x.ch => /\ Live(q[k]) => q[k].n < x.n
                                    /\ ~Live(q[k]) => x.n < q[k].n
    <3>1. /\ frozen[o].ch \in Channels /\ frozen[o].n \in Nat /\ frozen[o].key \in Nat
      BY <1>len, Elements
    <3>2. /\ frozen[o].key <= key[frozen[o].ch]
          /\ taken[frozen[o].ch] < frozen[o].n /\ frozen[o].n <= sent[frozen[o].ch]
          /\ \/ Live(frozen[o])
             \/ \E a \in 1 .. D : stack[a].ch = frozen[o].ch /\ stack[a].key = frozen[o].key
      BY <1>len DEF Orderly, KeysGrow, Pending, HasWalk
    <3> HIDE DEF x
    <3> QED
      BY <1>7, <2>1, <3>1, <3>2 DEF Live
  <2> HIDE DEF x
  <2> QED
    BY <1>4, <2>1
<1>11. ASSUME NEW c \in Channels, NEW n \in 1 .. sent[c], taken[c] < n
       PROVE  (x.ch = c /\ x.n = n) \/ \E k \in 1 .. M : q[k].ch = c /\ q[k].n = n
  <2>1. PICK o \in 1 .. L : frozen[o].ch = c /\ frozen[o].n = n
    BY <1>9, <1>11, <1>len DEF Orderly, Pending
  <2> QED
    BY <1>4, <2>1
<1>12. \A a \in 1 .. D :
         /\ stack[a].key <= key[stack[a].ch]
         /\ ~(stack[a].ch \in freeze /\ stack[a].key = key[stack[a].ch])
         /\ \A b \in 1 .. D :
              a < b /\ stack[a].ch = stack[b].ch => stack[a].key < stack[b].key
  BY <1>len DEF Orderly, KeysGrow, Live
<1>13. \A c \in Channels : taken[c] <= sent[c]
  BY DEF Orderly, Pending
<1>14. m.ch = x.ch /\ m.n = x.n /\ Emit(q, m)
  BY <1>2, <1>q
<1> HIDE DEF x, m
<1>15. CASE x.ch \notin freeze
  <2>1. frozen' = q /\ cur' = {m}
    BY <1>14, <1>15 DEF Emit
  <2>2. Len(frozen') = M
    BY <1>4, <2>1
  <2>3. OneAtATime'
    BY <1>9, <1>14, <1>15, <2>1 DEF OneAtATime
  <2>4. KeysGrow'
    <3>1. \A k \in 1 .. M : frozen'[k].key <= key[frozen'[k].ch]
      BY <1>10, <2>1
    <3>2. \A a \in 1 .. D : stack'[a].ch = stack[a].ch /\ stack'[a].key = stack[a].key
      BY <1>6
    <3>3. Len(stack') = D
      BY <1>6
    <3> QED
      BY <1>9, <1>12, <2>2, <3>1, <3>2, <3>3 DEF KeysGrow, Live
  <2>5. HasWalk'
    BY <1>6, <1>9, <1>10, <2>1, <2>2 DEF HasWalk, Live
  <2>6. QueueOrder'
    BY <1>5, <2>1, <2>2 DEF QueueOrder
  <2>7. Ahead'
    BY <1>6, <1>9, <2>1, <2>2 DEF Ahead, Live
  <2>8. Pending'
    <3>1. \A k \in 1 .. M : q[k].ch = x.ch => x.n < q[k].n
      BY <1>10, <1>15 DEF Live
    <3> QED
      BY <1>8, <1>9, <1>10, <1>11, <1>13, <1>14, <2>1, <2>2, <3>1 DEF Pending
  <2> QED
    BY <2>3, <2>4, <2>5, <2>6, <2>7, <2>8 DEF Orderly
<1>16. CASE x.ch \in freeze
  <2> DEFINE new == [ch |-> x.ch, n |-> x.n, key |-> key[x.ch]]
  <2>1. frozen' = Append(q, new) /\ cur' = {}
    BY <1>14, <1>16 DEF Emit, Hold
  <2>2. /\ new \in Node /\ new.ch = x.ch /\ new.n = x.n /\ new.key = key[x.ch]
        /\ Live(new)
    BY <1>8, <1>16 DEF Node, Live
  <2> HIDE DEF new
  <2>3. /\ Len(frozen') = M + 1
        /\ \A k \in 1 .. M : frozen'[k] = q[k]
        /\ frozen'[M + 1] = new
    <3>1. q \in Seq(Node) /\ new \in Node /\ Len(q) = M
      BY <1>4, <2>2
    <3>2. /\ Len(Append(q, new)) = Len(q) + 1
          /\ \A k \in 1 .. Len(q) : Append(q, new)[k] = q[k]
          /\ Append(q, new)[Len(q) + 1] = new
      BY <3>1, AppendProperties
    <3> QED
      BY <2>1, <3>1, <3>2
  <2>4. M + 1 \in 1 .. M + 1 /\ \A k \in 1 .. M + 1 : k \in 1 .. M \/ k = M + 1
    BY <1>4
  <2>5. ASSUME NEW a \in 1 .. D  PROVE new \notin stack'[a].next
    BY <1>6, <1>8, <1>10, <2>2
  <2>6. OneAtATime'
    BY <2>1 DEF OneAtATime
  <2>7. KeysGrow'
    <3>1. \A k \in 1 .. M + 1 : frozen'[k].key <= key[frozen'[k].ch]
      BY <1>8, <1>10, <2>2, <2>3, <2>4
    <3>2. \A a \in 1 .. D : stack'[a].ch = stack[a].ch /\ stack'[a].key = stack[a].key
      BY <1>6
    <3>3. Len(stack') = D
      BY <1>6
    <3> QED
      BY <1>9, <1>12, <2>3, <3>1, <3>2, <3>3 DEF KeysGrow, Live
  <2>8. HasWalk'
    <3>1. \A k \in 1 .. M + 1 :
            \/ frozen'[k].ch \in freeze /\ frozen'[k].key = key[frozen'[k].ch]
            \/ \E a \in 1 .. D :
                 stack'[a].ch = frozen'[k].ch /\ stack'[a].key = frozen'[k].key
      <4>1. ASSUME NEW k \in 1 .. M, ~Live(q[k])
            PROVE  \E a \in 1 .. D : stack'[a].ch = q[k].ch /\ stack'[a].key = q[k].key
        <5>1. PICK a \in 1 .. D : stack[a].ch = q[k].ch /\ stack[a].key = q[k].key
          BY <1>10, <4>1
        <5>2. stack'[a].ch = stack[a].ch /\ stack'[a].key = stack[a].key
          BY <1>6
        <5> QED
          BY <5>1, <5>2
      <4> QED
        BY <2>2, <2>3, <2>4, <4>1 DEF Live
    <3>2. Len(stack') = D
      BY <1>6
    <3> QED
      BY <1>9, <2>3, <3>1, <3>2 DEF HasWalk, Live
  <2>9. QueueOrder'
    <3>1. ASSUME NEW k \in 1 .. M + 1, NEW l \in 1 .. M + 1,
                 frozen'[k].ch = frozen'[l].ch
          PROVE  /\ frozen'[k].key > frozen'[l].key => frozen'[k].n < frozen'[l].n
                 /\ frozen'[k].key = frozen'[l].key /\ k < l =>
                      frozen'[k].n < frozen'[l].n
      <4>1. CASE k \in 1 .. M /\ l \in 1 .. M
        BY <1>5, <2>3, <3>1, <4>1
      <4>2. CASE k = M + 1 /\ l \in 1 .. M
        <5>0. ~(k < l)
          BY <1>4, <4>2
        <5>1. frozen'[k] = new /\ frozen'[l] = q[l] /\ q[l].ch = x.ch
          BY <2>2, <2>3, <3>1, <4>2
        <5>2. ASSUME new.key > q[l].key  PROVE new.n < q[l].n
          <6>1. ~Live(q[l])
            BY <1>8, <1>10, <2>2, <4>2, <5>1, <5>2 DEF Live
          <6> QED
            BY <1>10, <2>2, <4>2, <5>1, <6>1
        <5> QED
          BY <5>0, <5>1, <5>2
      <4>3. CASE k \in 1 .. M /\ l = M + 1
        <5>1. frozen'[k] = q[k] /\ frozen'[l] = new /\ q[k].ch = x.ch
          BY <2>2, <2>3, <3>1, <4>3
        <5>2. q[k].key \in Nat /\ q[k].key <= new.key /\ new.key \in Nat
          BY <1>8, <1>10, <2>2, <4>3, <5>1
        <5>3. ASSUME q[k].key = new.key  PROVE q[k].n < new.n
          <6>1. Live(q[k])
            BY <1>16, <2>2, <5>1, <5>3 DEF Live
          <6> QED
            BY <1>10, <2>2, <4>3, <5>1, <6>1
        <5> QED
          BY <5>1, <5>2, <5>3
      <4>4. CASE k = M + 1 /\ l = M + 1
        BY <1>4, <1>8, <2>2, <2>3, <4>4
      <4> QED
        BY <2>4, <4>1, <4>2, <4>3, <4>4
    <3> QED
      BY <2>3, <3>1 DEF QueueOrder
  <2>10. Ahead'
    <3>1. ASSUME NEW a \in 1 .. D, NEW y \in stack'[a].next
          PROVE  /\ y.key <= key[y.ch]
                 /\ Live(y) => \E l \in 1 .. M + 1 : frozen'[l] = y
      <4>1. Live(y) => \E l \in 1 .. M : q[l] = y
        BY <1>6
      <4>2. \A l \in 1 .. M : l \in 1 .. M + 1 /\ frozen'[l] = q[l]
        BY <1>4, <2>3
      <4> QED
        BY <1>6, <4>1, <4>2
    <3>2. ASSUME NEW a \in 1 .. D, NEW k \in 1 .. M + 1,
                 stack'[a].ch = frozen'[k].ch, stack'[a].key = frozen'[k].key
          PROVE  /\ stack'[a].next # {}
                 /\ \A l \in 1 .. M + 1 : frozen'[l] \in stack'[a].next => l <= k
      <4>1. k \in 1 .. M
        BY <1>6, <1>12, <1>16, <2>2, <2>3, <2>4, <3>2
      <4>2. \A l \in 1 .. M + 1 : frozen'[l] \in stack'[a].next => l \in 1 .. M
        BY <2>3, <2>4, <2>5
      <4> QED
        BY <1>6, <2>3, <3>2, <4>1, <4>2
    <3> QED
      BY <1>6, <1>9, <2>3, <3>1, <3>2 DEF Ahead, Live
  <2>11. Pending'
    <3>1. \A k \in 1 .. M + 1 :
            taken[frozen'[k].ch] < frozen'[k].n /\ frozen'[k].n <= sent[frozen'[k].ch]
      BY <1>8, <1>10, <2>2, <2>3, <2>4
    <3>2. ASSUME NEW c \in Channels, NEW n \in 1 .. sent[c], taken[c] < n
          PROVE  \E k \in 1 .. M + 1 : frozen'[k].ch = c /\ frozen'[k].n = n
      <4>1. \A k \in 1 .. M : k \in 1 .. M + 1 /\ frozen'[k] = q[k]
        BY <1>4, <2>3
      <4>2. CASE x.ch = c /\ x.n = n
        BY <2>2, <2>3, <2>4, <4>2
      <4>3. CASE \E k \in 1 .. M : q[k].ch = c /\ q[k].n = n
        BY <4>1, <4>3
      <4> QED
        BY <1>11, <3>2, <4>2, <4>3
    <3> QED
      BY <1>9, <1>13, <2>1, <2>3, <3>1, <3>2 DEF Pending
  <2> QED
    BY <2>6, <2>7, <2>8, <2>9, <2>10, <2>11 DEF Orderly
<1> QED
  BY <1>15, <1>16

-----------------------------------------------------------------------------
(* The theorems. *)

\* The invariant is inductive: every step keeps it.
LEMMA NextInv ==
  ASSUME TransportInv, [TransportNext]_tvars
  PROVE  TransportInv'
<1>1. TransportTypeOK /\ TransportTypeOK'
  BY NextType DEF TransportInv
<1>2. ASSUME ~dangled'  PROVE Orderly'
  <2>1. CASE FlushDangling
    BY <1>2, <2>1 DEF FlushDangling
  <2>2. CASE ~FlushDangling
    <3>1. ~dangled
      BY <1>2, <2>2 DEF TransportNext, Recv, Thaw, Take, TakeAndFreeze, PutBack,
                        FlushNext, FlushEnd, Close, tvars
    <3>2. Orderly
      BY <3>1 DEF TransportInv
    <3>3. CASE Close \/ UNCHANGED tvars
      <4>1. /\ freeze' = freeze /\ key' = key /\ frozen' = frozen /\ stack' = stack
            /\ cur' = cur /\ sent' = sent /\ taken' = taken
        BY <3>3 DEF Close, tvars
      <4>2. OneAtATime' /\ HasWalk'
        BY <3>2, <4>1 DEF Orderly, OneAtATime, HasWalk, Live
      <4>3. QueueOrder'
        BY <3>2, <4>1 DEF Orderly, QueueOrder
      <4>4. Pending'
        BY <3>2, <4>1 DEF Orderly, Pending
      <4>5. KeysGrow' /\ Ahead'
        BY <3>2, <4>1 DEF Orderly, KeysGrow, Ahead, Live
      <4> QED
        BY <4>2, <4>3, <4>4, <4>5 DEF Orderly
    <3> QED
      BY <1>1, <2>2, <3>2, <3>3, RecvOrderly, ThawOrderly, TakeOrderly,
         TakeAndFreezeOrderly, PutBackOrderly, FlushNextOrderly, FlushEndOrderly
      DEF TransportNext
  <2> QED
    BY <2>1, <2>2
<1> QED
  BY <1>1, <1>2 DEF TransportInv

\* Every variable of the transport keeps its type.
THEOREM TransportTypes == TransportSpec => []TransportTypeOK
<1>1. TransportTypeOK /\ [TransportNext]_tvars => TransportTypeOK'
  BY NextType
<1> QED
  BY <1>1, InitType, PTL DEF TransportSpec

\* The inductive invariant holds of every behaviour of the transport.
THEOREM Invariance == TransportSpec => []TransportInv
<1>1. TransportInit => TransportInv
  BY InitType, InitOrderly DEF TransportInv
<1>2. TransportInv /\ [TransportNext]_tvars => TransportInv'
  BY NextInv
<1> QED
  BY <1>1, <1>2, PTL DEF TransportSpec

\* cockpit_transport_emit_recv and cockpit_transport_emit_control run the
\* handlers on a channel's messages in the order they were received, for
\* every pattern of cockpit_transport_freeze and cockpit_transport_thaw.
THEOREM Order == TransportSpec => []InOrder
<1>1. TransportInv => InOrder
  <2> SUFFICES ASSUME TransportInv, ~dangled, NEW m \in cur
               PROVE  m.n = taken[m.ch] + 1
    BY DEF InOrder
  <2>1. Orderly /\ TransportTypeOK
    BY DEF TransportInv
  <2>2. /\ m.ch \in Channels /\ m.n \in Nat /\ taken[m.ch] \in Nat /\ sent[m.ch] \in Nat
    BY <2>1, Elements DEF TransportTypeOK
  <2>3. /\ taken[m.ch] < m.n /\ m.n <= sent[m.ch]
        /\ \A i \in 1 .. Len(frozen) : frozen[i].ch = m.ch => m.n < frozen[i].n
    BY <2>1 DEF Orderly, Pending
  <2>4. \A m1 \in cur : m1 = m
    BY <2>1 DEF Orderly, OneAtATime
  <2> DEFINE n == taken[m.ch] + 1
  <2>5. n \in 1 .. sent[m.ch] /\ taken[m.ch] < n
    BY <2>2, <2>3
  <2> HIDE DEF n
  <2>6. \/ \E m1 \in cur : m1.ch = m.ch /\ m1.n = n
        \/ \E i \in 1 .. Len(frozen) : frozen[i].ch = m.ch /\ frozen[i].n = n
    BY <2>1, <2>2, <2>5 DEF Orderly, Pending
  <2>7. CASE \E m1 \in cur : m1.ch = m.ch /\ m1.n = n
    BY <2>4, <2>7 DEF n
  <2>8. CASE \E i \in 1 .. Len(frozen) : frozen[i].ch = m.ch /\ frozen[i].n = n
    <3>1. m.n < n
      BY <2>3, <2>8
    <3> QED
      BY <2>2, <2>3, <3>1 DEF n
  <2> QED
    BY <2>6, <2>7, <2>8
<1> QED
  BY <1>1, Invariance, PTL

\* cockpit_transport_thaw and the re-emissions it causes leave no message of
\* a channel behind that nobody would thaw again.
THEOREM Completeness == TransportSpec => []NoneLeftBehind
<1>1. TransportInv => NoneLeftBehind
  <2> SUFFICES ASSUME TransportInv, ~dangled, stack = <<>>, cur = {},
                      NEW c \in Channels \ freeze
               PROVE  taken[c] = sent[c]
    BY DEF NoneLeftBehind
  <2>1. Orderly /\ TransportTypeOK
    BY DEF TransportInv
  <2>2. taken[c] \in Nat /\ sent[c] \in Nat /\ taken[c] <= sent[c]
    BY <2>1 DEF Orderly, Pending, TransportTypeOK
  <2>3. SUFFICES ASSUME taken[c] < sent[c]  PROVE FALSE
    BY <2>2
  <2>4. sent[c] \in 1 .. sent[c]
    BY <2>2, <2>3
  <2>5. PICK i \in 1 .. Len(frozen) : frozen[i].ch = c
    BY <2>1, <2>3, <2>4 DEF Orderly, Pending
  <2>6. \A a : a \notin 1 .. Len(stack)
    BY EmptySeq
  <2>7. Live(frozen[i])
    BY <2>1, <2>6 DEF Orderly, HasWalk
  <2> QED
    BY <2>5, <2>7 DEF Live
<1> QED
  BY <1>1, Invariance, PTL

=============================================================================
