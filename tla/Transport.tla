------------------------------ MODULE Transport ------------------------------
(***************************************************************************)
(* CockpitTransport (src/common/cockpittransport.c): one message stream    *)
(* that carries every channel, with the two calls that let a handler hold  *)
(* a channel back.  cockpit_transport_freeze puts the channel's name in    *)
(* the table `freeze'; from then on every message for it goes to the tail  *)
(* of one queue, `frozen', shared by all channels.  cockpit_transport_thaw *)
(* takes the name out and walks that queue, emitting what it finds for the *)
(* channel.  An emission runs the handlers at once, on the same call       *)
(* stack, and a handler may freeze the channel again and emit the message  *)
(* a second time, or thaw another channel, while the walk is under way.    *)
(*                                                                         *)
(* A frozen message belongs to the table's copy of the name, compared by   *)
(* address: freezing again makes a new copy.  key[c] numbers the copies.   *)
(* A walk keeps a pointer to the next link of the queue (next); a nested   *)
(* walk can free that link.                                                *)
(*                                                                         *)
(* The actions below are what the transport's clients may do with it; the  *)
(* module Bridge EXTENDS this one, and is checked to do nothing else.      *)
(***************************************************************************)
EXTENDS Naturals, Sequences

CONSTANTS Channels,      \* channel ids
          MaxMsgs        \* bound: messages received, per channel

ASSUME MaxMsgsAssumption == MaxMsgs \in [Channels -> Nat]

VARIABLES freeze,        \* the names in the freeze table
          key,           \* key[c]: copies of the name made so far
          frozen,        \* the queue of frozen messages
          stack,         \* the walks in progress, innermost last
          cur,           \* the message being emitted, if any
          sent,          \* sent[c]: messages of c received so far
          taken,         \* taken[c]: the last message of c a handler took
          dangled,       \* a walk has followed a pointer to a freed link
          closed         \* the transport is closed, or the process is gone

tvars == <<freeze, key, frozen, stack, cur, sent, taken, dangled, closed>>

Message == [ch : Channels, n : Nat]

Node == [ch : Channels, n : Nat, key : Nat]

Flush == [f : {"flush"}, ch : Channels, key : Nat, next : SUBSET Node]

TransportTypeOK ==
  /\ freeze \subseteq Channels
  /\ key \in [Channels -> Nat]
  /\ frozen \in Seq(Node)
  /\ stack \in Seq(Flush)
  /\ cur \in SUBSET Message
  /\ sent \in [Channels -> Nat]
  /\ taken \in [Channels -> Nat]
  /\ dangled \in BOOLEAN
  /\ closed \in BOOLEAN

TransportInit ==
  /\ freeze = {}
  /\ key = [c \in Channels |-> 0]
  /\ frozen = <<>>
  /\ stack = <<>>
  /\ cur = {}
  /\ sent = [c \in Channels |-> 0]
  /\ taken = [c \in Channels |-> 0]
  /\ dangled = FALSE
  /\ closed = FALSE

-----------------------------------------------------------------------------
(* The call stack. *)

Top == stack[Len(stack)]

Pop == SubSeq(stack, 1, Len(stack) - 1)

\* The queue without its i-th link.
DeleteLink(q, i) == [k \in 1 .. Len(q) - 1 |-> IF k < i THEN q[k] ELSE q[k + 1]]

\* Mutant: the message goes to the head of the queue.
HoldAtHead(q, m) == <<[ch |-> m.ch, n |-> m.n, key |-> key[m.ch]]>> \o q

\* maybe_freeze_message: a frozen message is kept under the table's copy.
Hold(q, m) == Append(q, [ch |-> m.ch, n |-> m.n, key |-> key[m.ch]])

(***************************************************************************)
(* cockpit_transport_emit_recv and cockpit_transport_emit_control, with q  *)
(* the queue at that moment: hold the message, or run the handlers on it.  *)
(***************************************************************************)
Emit(q, m) ==
  IF m.ch \in freeze
    THEN frozen' = Hold(q, m) /\ cur' = {}
    ELSE frozen' = q /\ cur' = {m}

\* Mutant: freezing again brings back the same copy of the name.
FreezeSameCopy(c) ==
  /\ freeze' = freeze \cup {c}
  /\ key' = key

\* cockpit_transport_freeze
Freeze(c) ==
  /\ freeze' = freeze \cup {c}
  /\ key' = [key EXCEPT ![c] = @ + 1]

\* The walk that cockpit_transport_thaw starts on a channel in the table.
Walk(c) ==
  [f |-> "flush", ch |-> c, key |-> key[c],
   next |-> IF frozen = <<>> THEN {} ELSE {frozen[1]}]

-----------------------------------------------------------------------------
(* A message for c arrives from the pipe: the main loop calls it, nothing  *)
(* else is running.                                                        *)
Recv(c) ==
  /\ stack = <<>> /\ cur = {}
  /\ sent[c] < MaxMsgs[c]
  /\ sent' = [sent EXCEPT ![c] = @ + 1]
  /\ Emit(frozen, [ch |-> c, n |-> sent[c] + 1])
  /\ UNCHANGED <<freeze, key, stack, taken, dangled, closed>>

\* A handler takes the message (or none does, and it is dropped).
Taken(m) ==
  /\ taken' = [taken EXCEPT ![m.ch] = m.n]
  /\ cur' = {}

Take ==
  \E m \in cur :
    /\ Taken(m)
    /\ UNCHANGED <<freeze, key, frozen, stack, sent, dangled, closed>>

\* A handler takes the message and holds back what follows it: the
\* constructor of a local channel.
TakeAndFreeze ==
  \E m \in cur :
    /\ Taken(m)
    /\ Freeze(m.ch)
    /\ UNCHANGED <<frozen, stack, sent, dangled, closed>>

\* A handler freezes the channel and emits the same message again, which
\* therefore is held: a fenced open, an open for a peer that is starting.
Requeue(m) ==
  /\ Freeze(m.ch)
  /\ frozen' = Append(frozen, [ch |-> m.ch, n |-> m.n, key |-> key'[m.ch]])
  /\ cur' = {}

PutBack ==
  \E m \in cur :
    /\ Requeue(m)
    /\ UNCHANGED <<stack, sent, taken, dangled, closed>>

\* cockpit_transport_thaw, up to the first link
Thaw(c) ==
  /\ cur = {} /\ c \in freeze
  /\ freeze' = freeze \ {c}
  /\ stack' = Append(stack, Walk(c))
  /\ UNCHANGED <<key, frozen, cur, sent, taken, dangled, closed>>

-----------------------------------------------------------------------------
(* The loop of cockpit_transport_thaw. *)

Walking == cur = {} /\ stack # <<>> /\ Top.f = "flush"

Belongs(node) == node.ch = Top.ch /\ node.key = Top.key

\* The walk, its pointer at link j, stops next at link i.
Reaches(j, i) ==
  /\ frozen[j] \in Top.next
  /\ Belongs(frozen[i])
  /\ \A k \in j .. i - 1 : ~Belongs(frozen[k])

\* Mutant: the walk ends after one message.
AdvanceOnce(i) == [stack EXCEPT ![Len(stack)].next = {}]

\* The walk's pointer moves on to the link after the i-th.
Advance(i) ==
  [stack EXCEPT ![Len(stack)].next =
     IF i < Len(frozen) THEN {frozen[i + 1]} ELSE {}]

\* Emit the next message of the channel; the pointer has moved on to the
\* following link before the handlers run.
FlushNext ==
  /\ Walking
  /\ \E i \in 1 .. Len(frozen) :
       /\ \E j \in 1 .. i : Reaches(j, i)
       /\ stack' = Advance(i)
       /\ Emit(DeleteLink(frozen, i), [ch |-> frozen[i].ch, n |-> frozen[i].n])
  /\ UNCHANGED <<freeze, key, sent, taken, dangled, closed>>

\* The end of the queue.
FlushEnd ==
  /\ Walking
  /\ \/ Top.next = {}
     \/ \E j \in 1 .. Len(frozen) :
          /\ frozen[j] \in Top.next
          /\ \A k \in j .. Len(frozen) : ~Belongs(frozen[k])
  /\ stack' = Pop
  /\ UNCHANGED <<freeze, key, frozen, cur, sent, taken, dangled, closed>>

\* The link the pointer holds was freed by a nested walk.  Reading it is
\* undefined: the process dies, or the walk ends there.
FlushDangling ==
  /\ Walking
  /\ Top.next # {}
  /\ \A j \in 1 .. Len(frozen) : frozen[j] \notin Top.next
  /\ dangled' = TRUE
  /\ stack' = Pop
  /\ closed' \in BOOLEAN
  /\ UNCHANGED <<freeze, key, frozen, cur, sent, taken>>

(* cockpit_transport_close.  The pipe closes within the call and the main  *)
(* loop of the process ends once the stack unwinds; what the unwinding     *)
(* calls still send is dropped (cockpit_pipe_transport_send), so the model *)
(* stops here.                                                             *)
Close ==
  /\ closed' = TRUE
  /\ UNCHANGED <<freeze, key, frozen, stack, cur, sent, taken, dangled>>

-----------------------------------------------------------------------------
TransportNext ==
  /\ ~closed
  /\ \/ \E c \in Channels : Recv(c) \/ Thaw(c)
     \/ Take \/ TakeAndFreeze \/ PutBack
     \/ FlushNext \/ FlushEnd \/ FlushDangling
     \/ Close

TransportSpec == TransportInit /\ [][TransportNext]_tvars

-----------------------------------------------------------------------------
(* What the clients rely on. *)

(***************************************************************************)
(* A message reaches the handlers only after every message received before *)
(* it on the same channel was taken, however often the channel was frozen, *)
(* thawed and frozen again in between (maybe_freeze_message and            *)
(* cockpit_transport_thaw), as long as no walk has met a freed link.       *)
(***************************************************************************)
InOrder == ~dangled => \A m \in cur : m.n = taken[m.ch] + 1

(***************************************************************************)
(* Back in the main loop, a channel that is not in the freeze table has    *)
(* nothing left in the queue: cockpit_transport_thaw leaves no message     *)
(* behind under a copy of the name that is gone.                           *)
(***************************************************************************)
NoneLeftBehind ==
  ~dangled /\ stack = <<>> /\ cur = {}
    => \A c \in Channels \ freeze : taken[c] = sent[c]

-----------------------------------------------------------------------------
(* The inductive invariant behind both. *)

\* The message waits for a thaw still to come.
Live(x) == x.ch \in freeze /\ x.key = key[x.ch]

OneAtATime ==
  /\ \A m1, m2 \in cur : m1 = m2
  /\ \A m \in cur : m.ch \notin freeze

\* Copies of a name are numbered upwards: a walk's is older than the one in
\* the table, and older than those of the walks inside it.
KeysGrow ==
  /\ \A i \in 1 .. Len(frozen) : frozen[i].key <= key[frozen[i].ch]
  /\ \A a \in 1 .. Len(stack) :
       /\ stack[a].key <= key[stack[a].ch]
       /\ ~Live(stack[a])
  /\ \A a, b \in 1 .. Len(stack) :
       a < b /\ stack[a].ch = stack[b].ch => stack[a].key < stack[b].key

\* Every frozen message is live or on the way of a walk in progress.
HasWalk ==
  \A i \in 1 .. Len(frozen) :
    \/ Live(frozen[i])
    \/ \E a \in 1 .. Len(stack) :
         stack[a].ch = frozen[i].ch /\ stack[a].key = frozen[i].key

\* Of one channel, a newer copy of the name holds earlier messages, and
\* under one copy they are queued in order.
QueueOrder ==
  \A i, j \in 1 .. Len(frozen) :
    frozen[i].ch = frozen[j].ch =>
      /\ frozen[i].key > frozen[j].key => frozen[i].n < frozen[j].n
      /\ frozen[i].key = frozen[j].key /\ i < j => frozen[i].n < frozen[j].n

\* What a walk still has to emit is not before its pointer.
Ahead ==
  \A a \in 1 .. Len(stack) :
    /\ \A x, y \in stack[a].next : x = y
    /\ \A x \in stack[a].next :
         /\ x.key <= key[x.ch]
         /\ Live(x) => \E j \in 1 .. Len(frozen) : frozen[j] = x
    /\ \A i \in 1 .. Len(frozen) :
         stack[a].ch = frozen[i].ch /\ stack[a].key = frozen[i].key =>
           /\ stack[a].next # {}
           /\ \A j \in 1 .. Len(frozen) : frozen[j] \in stack[a].next => j <= i

\* Messages received and not taken are exactly those emitted or frozen.
Pending ==
  /\ \A c \in Channels : taken[c] <= sent[c]
  /\ \A i \in 1 .. Len(frozen) :
       taken[frozen[i].ch] < frozen[i].n /\ frozen[i].n <= sent[frozen[i].ch]
  /\ \A m \in cur :
       /\ taken[m.ch] < m.n /\ m.n <= sent[m.ch]
       /\ \A i \in 1 .. Len(frozen) : frozen[i].ch = m.ch => m.n < frozen[i].n
  /\ \A c \in Channels : \A n \in 1 .. sent[c] :
       taken[c] < n =>
         \/ \E m \in cur : m.ch = c /\ m.n = n
         \/ \E i \in 1 .. Len(frozen) : frozen[i].ch = c /\ frozen[i].n = n

Orderly ==
  OneAtATime /\ KeysGrow /\ HasWalk /\ QueueOrder /\ Ahead /\ Pending

TransportInv == TransportTypeOK /\ (~dangled => Orderly)

=============================================================================
