---------------------------- MODULE LibraryProofs ----------------------------
(***************************************************************************)
(* Proofs about cockpit.js, the library of the pages.  Module File:        *)
(* cockpit.file() loses no change that it has reported as made, and its    *)
(* watch ends up with the content of the file, for any set of modify()     *)
(* calls and any number of disturbances.  Module StorageCache: the         *)
(* consumer in every frame ends up with the value that is shared, for any  *)
(* set of frames and any number of values.  Module DBusClient: a handler   *)
(* sees the cache as the bridge had described it.                          *)
(***************************************************************************)
EXTENDS File, StorageCache, DBusClient, SequenceTheorems, FiniteSetTheorems, TLAPS

-----------------------------------------------------------------------------
(* cockpit.file()                                                          *)

Kinds == {"read-ok", "read-conflict", "read-error"}

Options == [who : Modifiers, tag : Nat, content : SUBSET Modifiers]

Sent == [do : {"read", "watch", "unwatch", "abort"}] \cup [do : {"replace", "done"}, opts : Options]

Received ==
  [do : {"read-ok"}, tag : Nat, content : SUBSET Modifiers, late : BOOLEAN]
    \cup [do : {"read-conflict", "read-error"}]
    \cup [do : {"replace-ok"}, who : Modifiers, tag : Nat, late : BOOLEAN]
    \cup [do : {"replace-conflict", "out-of-date"}, who : Modifiers]
    \cup [do : {"changed"}, tag : Nat]

Pending ==
  [do : {"update", "fail"}, who : Modifiers, tag : Nat, content : SUBSET Modifiers]
    \cup [do : {"replace-ok", "replace-conflict", "out-of-date", "fail"}, who : Modifiers]

FileTypes ==
  /\ disk \in [tag : Nat \ {0}, content : SUBSET Modifiers]
  /\ writes \in Nat /\ errors \in Nat
  /\ reading \in BOOLEAN /\ waiters \in Seq(Modifiers)
  /\ mod \in [Modifiers -> {"none", "busy", "resolved", "rejected"}]
  /\ replacing \in Modifiers \cup {"none"}
  /\ watching \in {"none", "on", "closed", "removed"}
  /\ watch_tag \in Nat /\ fired \in Nat
  /\ scan \in Nat /\ dirty \in BOOLEAN /\ monitored \in BOOLEAN
  /\ held \in [tag : Nat \ {0}, content : SUBSET Modifiers]

\* What a message says of the file is true if it carries the file's tag: a tag
\* names one content, and an accepted replace adds one change to it.
SentFits(m) ==
  m.do \in {"replace", "done"} =>
    /\ m.opts.tag \in 1 .. disk.tag
    /\ m.opts.tag = disk.tag => m.opts.content = disk.content \cup {m.opts.who}

ContentFits(m) == m.tag \in 1 .. disk.tag /\ (m.tag = disk.tag => m.content = disk.content)

ReceivedFits(m) ==
  /\ m.do = "read-ok" => ContentFits(m)
  /\ m.do = "replace-ok" => m.who \in disk.content

PendingFits(m) ==
  /\ m.do = "update" => ContentFits(m)
  /\ m.do = "replace-ok" => m.who \in disk.content

SentFitting == {m \in Sent : SentFits(m)}
ReceivedFitting == {m \in Received : ReceivedFits(m)}
PendingFitting == {m \in Pending : PendingFits(m)}

\* The inductive invariant for NoChangeLost.
ChangesInv ==
  /\ FileTypes /\ ContentFits(held)
  /\ fsent \in Seq(SentFitting) /\ frecv \in Seq(ReceivedFitting) /\ flater \in Seq(PendingFitting)
  /\ NoChangeLost

-----------------------------------------------------------------------------
(* Sequences.                                                              *)

\* A sequence of elements of S is one of elements of a larger set.
LEMMA SeqOfLarger ==
  ASSUME NEW S, NEW T, S \subseteq T, NEW s \in Seq(S)
  PROVE  s \in Seq(T)
<1>1. s \in [1 .. Len(s) -> S] /\ Len(s) \in Nat
  OBVIOUS
<1>2. s \in [1 .. Len(s) -> T]
  BY <1>1
<1> QED BY <1>1, <1>2, SeqDef

\* What close() leaves of a sequence: all but at most one element.
LEMMA WithoutProperties ==
  ASSUME NEW S, NEW s \in Seq(S), NEW kinds
  PROVE  /\ Without(s, kinds) \in Seq(S)
         /\ \A k \in DOMAIN Without(s, kinds) :
              \E i \in DOMAIN s : /\ Without(s, kinds)[k] = s[i]
                                  /\ s[i].do \in kinds => \E j \in DOMAIN s \ {i} : s[j].do \in kinds
<1> DEFINE at == {n \in DOMAIN s : s[n].do \in kinds}
           W == Without(s, kinds)
<1>1. CASE at = {}
  <2>1. W = s
    BY <1>1 DEF Without
  <2> QED BY <1>1, <2>1
<1>2. CASE at # {}
  <2> DEFINE n == CHOOSE i \in at : TRUE
  <2>1. n \in at /\ n \in 1 .. Len(s)
    BY <1>2
  <2> DEFINE A == SubSeq(s, 1, n - 1)
             B == SubSeq(s, n + 1, Len(s))
  <2>2. W = A \o B
    BY <1>2 DEF Without, RemoveAt
  <2> HIDE DEF n, W
  <2>3. A \in Seq(S) /\ Len(A) = n - 1 /\ \A k \in 1 .. n - 1 : A[k] = s[k]
    BY <2>1
  <2>4. B \in Seq(S) /\ Len(B) = Len(s) - n /\ \A k \in 1 .. Len(s) - n : B[k] = s[n + k]
    BY <2>1
  <2> HIDE DEF A, B
  <2>5. W \in Seq(S) /\ Len(W) = Len(s) - 1
    <3>1. W \in Seq(S) /\ Len(W) = Len(A) + Len(B)
      BY <2>2, <2>3, <2>4, ConcatProperties
    <3>2. Len(s) \in Nat
      OBVIOUS
    <3> QED BY <2>1, <2>3, <2>4, <3>1, <3>2
  <2>6. ASSUME NEW k \in DOMAIN W
        PROVE  W[k] = s[IF k < n THEN k ELSE k + 1]
    <3>1. k \in 1 .. Len(s) - 1 /\ k \in Nat /\ n \in Nat /\ Len(s) \in Nat
      BY <2>1, <2>5
    <3>2. CASE k < n
      BY <2>1, <2>2, <2>3, <2>4, <3>1, <3>2
    <3>3. CASE ~(k < n)
      <4>1. k > Len(A) /\ k <= Len(A) + Len(B) /\ k - Len(A) \in 1 .. Len(s) - n
        BY <2>1, <2>3, <2>4, <3>1, <3>3
      <4>2. W[k] = B[k - Len(A)]
        BY <2>2, <2>3, <2>4, <3>1, <4>1
      <4>3. n + (k - Len(A)) = k + 1
        BY <2>3, <3>1
      <4> QED BY <2>4, <3>3, <4>1, <4>2, <4>3
    <3> QED BY <3>2, <3>3
  <2>7. ASSUME NEW k \in DOMAIN W
        PROVE  \E i \in DOMAIN s : /\ W[k] = s[i]
                                   /\ s[i].do \in kinds => \E j \in DOMAIN s \ {i} : s[j].do \in kinds
    <3> DEFINE i == IF k < n THEN k ELSE k + 1
    <3>1. i \in DOMAIN s /\ i # n /\ n \in DOMAIN s
      BY <2>1, <2>5
    <3> QED BY <2>1, <2>6, <2>7, <3>1
  <2> QED BY <2>5, <2>7 DEF W
<1> QED BY <1>1, <1>2

-----------------------------------------------------------------------------
(* Messages.                                                               *)

\* Messages without options say nothing of the file.
LEMMA PlainFits ==
  ASSUME NEW do \in {"read", "watch", "unwatch", "abort"}
  PROVE  [do |-> do] \in SentFitting
  BY DEF SentFitting, Sent, SentFits

\* The handlers of a read fit the file if the read does.
LEMMA HandlersFit ==
  ASSUME FileTypes, NEW do \in {"update", "fail"}, NEW tag \in Nat, NEW content \in SUBSET Modifiers,
         do = "update" => tag \in 1 .. disk.tag /\ (tag = disk.tag => content = disk.content)
  PROVE  Handlers(do, tag, content) \in Seq(PendingFitting)
<1>1. ASSUME NEW who \in Modifiers
      PROVE  [do |-> do, who |-> who, tag |-> tag, content |-> content] \in PendingFitting
  BY DEF PendingFitting, Pending, PendingFits, ContentFits
<1>2. DOMAIN waiters = 1 .. Len(waiters) /\ Len(waiters) \in Nat
      /\ \A n \in 1 .. Len(waiters) : waiters[n] \in Modifiers
  BY DEF FileTypes
<1>3. Handlers(do, tag, content) \in [1 .. Len(waiters) -> PendingFitting]
  BY <1>1, <1>2 DEF Handlers
<1> QED BY <1>2, <1>3, SeqDef

\* Calls of read().
LEMMA ReadFits ==
  ASSUME FileTypes, NEW sent \in Seq(SentFitting), NEW who \in Seq(Modifiers), Read(sent, who)
  PROVE  reading' \in BOOLEAN /\ waiters' \in Seq(Modifiers) /\ fsent' \in Seq(SentFitting)
<1>1. [do |-> "read"] \in SentFitting
  BY PlainFits
<1> QED BY <1>1, ConcatProperties DEF FileTypes, Read

\* While the file is unchanged, what fits it still does.
LEMMA SameFile ==
  ASSUME disk' = disk
  PROVE  SentFitting' = SentFitting /\ ReceivedFitting' = ReceivedFitting
         /\ PendingFitting' = PendingFitting
         /\ (held' = held /\ ContentFits(held) => ContentFits(held)')
  BY DEF SentFitting, ReceivedFitting, PendingFitting, SentFits, ReceivedFits, PendingFits, ContentFits

\* A write gives the file a tag of its own, so that what fitted the file fits it
\* still, if the write keeps the changes in the file.
LEMMA NewTag ==
  ASSUME FileTypes, NEW content \in SUBSET Modifiers, disk.content \subseteq content,
         disk' = [tag |-> disk.tag + 1, content |-> content]
  PROVE  /\ SentFitting \subseteq SentFitting'
         /\ ReceivedFitting \subseteq ReceivedFitting'
         /\ PendingFitting \subseteq PendingFitting'
         /\ \A m : ContentFits(m) => m.tag \in 1 .. disk'.tag /\ m.tag # disk'.tag
<1>1. disk.tag \in Nat /\ disk'.tag = disk.tag + 1 /\ disk'.content = content
  BY DEF FileTypes
<1>2. \A tag : tag \in 1 .. disk.tag => tag \in 1 .. disk'.tag /\ tag # disk'.tag
  BY <1>1
<1>3. SentFitting \subseteq SentFitting'
  BY <1>2 DEF SentFitting, SentFits
<1>4. ReceivedFitting \subseteq ReceivedFitting'
  BY <1>1, <1>2 DEF ReceivedFitting, ReceivedFits, ContentFits
<1>5. PendingFitting \subseteq PendingFitting'
  BY <1>1, <1>2 DEF PendingFitting, PendingFits, ContentFits
<1> QED BY <1>2, <1>3, <1>4, <1>5 DEF ContentFits

\* The shape of what arrives.
LEMMA ReceivedShape ==
  ASSUME NEW m \in ReceivedFitting
  PROVE  /\ m.do = "read-ok" => m.tag \in Nat /\ m.content \in SUBSET Modifiers /\ ContentFits(m)
                               /\ m.late \in BOOLEAN
         /\ m.do \in {"replace-ok", "replace-conflict", "out-of-date"} => m.who \in Modifiers
         /\ m.do = "replace-ok" => m.who \in disk.content /\ m.tag \in Nat /\ m.late \in BOOLEAN
         /\ m.do = "changed" => m.tag \in Nat
  BY DEF ReceivedFitting, Received, ReceivedFits

\* The shape of a handler that is to run.
LEMMA PendingShape ==
  ASSUME NEW m \in PendingFitting
  PROVE  /\ m.who \in Modifiers
         /\ m.do = "update" => m.tag \in Nat /\ m.content \in SUBSET Modifiers /\ ContentFits(m)
         /\ m.do = "replace-ok" => m.who \in disk.content
  BY DEF PendingFitting, Pending, PendingFits

\* The shape of what the bridge takes.
LEMMA SentShape ==
  ASSUME NEW m \in SentFitting, m.do \in {"replace", "done"}
  PROVE  m.opts \in Options /\ SentFits(m)
  BY DEF SentFitting, Sent

-----------------------------------------------------------------------------
(* The steps of the page.                                                  *)

\* modify() starts with a read.
LEMMA ModifyChanges ==
  ASSUME ChangesInv, NEW i \in Modifiers, Modify(i)
  PROVE  ChangesInv'
<1>1. <<i>> \in Seq(Modifiers) /\ disk' = disk
  BY DEF Modify, outside
<1>2. reading' \in BOOLEAN /\ waiters' \in Seq(Modifiers) /\ fsent' \in Seq(SentFitting)
  BY <1>1, ReadFits DEF ChangesInv, Modify
<1>3. FileTypes'
  BY <1>1, <1>2 DEF ChangesInv, FileTypes, Modify, outside
<1>4. NoChangeLost'
  BY <1>1 DEF ChangesInv, FileTypes, Modify, NoChangeLost
<1> QED BY <1>1, <1>2, <1>3, <1>4, SameFile DEF ChangesInv, Modify, outside

\* watch() starts with a read, too.
LEMMA WatchChanges ==
  ASSUME ChangesInv, Watch
  PROVE  ChangesInv'
<1>1. <<>> \in Seq(Modifiers) /\ disk' = disk /\ Append(fsent, [do |-> "watch"]) \in Seq(SentFitting)
  BY PlainFits DEF ChangesInv, Watch, outside
<1>2. reading' \in BOOLEAN /\ waiters' \in Seq(Modifiers) /\ fsent' \in Seq(SentFitting)
  BY <1>1, ReadFits DEF ChangesInv, Watch
<1>3. FileTypes'
  BY <1>1, <1>2 DEF ChangesInv, FileTypes, Watch, outside
<1>4. NoChangeLost'
  BY <1>1 DEF ChangesInv, Watch, NoChangeLost
<1> QED BY <1>1, <1>2, <1>3, <1>4, SameFile DEF ChangesInv, Watch, outside

\* The watch is removed.
LEMMA UnwatchChanges ==
  ASSUME ChangesInv, Unwatch
  PROVE  ChangesInv'
<1>1. disk' = disk /\ fsent' \in Seq(SentFitting)
  BY PlainFits DEF ChangesInv, Unwatch, outside
<1>2. FileTypes'
  BY <1>1 DEF ChangesInv, FileTypes, Unwatch, outside
<1>3. NoChangeLost'
  BY <1>1 DEF ChangesInv, Unwatch, NoChangeLost
<1> QED BY <1>1, <1>2, <1>3, SameFile DEF ChangesInv, Unwatch, outside

\* The close handlers of the read and replace channels and a message of the watch.
LEMMA FileMessageChanges ==
  ASSUME ChangesInv, FileMessage
  PROVE  ChangesInv'
<1> DEFINE m == Head(frecv)
<1>1. m \in ReceivedFitting /\ frecv' \in Seq(ReceivedFitting)
  BY DEF ChangesInv, FileMessage
<1>2. disk' = disk /\ mod' = mod /\ UNCHANGED <<writes, errors, scan, held, accepted, monitored, dirty, watching>>
  BY DEF FileMessage, outside, ReadClosed, ReplaceClosed, WatchMessage
<1> HIDE DEF m
<1>3. /\ reading' \in BOOLEAN /\ waiters' \in Seq(Modifiers) /\ fsent' \in Seq(SentFitting)
      /\ replacing' \in Modifiers \cup {"none"} /\ watch_tag' \in Nat /\ fired' \in Nat
      /\ flater' \in Seq(PendingFitting)
  <2>1. CASE ReadClosed(m)
    <3>1. CASE Retry(m)
      <4>1. [do |-> "read"] \in SentFitting
        BY PlainFits
      <4>2. /\ fsent' = Append(fsent, [do |-> "read"])
            /\ UNCHANGED <<reading, waiters, watch_tag, fired, flater, replacing>>
        BY <2>1, <3>1 DEF ReadClosed
      <4> QED BY <4>1, <4>2 DEF ChangesInv, FileTypes
    <3>2. CASE ~Retry(m) /\ m.do = "read-ok"
      <4>1. m.tag \in Nat /\ m.content \in SUBSET Modifiers /\ ContentFits(m)
        BY <1>1, <3>2, ReceivedShape
      <4>2. Handlers("update", m.tag, m.content) \in Seq(PendingFitting)
        BY <4>1, HandlersFit DEF ChangesInv, ContentFits
      <4>3. /\ reading' = FALSE /\ waiters' = <<>> /\ UNCHANGED <<fsent, replacing>>
            /\ Fire(m.tag, m.late) /\ flater' = flater \o Handlers("update", m.tag, m.content)
        BY <2>1, <3>2 DEF ReadClosed
      <4>4. flater' \in Seq(PendingFitting)
        BY <4>2, <4>3, ConcatProperties DEF ChangesInv
      <4>5. watch_tag' \in Nat /\ fired' \in Nat
        BY <4>1, <4>3 DEF Fire, ChangesInv, FileTypes
      <4>6. waiters' \in Seq(Modifiers) /\ replacing' \in Modifiers \cup {"none"}
        BY <4>3 DEF ChangesInv, FileTypes
      <4> QED BY <4>3, <4>4, <4>5, <4>6 DEF ChangesInv
    <3>3. CASE ~Retry(m) /\ m.do # "read-ok"
      <4>1. Handlers("fail", 0, {}) \in Seq(PendingFitting)
        BY HandlersFit DEF ChangesInv
      <4>2. /\ reading' = FALSE /\ waiters' = <<>> /\ UNCHANGED <<fsent, replacing>>
            /\ Fire(0, FALSE) /\ flater' = flater \o Handlers("fail", 0, {})
        BY <2>1, <3>3 DEF ReadClosed
      <4>3. flater' \in Seq(PendingFitting)
        BY <4>1, <4>2, ConcatProperties DEF ChangesInv
      <4>4. watch_tag' \in Nat /\ fired' \in Nat
        BY <4>2 DEF Fire, ChangesInv, FileTypes
      <4>5. waiters' \in Seq(Modifiers) /\ replacing' \in Modifiers \cup {"none"}
        BY <4>2 DEF ChangesInv, FileTypes
      <4> QED BY <4>2, <4>3, <4>4, <4>5 DEF ChangesInv
    <3> QED BY <3>1, <3>2, <3>3
  <2>2. CASE ReplaceClosed(m)
    <3>1. /\ m.do \in {"replace-ok", "replace-conflict", "out-of-date"} /\ m.who \in Modifiers
          /\ m.do = "replace-ok" => m.who \in disk.content /\ m.tag \in Nat
      BY <1>1, <2>2, ReceivedShape DEF ReplaceClosed
    <3>2. [do |-> m.do, who |-> m.who] \in PendingFitting
      BY <3>1 DEF PendingFitting, Pending, PendingFits
    <3>3. CASE m.who = replacing
      <4>1. watch_tag' \in Nat /\ fired' \in Nat
        BY <2>2, <3>1, <3>3 DEF ChangesInv, FileTypes, ReplaceClosed, Fire
      <4>2. /\ replacing' = "none" /\ flater' = Append(flater, [do |-> m.do, who |-> m.who])
            /\ UNCHANGED <<reading, waiters, fsent>>
        BY <2>2, <3>3 DEF ReplaceClosed
      <4> QED BY <3>2, <4>1, <4>2 DEF ChangesInv, FileTypes
    <3>4. CASE m.who # replacing
      BY <2>2, <3>4 DEF ChangesInv, FileTypes, ReplaceClosed
    <3> QED BY <3>3, <3>4
  <2>3. CASE WatchMessage(m)
    <3>1. CASE watching = "on" /\ m.tag # watch_tag
      <4>1. Read(fsent, <<>>) /\ <<>> \in Seq(Modifiers)
        BY <2>3, <3>1 DEF WatchMessage
      <4>2. reading' \in BOOLEAN /\ waiters' \in Seq(Modifiers) /\ fsent' \in Seq(SentFitting)
        BY <4>1, ReadFits DEF ChangesInv
      <4> QED BY <2>3, <4>2 DEF ChangesInv, FileTypes, WatchMessage
    <3>2. CASE ~(watching = "on" /\ m.tag # watch_tag)
      BY <2>3, <3>2 DEF ChangesInv, FileTypes, WatchMessage
    <3> QED BY <3>1, <3>2
  <2> QED BY <2>1, <2>2, <2>3 DEF FileMessage, m
<1>4. FileTypes'
  BY <1>2, <1>3 DEF ChangesInv, FileTypes
<1>5. NoChangeLost'
  BY <1>2 DEF ChangesInv, NoChangeLost
<1> QED BY <1>1, <1>2, <1>3, <1>4, <1>5, SameFile DEF ChangesInv

\* update() of modify: the replace it sends fits the file if the content it was
\* called with does.
LEMMA UpdateRunsChanges ==
  ASSUME ChangesInv, FileLater, Head(flater).do = "update"
  PROVE  ChangesInv'
<1> DEFINE m == Head(flater)
           opts == [who |-> m.who, tag |-> m.tag, content |-> m.content \cup {m.who}]
           abort == IF replacing = "none" THEN <<>> ELSE <<[do |-> "abort"]>>
           failed == [do |-> "fail", who |-> replacing]
<1>1. m \in PendingFitting /\ Tail(flater) \in Seq(PendingFitting)
  BY DEF ChangesInv, FileLater
<1>2. m.who \in Modifiers /\ m.tag \in Nat /\ m.content \in SUBSET Modifiers /\ ContentFits(m)
  BY <1>1, PendingShape
<1>3. /\ disk' = disk /\ mod' = mod
      /\ UNCHANGED <<writes, errors, scan, held, accepted, monitored, dirty, watching, watch_tag, fired,
                     frecv, reading, waiters>>
      /\ replacing' = m.who
      /\ fsent' = fsent \o abort \o <<[do |-> "replace", opts |-> opts], [do |-> "done", opts |-> opts]>>
      /\ flater' = IF replacing = "none" THEN Tail(flater) ELSE Append(Tail(flater), failed)
  BY DEF FileLater, outside, UpdateRuns, ExpectedTag
<1> HIDE DEF m
<1>4. /\ [do |-> "replace", opts |-> opts] \in SentFitting
      /\ [do |-> "done", opts |-> opts] \in SentFitting
  BY <1>2 DEF SentFitting, Sent, Options, SentFits, ContentFits
<1>5. abort \in Seq(SentFitting)
  BY PlainFits
<1> HIDE DEF opts, abort
<1>6. fsent' \in Seq(SentFitting)
  <2>1. fsent \o abort \in Seq(SentFitting)
    BY <1>5, ConcatProperties DEF ChangesInv
  <2>2. <<[do |-> "replace", opts |-> opts], [do |-> "done", opts |-> opts]>> \in Seq(SentFitting)
    BY <1>4
  <2> QED BY <1>3, <2>1, <2>2, ConcatProperties
<1>7. flater' \in Seq(PendingFitting)
  <2>1. replacing # "none" => failed \in PendingFitting
    BY DEF ChangesInv, FileTypes, PendingFitting, Pending, PendingFits
  <2> HIDE DEF failed
  <2> QED BY <1>1, <1>3, <2>1
<1>8. FileTypes'
  BY <1>2, <1>3 DEF ChangesInv, FileTypes
<1>9. NoChangeLost'
  BY <1>3 DEF ChangesInv, NoChangeLost
<1> QED BY <1>3, <1>6, <1>7, <1>8, <1>9, SameFile DEF ChangesInv

\* The other handlers of promises: a conflict reads again, the rest settles a call of
\* modify().
LEMMA FileLaterChanges ==
  ASSUME ChangesInv, FileLater
  PROVE  ChangesInv'
<1> DEFINE m == Head(flater)
<1>1. m \in PendingFitting /\ Tail(flater) \in Seq(PendingFitting)
  BY DEF ChangesInv, FileLater
<1>2. disk' = disk /\ UNCHANGED <<writes, errors, scan, held, accepted, monitored, dirty, watching,
                                   watch_tag, fired, frecv>>
  BY DEF FileLater, outside
<1>3. CASE m.do = "update"
  BY <1>3, UpdateRunsChanges
<1>4. CASE m.do = "replace-conflict"
  <2>1. Read(fsent, <<m.who>>) /\ flater' = Tail(flater) /\ UNCHANGED <<mod, replacing>>
    BY <1>4 DEF FileLater
  <2>2. <<m.who>> \in Seq(Modifiers)
    BY <1>1, PendingShape
  <2>3. reading' \in BOOLEAN /\ waiters' \in Seq(Modifiers) /\ fsent' \in Seq(SentFitting)
    BY <2>1, <2>2, ReadFits DEF ChangesInv
  <2>4. FileTypes'
    BY <1>2, <2>1, <2>3 DEF ChangesInv, FileTypes
  <2>5. NoChangeLost'
    BY <1>2, <2>1 DEF ChangesInv, NoChangeLost
  <2> QED BY <1>1, <1>2, <2>1, <2>3, <2>4, <2>5, SameFile DEF ChangesInv
<1>5. CASE m.do \notin {"update", "replace-conflict"}
  <2> DEFINE settled == IF m.do = "replace-ok" THEN "resolved" ELSE "rejected"
  <2>1. /\ mod' = [mod EXCEPT ![m.who] = settled]
        /\ flater' = Tail(flater) /\ UNCHANGED <<reading, waiters, replacing, fsent>>
    BY <1>5 DEF FileLater
  <2>2. m.who \in Modifiers /\ (settled = "resolved" => m.who \in disk.content)
    BY <1>1, PendingShape
  <2>3. settled \in {"resolved", "rejected"}
    OBVIOUS
  <2> HIDE DEF m, settled
  <2>4. FileTypes'
    BY <1>2, <2>1, <2>2, <2>3 DEF ChangesInv, FileTypes
  <2>5. NoChangeLost'
    BY <1>2, <2>1, <2>2 DEF ChangesInv, FileTypes, NoChangeLost
  <2> QED BY <1>1, <1>2, <2>1, <2>4, <2>5, SameFile DEF ChangesInv
<1> QED BY <1>3, <1>4, <1>5

\* close() drops the read that is under way and fails what waits.
LEMMA CloseFileChanges ==
  ASSUME ChangesInv, CloseFile
  PROVE  ChangesInv'
<1> DEFINE failed == [do |-> "fail", who |-> replacing]
           aborted == IF replacing = "none" THEN <<>> ELSE <<failed>>
           unwatch == IF watching = "on" THEN <<[do |-> "unwatch"]>> ELSE <<>>
<1>1. /\ errors' = errors + 1 /\ reading' = FALSE /\ waiters' = <<>> /\ replacing' = "none" /\ scan' = 0
      /\ watching' = IF watching = "on" THEN "closed" ELSE watching
      /\ UNCHANGED <<disk, writes, held, accepted, monitored, dirty, mod>>
      /\ flater' = flater \o Handlers("fail", 0, {}) \o aborted
      /\ fsent' = Without(fsent, {"read"}) \o unwatch
      /\ frecv' = Without(frecv, Kinds)
  BY DEF CloseFile, Kinds
<1>2. watch_tag' \in Nat /\ fired' \in Nat
  BY DEF CloseFile, Fire, ChangesInv, FileTypes
<1>3. aborted \in Seq(PendingFitting) /\ Handlers("fail", 0, {}) \in Seq(PendingFitting)
  <2>1. replacing # "none" => failed \in PendingFitting
    BY DEF ChangesInv, FileTypes, PendingFitting, Pending, PendingFits
  <2> HIDE DEF failed
  <2>2. aborted \in Seq(PendingFitting)
    BY <2>1
  <2> QED BY <2>2, HandlersFit DEF ChangesInv
<1>4. unwatch \in Seq(SentFitting) /\ Without(fsent, {"read"}) \in Seq(SentFitting)
  BY PlainFits, WithoutProperties DEF ChangesInv
<1> HIDE DEF aborted, unwatch
<1>5. fsent' \in Seq(SentFitting)
  BY <1>1, <1>4, ConcatProperties
<1>6. flater' \in Seq(PendingFitting)
  <2>1. flater \o Handlers("fail", 0, {}) \in Seq(PendingFitting)
    BY <1>3, ConcatProperties DEF ChangesInv
  <2> QED BY <1>1, <1>3, <2>1, ConcatProperties
<1>7. frecv' \in Seq(ReceivedFitting)
  BY <1>1, WithoutProperties DEF ChangesInv
<1>8. FileTypes'
  <2>1. waiters' \in Seq(Modifiers) /\ watching' \in {"none", "on", "closed", "removed"}
    BY <1>1 DEF ChangesInv, FileTypes
  <2>2. /\ errors' = errors + 1 /\ reading' = FALSE /\ replacing' = "none" /\ scan' = 0
        /\ UNCHANGED <<disk, writes, held, monitored, dirty, mod>>
    BY <1>1
  <2>3. reading' \in BOOLEAN
    BY <2>2
  <2>5. errors' \in Nat /\ scan' \in Nat
    BY <2>2 DEF ChangesInv, FileTypes
  <2>4. /\ disk' \in [tag : Nat \ {0}, content : SUBSET Modifiers] /\ writes' \in Nat
        /\ held' \in [tag : Nat \ {0}, content : SUBSET Modifiers] /\ monitored' \in BOOLEAN
        /\ dirty' \in BOOLEAN /\ mod' \in [Modifiers -> {"none", "busy", "resolved", "rejected"}]
        /\ replacing' \in Modifiers \cup {"none"}
    BY <2>2 DEF ChangesInv, FileTypes
  <2> QED BY <1>2, <2>1, <2>3, <2>4, <2>5 DEF FileTypes
<1>9. NoChangeLost'
  BY <1>1 DEF ChangesInv, NoChangeLost
<1> QED BY <1>1, <1>5, <1>6, <1>7, <1>8, <1>9, SameFile DEF ChangesInv

-----------------------------------------------------------------------------
(* The steps of the bridge and of others.                                  *)

\* The file changes: the tag is new, and nothing that was in it is lost.
LEMMA WriteChanges ==
  ASSUME ChangesInv, NEW content \in SUBSET Modifiers, disk.content \subseteq content,
         disk' = [tag |-> disk.tag + 1, content |-> content], mod' = mod, held' \in {held, disk'}
  PROVE  /\ disk' \in [tag : Nat \ {0}, content : SUBSET Modifiers]
         /\ held' \in [tag : Nat \ {0}, content : SUBSET Modifiers] /\ ContentFits(held)'
         /\ fsent \in Seq(SentFitting') /\ frecv \in Seq(ReceivedFitting')
         /\ flater \in Seq(PendingFitting') /\ NoChangeLost'
<1>1. disk.tag \in Nat /\ disk'.tag = disk.tag + 1 /\ disk'.content = content
  BY DEF ChangesInv, FileTypes
<1>2. NoChangeLost'
  BY <1>1 DEF ChangesInv, NoChangeLost
<1>3. /\ SentFitting \subseteq SentFitting' /\ ReceivedFitting \subseteq ReceivedFitting'
      /\ PendingFitting \subseteq PendingFitting'
  BY NewTag DEF ChangesInv
<1>4. fsent \in Seq(SentFitting') /\ frecv \in Seq(ReceivedFitting') /\ flater \in Seq(PendingFitting')
  BY <1>3, SeqOfLarger DEF ChangesInv
<1>5. disk' \in [tag : Nat \ {0}, content : SUBSET Modifiers]
  BY <1>1
<1>6. held' \in [tag : Nat \ {0}, content : SUBSET Modifiers] /\ ContentFits(held)'
  <2>1. CASE held' = held
    <3>1. held.tag \in 1 .. disk'.tag /\ held.tag # disk'.tag
      BY NewTag DEF ChangesInv
    <3> QED BY <2>1, <3>1 DEF ContentFits, ChangesInv, FileTypes
  <2>2. CASE held' = disk'
    <3>1. held'.tag \in 1 .. disk'.tag
      BY <1>1, <2>2
    <3> QED BY <1>5, <2>2, <3>1 DEF ContentFits
  <2> QED BY <2>1, <2>2
<1> QED BY <1>2, <1>4, <1>5, <1>6

\* fsreplace1 is done: it replaces the file only if the tag it was given is the
\* file's, and then the content it writes has what was there.
LEMMA CompleteChanges ==
  ASSUME ChangesInv, BridgeTakes, Head(fsent).do = "done", Complete(Head(fsent).opts)
  PROVE  ChangesInv'
<1> DEFINE m == Head(fsent)
           opts == m.opts
<1>1. m \in SentFitting /\ fsent' = Tail(fsent) /\ Tail(fsent) \in Seq(SentFitting)
  BY DEF ChangesInv, BridgeTakes
<1>2. opts \in Options /\ SentFits(m)
  BY <1>1, SentShape
<1>3. UNCHANGED <<reading, waiters, mod, replacing, watching, watch_tag, fired, flater, writes, errors, scan,
                held, monitored>>
  BY DEF BridgeTakes, page, Complete
<1>4. /\ opts.who \in Modifiers /\ opts.content \in SUBSET Modifiers /\ opts.tag # 0
      /\ opts.tag = disk.tag => opts.content = disk.content \cup {opts.who}
  BY <1>2 DEF Options, SentFits
<1>5. CASE opts.tag \in {0, disk.tag}
  <2> DEFINE ok == [do |-> "replace-ok", who |-> opts.who, tag |-> disk.tag + 1, late |-> ~monitored]
  <2>1. /\ disk' = [tag |-> disk.tag + 1, content |-> opts.content] /\ dirty' = monitored
        /\ frecv' = Append(frecv, ok)
    BY <1>5 DEF Complete, Changes
  <2>2. disk.content \subseteq opts.content /\ opts.who \in opts.content
    BY <1>4, <1>5
  <2>3. /\ disk' \in [tag : Nat \ {0}, content : SUBSET Modifiers]
        /\ held' \in [tag : Nat \ {0}, content : SUBSET Modifiers] /\ ContentFits(held)'
        /\ fsent \in Seq(SentFitting') /\ frecv \in Seq(ReceivedFitting')
        /\ flater \in Seq(PendingFitting') /\ NoChangeLost'
    BY <1>3, <1>4, <2>1, <2>2, WriteChanges
  <2>4. ok \in ReceivedFitting'
    <3>1. disk.tag + 1 \in Nat /\ opts.who \in disk'.content /\ (~monitored) \in BOOLEAN
      BY <2>1, <2>2 DEF ChangesInv, FileTypes
    <3> QED BY <1>4, <3>1 DEF ReceivedFitting, Received, ReceivedFits
  <2>5. FileTypes'
    BY <1>3, <2>1, <2>3 DEF ChangesInv, FileTypes
  <2> HIDE DEF ok
  <2>6. frecv' \in Seq(ReceivedFitting')
    BY <2>1, <2>3, <2>4
  <2>7. fsent' \in Seq(SentFitting') /\ flater' \in Seq(PendingFitting')
    BY <1>1, <1>3, <2>3 DEF BridgeTakes
  <2> QED BY <2>3, <2>5, <2>6, <2>7 DEF ChangesInv
<1>6. CASE opts.tag \notin {0, disk.tag}
  <2> DEFINE late == [do |-> "out-of-date", who |-> opts.who]
  <2>1. disk' = disk /\ dirty' = dirty /\ frecv' = Append(frecv, late)
    BY <1>6 DEF Complete
  <2>2. late \in ReceivedFitting
    BY <1>4 DEF ReceivedFitting, Received, ReceivedFits
  <2> HIDE DEF late
  <2>3. frecv' \in Seq(ReceivedFitting)
    BY <2>1, <2>2 DEF ChangesInv
  <2>4. FileTypes'
    BY <1>3, <2>1 DEF ChangesInv, FileTypes
  <2>5. NoChangeLost'
    BY <1>3, <2>1 DEF ChangesInv, NoChangeLost
  <2> QED BY <1>1, <1>3, <2>1, <2>3, <2>4, <2>5, SameFile DEF ChangesInv
<1> QED BY <1>5, <1>6

\* The bridge takes the next message.
LEMMA BridgeTakesChanges ==
  ASSUME ChangesInv, BridgeTakes
  PROVE  ChangesInv'
<1> DEFINE m == Head(fsent)
<1>1. m \in SentFitting /\ fsent' = Tail(fsent) /\ Tail(fsent) \in Seq(SentFitting)
  BY DEF ChangesInv, BridgeTakes
<1>2. UNCHANGED <<reading, waiters, mod, replacing, watching, watch_tag, fired, flater, writes, errors>>
  BY DEF BridgeTakes, page
<1>3. CASE m.do = "done" /\ Complete(m.opts)
  BY <1>3, CompleteChanges
<1>4. CASE ~(m.do = "done" /\ Complete(m.opts))
  <2>1. /\ disk' = disk /\ scan' \in Nat /\ dirty' \in BOOLEAN /\ monitored' \in BOOLEAN
        /\ held' \in {held, disk} /\ frecv' \in Seq(ReceivedFitting)
    <3>1. CASE m.do = "replace" /\ Opens(m.opts)
      <4>1. m.opts \in Options
        BY <1>1, <3>1, SentShape
      <4> DEFINE conflict == [do |-> "replace-conflict", who |-> m.opts.who]
      <4>2. conflict \in ReceivedFitting
        BY <4>1 DEF Options, ReceivedFitting, Received, ReceivedFits
      <4>3. UNCHANGED <<disk, scan, held, monitored, dirty>> /\ frecv' \in {frecv, Append(frecv, conflict)}
        BY <3>1 DEF Opens
      <4> HIDE DEF conflict
      <4>4. frecv' \in Seq(ReceivedFitting)
        BY <4>2, <4>3, SMTT(40) DEF ChangesInv
      <4>5. scan \in Nat /\ dirty \in BOOLEAN /\ monitored \in BOOLEAN
        BY DEF ChangesInv, FileTypes
      <4> QED BY <4>3, <4>4, <4>5
    <3>2. CASE ~(m.do = "replace" /\ Opens(m.opts))
      <4>1. /\ disk' = disk /\ scan' \in {scan, disk.tag} /\ dirty' \in {dirty, FALSE} /\ frecv' = frecv
            /\ held' \in {held, disk} /\ monitored' \in {monitored, TRUE, FALSE}
        BY <1>4, <3>2 DEF BridgeTakes, Monitors
      <4> QED BY <4>1 DEF ChangesInv, FileTypes
    <3> QED BY <3>1, <3>2
  <2>2. FileTypes'
    BY <1>2, <2>1 DEF ChangesInv, FileTypes
  <2>3. NoChangeLost'
    BY <1>2, <2>1 DEF ChangesInv, NoChangeLost
  <2>4. ContentFits(held)'
    <3>1. disk.tag \in 1 .. disk.tag
      BY DEF ChangesInv, FileTypes
    <3> QED BY <2>1, <3>1 DEF ChangesInv, ContentFits
  <2> QED BY <1>1, <1>2, <2>1, <2>2, <2>3, <2>4, SameFile DEF ChangesInv
<1> QED BY <1>3, <1>4

\* A read ends: what it delivers is the content that goes with its tag.
LEMMA BridgeHasReadChanges ==
  ASSUME ChangesInv, BridgeHasRead
  PROVE  ChangesInv'
<1> DEFINE ok == [do |-> "read-ok", tag |-> held.tag, content |-> held.content,
                  late |-> held # disk \/ ~monitored]
<1>1. /\ ok \in ReceivedFitting /\ [do |-> "read-conflict"] \in ReceivedFitting
      /\ [do |-> "read-error"] \in ReceivedFitting
  BY DEF ChangesInv, FileTypes, ReceivedFitting, Received, ReceivedFits, ContentFits
<1>2. /\ UNCHANGED <<reading, waiters, mod, replacing, watching, watch_tag, fired, flater, disk, writes,
                     held, accepted, monitored, dirty, fsent>>
      /\ scan' = 0 /\ errors' \in {errors, errors + 1}
      /\ \E m \in {ok, [do |-> "read-conflict"], [do |-> "read-error"]} : frecv' = Append(frecv, m)
  BY DEF BridgeHasRead, page
<1> HIDE DEF ok
<1>3. frecv' \in Seq(ReceivedFitting)
  BY <1>1, <1>2 DEF ChangesInv
<1>4. FileTypes'
  BY <1>2 DEF ChangesInv, FileTypes
<1>5. NoChangeLost'
  BY <1>2 DEF ChangesInv, NoChangeLost
<1> QED BY <1>2, <1>3, <1>4, <1>5, SameFile DEF ChangesInv

\* fswatch1 tells of a change.
LEMMA BridgeNoticesChanges ==
  ASSUME ChangesInv, BridgeNotices
  PROVE  ChangesInv'
<1>1. [do |-> "changed", tag |-> disk.tag] \in ReceivedFitting
  BY DEF ChangesInv, FileTypes, ReceivedFitting, Received, ReceivedFits
<1>2. /\ UNCHANGED <<reading, waiters, mod, replacing, watching, watch_tag, fired, flater, disk, writes,
                     errors, scan, held, accepted, monitored, fsent>>
      /\ dirty' = FALSE /\ frecv' = Append(frecv, [do |-> "changed", tag |-> disk.tag])
  BY DEF BridgeNotices, page
<1>3. frecv' \in Seq(ReceivedFitting)
  BY <1>1, <1>2, SMTT(40) DEF ChangesInv
<1>4. FileTypes'
  BY <1>2 DEF ChangesInv, FileTypes
<1>5. NoChangeLost'
  BY <1>2 DEF ChangesInv, NoChangeLost
<1> QED BY <1>2, <1>3, <1>4, <1>5, SameFile DEF ChangesInv

\* Another program writes to the file.
LEMMA OtherWritesChanges ==
  ASSUME ChangesInv, NEW inplace \in BOOLEAN, OtherWrites(inplace)
  PROVE  ChangesInv'
<1>1. /\ UNCHANGED <<reading, waiters, mod, replacing, watching, watch_tag, fired, flater, errors, scan,
                     accepted, monitored, fsent, frecv>>
      /\ writes' = writes + 1 /\ dirty' = monitored /\ held' \in {held, disk'}
      /\ disk' = [tag |-> disk.tag + 1, content |-> disk.content]
  BY DEF OtherWrites, Changes, page
<1>2. disk.content \in SUBSET Modifiers
  BY DEF ChangesInv, FileTypes
<1>3. /\ disk' \in [tag : Nat \ {0}, content : SUBSET Modifiers]
      /\ held' \in [tag : Nat \ {0}, content : SUBSET Modifiers] /\ ContentFits(held)'
      /\ fsent \in Seq(SentFitting') /\ frecv \in Seq(ReceivedFitting')
      /\ flater \in Seq(PendingFitting') /\ NoChangeLost'
  BY <1>1, <1>2, WriteChanges
<1>4. FileTypes'
  BY <1>1, <1>3 DEF ChangesInv, FileTypes
<1> QED BY <1>1, <1>3, <1>4 DEF ChangesInv

\* The invariant holds whatever the page, the bridge and others do.
THEOREM ChangesSafe == FileSpec => []ChangesInv
<1>1. FileInit => ChangesInv
  <2> SUFFICES ASSUME FileInit PROVE ChangesInv
    OBVIOUS
  <2>1. FileTypes
    <3>1. waiters \in Seq(Modifiers) /\ mod \in [Modifiers -> {"none", "busy", "resolved", "rejected"}]
      BY EmptySeq DEF FileInit
    <3>2. disk \in [tag : Nat \ {0}, content : SUBSET Modifiers] /\ held = disk
      BY DEF FileInit
    <3> QED BY <3>1, <3>2 DEF FileInit, FileTypes
  <2>2. NoChangeLost /\ ContentFits(held)
    BY DEF FileInit, NoChangeLost, ContentFits
  <2> QED BY <2>1, <2>2, EmptySeq DEF FileInit, ChangesInv
<1>2. ChangesInv /\ [FileNext]_filevars => ChangesInv'
  <2> SUFFICES ASSUME ChangesInv, [FileNext]_filevars PROVE ChangesInv'
    OBVIOUS
  <2>1. CASE FileNext
    BY <2>1, ModifyChanges, WatchChanges, UnwatchChanges, FileMessageChanges, FileLaterChanges,
       CloseFileChanges, BridgeTakesChanges, BridgeHasReadChanges, BridgeNoticesChanges,
       OtherWritesChanges DEF FileNext
  <2>2. CASE UNCHANGED filevars
    BY <2>2, SameFile DEF filevars, ChangesInv, FileTypes, NoChangeLost
  <2> QED BY <2>1, <2>2
<1> QED BY <1>1, <1>2, PTL DEF FileSpec

\* A change that modify() has reported as made stays in the file, for any
\* number of concurrent calls and of writes by others.
THEOREM NoChangeLostAlways == FileSpec => []NoChangeLost
<1>1. ChangesInv => NoChangeLost
  BY DEF ChangesInv
<1> QED BY <1>1, ChangesSafe, PTL

-----------------------------------------------------------------------------
(* The watch.                                                              *)

\* Where the messages of some kinds are.
At(s, kinds) == {n \in DOMAIN s : s[n].do \in kinds}

Asked == At(fsent, {"read"})
Answered == At(frecv, Kinds)

\* There is one read at a time, and it is on its way to the bridge, there, or on
\* its way back.
OneRead ==
  /\ \A i, j \in Asked : i = j
  /\ \A i, j \in Answered : i = j
  /\ scan # 0 => Asked = {} /\ Answered = {}
  /\ Asked = {} \/ Answered = {}
  /\ reading = (Asked # {} \/ scan # 0 \/ Answered # {})

\* A notification of the change is to come, after position n if it is on its way.
Announced(n) ==
  \/ dirty
  \/ \E k \in At(frecv, {"changed"}) : k > n /\ frecv[k].tag = disk.tag

Oks == {"read-ok", "replace-ok"}

\* A message with an old tag is known to be late, or followed by a notification.
OldIsFollowed ==
  \A n \in At(frecv, Oks) : frecv[n].tag # disk.tag => frecv[n].late \/ Announced(n)

\* The watch has seen the file, or will, or what it has seen last was late.
WillSee ==
  \/ Announced(0)
  \/ Asked # {} \/ scan # 0
  \/ \E n \in Answered : frecv[n].do = "read-ok" => frecv[n].late \/ frecv[n].tag = disk.tag
  \/ overtaken
  \/ fired = disk.tag
  \/ fired = 0 /\ errors > 0

Watches == At(fsent, {"watch"})
Unwatches == At(fsent, {"unwatch"})

\* Before the bridge watches the file, all it sends is late, and the read that
\* watch() has asked for, or has found under way, is not over or was late.
AllLate == \A n \in At(frecv, Oks) : frecv[n].late

Underway == Asked # {} \/ scan # 0 \/ Answered # {} \/ overtaken \/ (fired = 0 /\ errors > 0)

\* The bridge watches the file unless the request to do so is on its way.
MonitorInv ==
  /\ watching \in {"none", "on"} => Unwatches = {}
  /\ watching = "none" => Watches = {} /\ ~monitored
  /\ watching = "on" => (monitored <=> Watches = {}) /\ \A i, j \in Watches : i = j
  /\ watching \in {"none", "on"} /\ ~monitored => AllLate /\ ~dirty
  /\ watching = "on" /\ ~monitored => Underway

\* The inductive invariant for WatchIsCurrent, on top of the types in ChangesInv.
WatchInv ==
  /\ OneRead /\ MonitorInv
  /\ At(frecv, {"read-error"}) # {} => errors > 0
  /\ watching = "none" => fired = 0
  /\ watching = "on" => fired = watch_tag /\ OldIsFollowed /\ WillSee

\* A step that neither asks for the watch nor gives it up.
LEMMA MonitorKept ==
  ASSUME MonitorInv, UNCHANGED <<watching, monitored>>,
         Watches' = {} <=> Watches = {}, (\A i, j \in Watches : i = j) => \A i, j \in Watches' : i = j,
         Unwatches = {} => Unwatches' = {},
         watching \in {"none", "on"} /\ ~monitored /\ AllLate /\ ~dirty => AllLate' /\ ~dirty',
         watching = "on" /\ ~monitored /\ AllLate /\ Underway => Underway'
  PROVE  MonitorInv'
  BY DEF MonitorInv

\* While the request to watch is on its way, that is enough.
LEMMA EarlySees ==
  ASSUME AllLate', Underway'
  PROVE  OldIsFollowed' /\ WillSee'
<1>1. OldIsFollowed'
  BY DEF AllLate, OldIsFollowed
<1>2. ASSUME NEW n \in Answered', frecv'[n].do = "read-ok"
      PROVE  frecv'[n].late
  <2>1. n \in At(frecv', Oks)
    BY <1>2 DEF Answered, At, Oks
  <2> QED BY <2>1 DEF AllLate
<1> QED BY <1>1, <1>2 DEF WillSee, Underway

\* A message at the end.
LEMMA AtAppend ==
  ASSUME NEW S, NEW s \in Seq(S), NEW e, NEW kinds
  PROVE  /\ e.do \in kinds => At(Append(s, e), kinds) = At(s, kinds) \cup {Len(s) + 1}
         /\ e.do \notin kinds => At(Append(s, e), kinds) = At(s, kinds)
         /\ At(s, kinds) \subseteq 1 .. Len(s) /\ Len(s) \in Nat
         /\ \A n \in At(s, kinds) : Append(s, e)[n] = s[n]
         /\ Append(s, e)[Len(s) + 1] = e
<1>1. Len(s) \in Nat /\ DOMAIN s = 1 .. Len(s)
  OBVIOUS
<1>2. DOMAIN Append(s, e) = 1 .. Len(s) + 1
  OBVIOUS
<1>3. Append(s, e)[Len(s) + 1] = e /\ \A n \in 1 .. Len(s) : Append(s, e)[n] = s[n]
  OBVIOUS
<1>4. DOMAIN Append(s, e) = DOMAIN s \cup {Len(s) + 1}
  BY <1>1, <1>2
<1> QED BY <1>1, <1>3, <1>4 DEF At

\* The first message is taken.
LEMMA AtTail ==
  ASSUME NEW S, NEW s \in Seq(S), s # <<>>, NEW kinds
  PROVE  /\ \A n \in At(Tail(s), kinds) : n + 1 \in At(s, kinds) /\ Tail(s)[n] = s[n + 1]
         /\ \A n \in At(s, kinds) : n # 1 => n - 1 \in At(Tail(s), kinds) /\ Tail(s)[n - 1] = s[n]
         /\ 1 \in At(s, kinds) <=> Head(s).do \in kinds
         /\ s[1] = Head(s) /\ At(s, kinds) \subseteq Nat \ {0} /\ At(Tail(s), kinds) \subseteq Nat \ {0}
<1>1. Len(s) \in Nat \ {0} /\ DOMAIN s = 1 .. Len(s)
  BY EmptySeq
<1>2. /\ Tail(s) \in Seq(S) /\ DOMAIN Tail(s) = 1 .. Len(s) - 1
      /\ \A n \in 1 .. Len(s) - 1 : Tail(s)[n] = s[n + 1]
  BY <1>1
<1>3. Head(s) = s[1]
  BY <1>1
<1>4. \A n \in 1 .. Len(s) : n # 1 => n - 1 \in 1 .. Len(s) - 1 /\ n - 1 + 1 = n
  BY <1>1
<1>5. \A n \in 1 .. Len(s) - 1 : n + 1 \in 1 .. Len(s)
  BY <1>1
<1>6. \A n \in At(s, kinds) : n # 1 => n - 1 \in At(Tail(s), kinds) /\ Tail(s)[n - 1] = s[n]
  BY <1>1, <1>2, <1>4 DEF At
<1>7. \A n \in At(Tail(s), kinds) : n + 1 \in At(s, kinds) /\ Tail(s)[n] = s[n + 1]
  BY <1>1, <1>2, <1>5 DEF At
<1> QED BY <1>1, <1>2, <1>3, <1>6, <1>7 DEF At

\* Messages of other kinds at the end.
LEMMA AtConcat ==
  ASSUME NEW S, NEW s \in Seq(S), NEW t \in Seq(S), NEW kinds, At(t, kinds) = {}
  PROVE  At(s \o t, kinds) = At(s, kinds)
<1>1. Len(s) \in Nat /\ DOMAIN s = 1 .. Len(s) /\ Len(t) \in Nat /\ DOMAIN t = 1 .. Len(t)
  OBVIOUS
<1>2. s \o t \in Seq(S) /\ DOMAIN (s \o t) = 1 .. Len(s) + Len(t)
  BY ConcatProperties
<1>3. \A n \in 1 .. Len(s) : (s \o t)[n] = s[n] /\ n \in 1 .. Len(s) + Len(t)
  BY <1>1, ConcatProperties
<1>4. ASSUME NEW n \in At(s \o t, kinds), n \notin 1 .. Len(s)
      PROVE  FALSE
  <2>1. n \in 1 .. Len(s) + Len(t) /\ (s \o t)[n].do \in kinds
    BY <1>2 DEF At
  <2>2. n - Len(s) \in 1 .. Len(t) /\ (s \o t)[n] = t[n - Len(s)]
    BY <1>1, <1>4, <2>1, ConcatProperties
  <2> QED BY <1>1, <2>1, <2>2 DEF At
<1> QED BY <1>1, <1>2, <1>3, <1>4 DEF At

\* close() takes the one read away.
LEMMA AtWithout ==
  ASSUME NEW S, NEW s \in Seq(S), NEW kinds, \A i, j \in At(s, kinds) : i = j
  PROVE  At(Without(s, kinds), kinds) = {}
<1> SUFFICES ASSUME NEW k \in At(Without(s, kinds), kinds) PROVE FALSE
  OBVIOUS
<1>1. PICK i \in DOMAIN s : /\ Without(s, kinds)[k] = s[i]
                            /\ s[i].do \in kinds => \E j \in DOMAIN s \ {i} : s[j].do \in kinds
  BY WithoutProperties DEF At
<1> QED BY <1>1 DEF At

\* A call of read() starts one read unless there is one.
LEMMA ReadOne ==
  ASSUME ChangesInv, OneRead, NEW sent \in Seq(SentFitting), At(sent, {"read"}) = Asked, NEW who,
         Read(sent, who), UNCHANGED <<frecv, scan>>
  PROVE  /\ OneRead' /\ (Asked # {} \/ ~reading => Asked' # {})
         /\ At(sent, {"watch"}) = Watches' /\ At(sent, {"unwatch"}) = Unwatches'
<1>1. Asked' = At(fsent', {"read"}) /\ Answered' = Answered /\ scan' = scan /\ reading' = TRUE
  BY DEF Asked, Answered, Read
<1>2. CASE reading
  <2>1. fsent' = sent
    BY <1>2 DEF Read
  <2>2. Asked' = Asked
    BY <1>1, <2>1
  <2> QED BY <1>1, <1>2, <2>1, <2>2 DEF OneRead, Watches, Unwatches
<1>3. CASE ~reading
  <2>1. fsent' = Append(sent, [do |-> "read"])
    BY <1>3 DEF Read
  <2>2. Asked = {} /\ scan = 0 /\ Answered = {}
    BY <1>3 DEF OneRead
  <2>3. Asked' = {Len(sent) + 1}
    BY <1>1, <2>1, <2>2, AtAppend
  <2>4. At(sent, {"watch"}) = Watches' /\ At(sent, {"unwatch"}) = Unwatches'
    <3>1. [do |-> "read"].do \notin {"watch"} /\ [do |-> "read"].do \notin {"unwatch"}
      OBVIOUS
    <3> QED BY <2>1, <3>1, AtAppend DEF Watches, Unwatches
  <2> QED BY <1>1, <2>2, <2>3, <2>4 DEF OneRead
<1> QED BY <1>2, <1>3 DEF ChangesInv, FileTypes

\* What the watch will see is still to come when the page sends something.
LEMMA SeesStill ==
  ASSUME UNCHANGED <<disk, dirty, frecv, scan, fired, overtaken, errors, watching, monitored>>,
         Asked # {} => Asked' # {}, Watches' = Watches, Unwatches' = Unwatches
  PROVE  /\ OldIsFollowed => OldIsFollowed'
         /\ WillSee => WillSee'
         /\ MonitorInv => MonitorInv'
<1>1. \A n : Announced(n) => Announced(n)'
  BY DEF Announced
<1>2. (AllLate => AllLate') /\ (Underway => Underway')
  BY DEF AllLate, Underway, Answered
<1>3. MonitorInv => MonitorInv'
  BY <1>2, MonitorKept
<1> QED BY <1>1, <1>3 DEF OldIsFollowed, WillSee, Answered

\* modify()
LEMMA ModifyWatch ==
  ASSUME ChangesInv, WatchInv, NEW i \in Modifiers, Modify(i)
  PROVE  WatchInv'
<1>1. /\ Read(fsent, <<i>>)
      /\ UNCHANGED <<disk, dirty, frecv, scan, fired, overtaken, errors, watching, watch_tag, monitored>>
  BY DEF Modify, outside
<1>2. OneRead' /\ (Asked # {} => Asked' # {}) /\ Watches' = Watches /\ Unwatches' = Unwatches
  BY <1>1, ReadOne DEF WatchInv, Asked, Watches, Unwatches, ChangesInv
<1> QED BY <1>1, <1>2, SeesStill DEF WatchInv

\* watch()
LEMMA WatchWatch ==
  ASSUME ChangesInv, WatchInv, Watch
  PROVE  WatchInv'
<1> DEFINE sent == Append(fsent, [do |-> "watch"])
<1>1. /\ Read(sent, <<>>) /\ watching = "none" /\ watching' = "on" /\ watch_tag' = 0
      /\ UNCHANGED <<disk, dirty, frecv, scan, fired, overtaken, errors, monitored>>
  BY DEF Watch, outside
<1>2. sent \in Seq(SentFitting)
  BY PlainFits DEF ChangesInv
<1>3. /\ At(sent, {"read"}) = Asked /\ At(sent, {"watch"}) = {Len(fsent) + 1}
      /\ At(sent, {"unwatch"}) = {}
  <2>1. fsent \in Seq(SentFitting) /\ Watches = {} /\ Unwatches = {}
    BY <1>1 DEF ChangesInv, WatchInv, MonitorInv
  <2>2. /\ [do |-> "watch"].do \notin {"read"} /\ [do |-> "watch"].do \in {"watch"}
        /\ [do |-> "watch"].do \notin {"unwatch"}
    OBVIOUS
  <2> QED BY <2>1, <2>2, AtAppend DEF Asked, Watches, Unwatches
<1> HIDE DEF sent
<1>4. OneRead' /\ Watches' = {Len(fsent) + 1} /\ Unwatches' = {}
  BY <1>1, <1>2, <1>3, ReadOne DEF WatchInv
<1>5. reading' = TRUE
  BY <1>1 DEF Read
<1>6. Underway'
  BY <1>4, <1>5 DEF OneRead, Underway
<1>7. AllLate' /\ ~dirty' /\ ~monitored'
  BY <1>1 DEF WatchInv, MonitorInv, AllLate
<1>8. MonitorInv'
  BY <1>1, <1>4, <1>6, <1>7 DEF MonitorInv
<1>9. OldIsFollowed' /\ WillSee'
  BY <1>6, <1>7, EarlySees
<1> QED BY <1>1, <1>4, <1>8, <1>9 DEF WatchInv

\* The watch is removed.
LEMMA UnwatchWatch ==
  ASSUME ChangesInv, WatchInv, Unwatch
  PROVE  WatchInv'
<1>1. /\ watching' = "removed" /\ UNCHANGED <<frecv, scan, reading, errors>>
      /\ fsent' \in {fsent, Append(fsent, [do |-> "unwatch"])}
  BY DEF Unwatch, outside
<1>2. Asked' = Asked
  <2>1. fsent \in Seq(SentFitting)
    BY DEF ChangesInv
  <2>2. [do |-> "unwatch"].do \notin {"read"}
    OBVIOUS
  <2>3. At(Append(fsent, [do |-> "unwatch"]), {"read"}) = At(fsent, {"read"})
    BY <2>1, <2>2, AtAppend
  <2> QED BY <1>1, <2>3 DEF Asked
<1> QED BY <1>1, <1>2 DEF WatchInv, MonitorInv, OneRead, Answered

\* A handler of a promise.
LEMMA FileLaterWatch ==
  ASSUME ChangesInv, WatchInv, FileLater
  PROVE  WatchInv'
<1> DEFINE m == Head(flater)
<1>1. UNCHANGED <<disk, dirty, frecv, scan, fired, overtaken, errors, watching, watch_tag, monitored>>
  BY DEF FileLater, outside
<1>2. /\ OneRead' /\ (Asked # {} => Asked' # {})
      /\ Watches' = Watches /\ Unwatches' = Unwatches
  <2>1. CASE m.do = "update"
    <3> DEFINE opts == [who |-> m.who, tag |-> m.tag, content |-> m.content \cup {m.who}]
               done == <<[do |-> "replace", opts |-> opts], [do |-> "done", opts |-> opts]>>
               abort == IF replacing = "none" THEN <<>> ELSE <<[do |-> "abort"]>>
    <3>1. fsent' = fsent \o abort \o done /\ reading' = reading
      BY <2>1 DEF FileLater, UpdateRuns, ExpectedTag
    <3> HIDE DEF m, opts
    <3> DEFINE S == SentFitting \cup {[do |-> "replace", opts |-> opts], [do |-> "done", opts |-> opts]}
    <3>2. abort \in Seq(S) /\ \A k \in DOMAIN abort : abort[k].do = "abort"
      <4>1. [do |-> "abort"] \in S
        BY PlainFits
      <4> HIDE DEF S
      <4> QED BY <4>1
    <3>3. done \in Seq(S) /\ \A k \in DOMAIN done : done[k].do \in {"replace", "done"}
      OBVIOUS
    <3>4. fsent \in Seq(S)
      BY SeqOfLarger DEF ChangesInv
    <3> HIDE DEF abort, done, S
    <3>5. fsent \o abort \in Seq(S)
      BY <3>2, <3>4, ConcatProperties
    <3>6. ASSUME NEW kind \in {"read", "watch", "unwatch"}
          PROVE  At(fsent', {kind}) = At(fsent, {kind})
      <4> DEFINE kinds == {kind}
                 before == fsent \o abort
      <4>1. At(abort, kinds) = {} /\ At(done, kinds) = {}
        BY <3>2, <3>3 DEF At
      <4> HIDE DEF kinds
      <4>2. At(fsent \o abort, kinds) = At(fsent, kinds)
        BY <3>2, <3>4, <4>1, AtConcat
      <4>3. before \in Seq(S) /\ fsent' = before \o done /\ At(before, kinds) = At(fsent, kinds)
        BY <3>1, <3>5, <4>2
      <4> HIDE DEF before
      <4>4. At(fsent', kinds) = At(fsent, kinds)
        BY <3>3, <4>1, <4>3, AtConcat
      <4> QED BY <4>4 DEF kinds
    <3> QED BY <1>1, <3>1, <3>6 DEF WatchInv, OneRead, Asked, Answered, Watches, Unwatches
  <2>2. CASE m.do = "replace-conflict"
    BY <1>1, <2>2, ReadOne DEF FileLater, ChangesInv, WatchInv, Asked, Watches, Unwatches
  <2>3. CASE m.do \notin {"update", "replace-conflict"}
    BY <1>1, <2>3 DEF FileLater, WatchInv, OneRead, Asked, Answered, Watches, Unwatches
  <2> QED BY <2>1, <2>2, <2>3
<1> QED BY <1>1, <1>2, SeesStill DEF WatchInv

\* close(): the read that is under way is dropped on both sides, and the watch with it.
LEMMA CloseFileWatch ==
  ASSUME ChangesInv, WatchInv, CloseFile
  PROVE  WatchInv'
<1> DEFINE unwatch == IF watching = "on" THEN <<[do |-> "unwatch"]>> ELSE <<>>
<1>1. /\ reading' = FALSE /\ scan' = 0 /\ watching' = IF watching = "on" THEN "closed" ELSE watching
      /\ fsent' = Without(fsent, {"read"}) \o unwatch
      /\ frecv' = Without(frecv, Kinds) /\ UNCHANGED <<monitored, dirty>>
  BY DEF CloseFile, Kinds
<1>2. watching = "none" => fired' = fired
  BY DEF CloseFile, Fire
<1>3. Answered' = {}
  BY <1>1, AtWithout DEF ChangesInv, WatchInv, OneRead, Answered
<1>4. Asked' = {}
  <2>1. At(Without(fsent, {"read"}), {"read"}) = {}
    BY AtWithout DEF ChangesInv, WatchInv, OneRead, Asked
  <2>2. unwatch \in Seq(SentFitting) /\ \A k \in DOMAIN unwatch : unwatch[k].do = "unwatch"
    BY PlainFits
  <2>3. At(unwatch, {"read"}) = {}
    BY <2>2 DEF At
  <2>4. Without(fsent, {"read"}) \in Seq(SentFitting)
    BY WithoutProperties DEF ChangesInv
  <2> HIDE DEF unwatch
  <2> QED BY <1>1, <2>1, <2>2, <2>3, <2>4, AtConcat DEF Asked
<1>5. At(frecv', {"read-error"}) = {}
  BY <1>3 DEF Answered, At, Kinds
<1>6. watching' # "on" /\ (watching' = "none" => watching = "none")
  BY <1>1
<1>7. OneRead'
  BY <1>1, <1>3, <1>4 DEF OneRead
<1>8. MonitorInv'
  <2> SUFFICES ASSUME watching' = "none" PROVE MonitorInv'
    BY <1>6 DEF MonitorInv
  <2>1. watching = "none" /\ fsent' = Without(fsent, {"read"}) \o <<>>
    BY <1>1, <1>6
  <2>2. /\ Without(fsent, {"read"}) \in Seq(SentFitting)
        /\ \A k \in DOMAIN Without(fsent, {"read"}) :
             \E i \in DOMAIN fsent : Without(fsent, {"read"})[k] = fsent[i]
    BY WithoutProperties DEF ChangesInv
  <2>3. fsent' = Without(fsent, {"read"})
    BY <2>1, <2>2, ConcatEmptySeq
  <2>4. Watches' = {} /\ Unwatches' = {}
    BY <2>1, <2>2, <2>3 DEF WatchInv, MonitorInv, Watches, Unwatches, At
  <2>5. \A k \in DOMAIN frecv' : \E i \in DOMAIN frecv : frecv'[k] = frecv[i]
    BY <1>1, WithoutProperties DEF ChangesInv
  <2>6. AllLate'
    BY <2>1, <2>5 DEF WatchInv, MonitorInv, AllLate, At
  <2> QED BY <1>1, <2>1, <2>4, <2>6 DEF WatchInv, MonitorInv
<1> QED BY <1>2, <1>5, <1>6, <1>7, <1>8 DEF WatchInv

-----------------------------------------------------------------------------
\* The first message is taken: an announcement after it is still to come.
LEMMA AnnouncedAfter ==
  ASSUME ChangesInv, frecv # <<>>, frecv' = Tail(frecv), UNCHANGED <<disk, dirty>>,
         NEW n \in Nat, Announced(n + 1)
  PROVE  Announced(n)'
<1>1. CASE \E k \in At(frecv, {"changed"}) : k > n + 1 /\ frecv[k].tag = disk.tag
  <2>1. PICK k \in At(frecv, {"changed"}) : k > n + 1 /\ frecv[k].tag = disk.tag
    BY <1>1
  <2>2. k # 1 /\ k \in Nat /\ k - 1 > n
    BY <2>1, AtTail DEF ChangesInv
  <2>3. k - 1 \in At(frecv', {"changed"}) /\ frecv'[k - 1] = frecv[k]
    <3>1. \A i \in At(frecv, {"changed"}) :
            i # 1 => i - 1 \in At(Tail(frecv), {"changed"}) /\ Tail(frecv)[i - 1] = frecv[i]
      BY AtTail DEF ChangesInv
    <3> QED BY <2>1, <2>2, <3>1
  <2>4. frecv'[k - 1].tag = disk'.tag
    BY <2>1, <2>3
  <2> QED BY <2>2, <2>3, <2>4 DEF Announced
<1>2. CASE ~\E k \in At(frecv, {"changed"}) : k > n + 1 /\ frecv[k].tag = disk.tag
  BY <1>2 DEF Announced
<1> QED BY <1>1, <1>2

\* ... and so are the announcements after old messages.
LEMMA OldAfter ==
  ASSUME ChangesInv, frecv # <<>>, frecv' = Tail(frecv), UNCHANGED <<disk, dirty>>
  PROVE  (OldIsFollowed => OldIsFollowed') /\ (AllLate => AllLate')
<1>0. frecv \in Seq(ReceivedFitting) /\ frecv # <<>>
  BY DEF ChangesInv
<1>1. /\ \A i \in At(Tail(frecv), Oks) : i + 1 \in At(frecv, Oks) /\ Tail(frecv)[i] = frecv[i + 1]
      /\ At(Tail(frecv), Oks) \subseteq Nat \ {0}
  BY <1>0, AtTail
<1>2. ASSUME OldIsFollowed, NEW n \in At(frecv', Oks), frecv'[n].tag # disk'.tag, ~frecv'[n].late
      PROVE  Announced(n)'
  <2>1. n \in Nat /\ n + 1 \in At(frecv, Oks) /\ frecv[n + 1].tag # disk.tag /\ ~frecv[n + 1].late
    BY <1>1, <1>2
  <2>2. Announced(n + 1)
    BY <1>2, <2>1 DEF OldIsFollowed
  <2> QED BY <2>1, <2>2, AnnouncedAfter
<1>3. AllLate => AllLate'
  BY <1>1 DEF AllLate
<1> QED BY <1>2, <1>3 DEF OldIsFollowed

\* A message that is not about the read leaves the read where it is.
LEMMA AnsweredAfter ==
  ASSUME ChangesInv, OneRead, frecv # <<>>, frecv' = Tail(frecv), Head(frecv).do \notin Kinds
  PROVE  /\ Answered' = {} <=> Answered = {}
         /\ \A i, j \in Answered' : i = j
         /\ \A n \in Answered : n # 1 /\ n - 1 \in Answered' /\ frecv'[n - 1] = frecv[n]
<1>1. frecv \in Seq(ReceivedFitting)
  BY DEF ChangesInv
<1>2. \A n \in Answered : n # 1 /\ n - 1 \in Answered' /\ frecv'[n - 1] = frecv[n]
  <2>1. /\ \A n \in At(frecv, Kinds) :
             n # 1 => n - 1 \in At(Tail(frecv), Kinds) /\ Tail(frecv)[n - 1] = frecv[n]
        /\ 1 \notin At(frecv, Kinds)
    BY <1>1, AtTail
  <2> QED BY <2>1 DEF Answered
<1>3. \A n \in Answered' : n \in Nat /\ n + 1 \in Answered
  BY <1>1, AtTail DEF Answered
<1>4. \A i, j \in Answered' : i = j
  <2> SUFFICES ASSUME NEW i \in Answered', NEW j \in Answered' PROVE i = j
    OBVIOUS
  <2>1. i + 1 = j + 1 /\ i \in Nat /\ j \in Nat
    BY <1>3 DEF OneRead
  <2> QED BY <2>1
<1> QED BY <1>2, <1>3, <1>4

\* A message that is neither about the read nor tells of the file's last change
\* takes nothing away from what the watch will see.
LEMMA WillSeeAfter ==
  ASSUME ChangesInv, OneRead, frecv # <<>>, frecv' = Tail(frecv), Head(frecv).do \notin Kinds,
         Head(frecv).do = "changed" => Head(frecv).tag # disk.tag,
         UNCHANGED <<disk, dirty, scan, fired, overtaken, errors, fsent>>, WillSee
  PROVE  WillSee'
<1>1. CASE Announced(0)
  <2>1. Announced(1)
    <3>1. frecv \in Seq(ReceivedFitting)
      BY DEF ChangesInv
    <3>2. \A k \in At(frecv, {"changed"}) : frecv[k].tag = disk.tag => k \in Nat /\ k > 0 /\ k # 1
      <4>1. frecv[1] = Head(frecv) /\ (1 \in At(frecv, {"changed"}) <=> Head(frecv).do \in {"changed"})
            /\ At(frecv, {"changed"}) \subseteq Nat \ {0}
        BY <3>1, AtTail
      <4> QED BY <4>1
    <3>3. \A k \in At(frecv, {"changed"}) : frecv[k].tag = disk.tag => k > 1
      BY <3>2
    <3> QED BY <1>1, <3>3 DEF Announced
  <2>2. Announced(0)'
    BY <2>1, AnnouncedAfter
  <2> QED BY <2>2 DEF WillSee
<1>2. CASE ~Announced(0) /\ \E n \in Answered : frecv[n].do = "read-ok" => frecv[n].late \/ frecv[n].tag = disk.tag
  <2>1. PICK n \in Answered : frecv[n].do = "read-ok" => frecv[n].late \/ frecv[n].tag = disk.tag
    BY <1>2
  <2>2. n - 1 \in Answered' /\ frecv'[n - 1] = frecv[n]
    BY AnsweredAfter
  <2> QED BY <2>1, <2>2 DEF WillSee
<1>3. CASE ~Announced(0) /\ ~\E n \in Answered : frecv[n].do = "read-ok" => frecv[n].late \/ frecv[n].tag = disk.tag
  BY <1>3 DEF WillSee, Asked
<1> QED BY <1>1, <1>2, <1>3

\* No error is left out.
LEMMA ErrorsAfter ==
  ASSUME ChangesInv, WatchInv, frecv # <<>>, frecv' = Tail(frecv), errors' = errors
  PROVE  At(frecv', {"read-error"}) # {} => errors' > 0
  BY AtTail DEF ChangesInv, WatchInv

\* The close handler of the read channel.
LEMMA ReadClosedWatch ==
  ASSUME ChangesInv, WatchInv, FileMessage, ReadClosed(Head(frecv))
  PROVE  WatchInv'
<1> DEFINE m == Head(frecv)
<1>1. /\ frecv # <<>> /\ frecv' = Tail(frecv) /\ m.do \in Kinds
      /\ UNCHANGED <<disk, errors, scan, dirty, watching, monitored>> /\ frecv \in Seq(ReceivedFitting)
  BY DEF ChangesInv, FileMessage, outside, ReadClosed, Kinds
<1>2. 1 \in Answered /\ frecv[1] = m
  BY <1>1, AtTail DEF Answered
<1>3. Asked = {} /\ scan = 0 /\ reading = TRUE
  BY <1>2 DEF WatchInv, OneRead
<1>4. Answered' = {}
  <2>1. \A n \in Answered' : n + 1 \in Answered /\ n \in Nat \ {0}
    BY <1>1, AtTail DEF Answered
  <2>2. \A n \in Answered' : n + 1 = 1 /\ n \in Nat \ {0}
    BY <1>2, <2>1 DEF WatchInv, OneRead
  <2> QED BY <2>2
<1>5. At(frecv', {"read-error"}) # {} => errors' > 0
  BY <1>1, ErrorsAfter
<1> HIDE DEF m
<1>6. CASE Retry(m)
  <2>1. fsent' = Append(fsent, [do |-> "read"]) /\ UNCHANGED <<reading, watch_tag, fired, overtaken>>
    BY <1>6 DEF FileMessage, ReadClosed, m
  <2>2. fsent \in Seq(SentFitting)
    BY DEF ChangesInv
  <2>3. /\ [do |-> "read"].do \in {"read"} /\ [do |-> "read"].do \notin {"watch"}
        /\ [do |-> "read"].do \notin {"unwatch"}
    OBVIOUS
  <2>4. Asked' = {Len(fsent) + 1} /\ Watches' = Watches /\ Unwatches' = Unwatches
    BY <1>3, <2>1, <2>2, <2>3, AtAppend DEF Asked, Watches, Unwatches
  <2>5. OneRead'
    BY <1>1, <1>3, <1>4, <2>1, <2>4 DEF OneRead
  <2>6. WillSee'
    BY <2>4 DEF WillSee
  <2>7. (OldIsFollowed => OldIsFollowed') /\ (AllLate => AllLate')
    BY <1>1, OldAfter
  <2>8. MonitorInv'
    BY <1>1, <2>4, <2>7, MonitorKept DEF WatchInv, Underway
  <2> QED BY <1>1, <1>5, <2>1, <2>5, <2>6, <2>7, <2>8 DEF WatchInv
<1>7. CASE ~Retry(m)
  <2> DEFINE tag == IF m.do = "read-ok" THEN m.tag ELSE 0
             late == IF m.do = "read-ok" THEN m.late ELSE FALSE
  <2>1. reading' = FALSE /\ Fire(tag, late) /\ fsent' = fsent
    BY <1>7 DEF FileMessage, ReadClosed, m
  <2>2. Asked' = {}
    BY <1>3, <2>1 DEF Asked
  <2>3. OneRead'
    BY <1>1, <1>3, <1>4, <2>1, <2>2 DEF OneRead
  <2>4. watching = "none" => fired' = fired
    BY <2>1 DEF Fire
  <2>5. ASSUME watching = "on"
        PROVE  fired' = watch_tag' /\ OldIsFollowed' /\ WillSee'
    <3>1. fired' = tag /\ watch_tag' = tag /\ overtaken' = late
      BY <2>1, <2>5 DEF Fire
    <3>2. OldIsFollowed'
      BY <1>1, <2>5, OldAfter DEF WatchInv
    <3>3. CASE m.do = "read-ok" /\ (m.tag = disk.tag \/ m.late)
      <4>1. fired' = disk'.tag \/ overtaken'
        BY <1>1, <3>1, <3>3
      <4> QED BY <3>1, <3>2, <4>1 DEF WillSee
    <3>4. CASE m.do = "read-ok" /\ m.tag # disk.tag /\ ~m.late
      <4>1. 1 \in At(frecv, Oks) /\ frecv[1].tag # disk.tag /\ ~frecv[1].late
        BY <1>1, <1>2, <3>4, AtTail DEF m, Oks
      <4>2. Announced(0 + 1)
        BY <2>5, <4>1 DEF WatchInv, OldIsFollowed
      <4>3. Announced(0)'
        BY <1>1, <4>2, AnnouncedAfter
      <4> QED BY <3>1, <3>2, <4>3 DEF WillSee
    <3>5. CASE m.do # "read-ok"
      <4>1. m.do = "read-error"
        BY <1>1, <1>7, <3>5 DEF Kinds, Retry
      <4>2. 1 \in At(frecv, {"read-error"})
        BY <1>1, <4>1, AtTail DEF m
      <4>3. errors' > 0 /\ fired' = 0
        BY <1>1, <3>1, <3>5, <4>2 DEF WatchInv
      <4> QED BY <3>1, <3>2, <4>3 DEF WillSee
    <3> QED BY <3>1, <3>2, <3>3, <3>4, <3>5
  <2>6. MonitorInv'
    <3>1. Watches' = Watches /\ Unwatches' = Unwatches
      BY <2>1 DEF Watches, Unwatches
    <3>2. AllLate => AllLate'
      BY <1>1, OldAfter
    <3>3. ASSUME watching = "on", AllLate PROVE Underway'
      <4>1. fired' = tag /\ overtaken' = late
        BY <2>1, <3>3 DEF Fire
      <4>2. CASE m.do = "read-ok"
        <5>1. 1 \in At(frecv, Oks)
          BY <1>1, <1>2, <4>2, AtTail DEF m, Oks
        <5>2. m.late
          BY <1>2, <3>3, <5>1 DEF AllLate
        <5> QED BY <4>1, <4>2, <5>2 DEF Underway
      <4>3. CASE m.do # "read-ok"
        <5>1. m.do = "read-error"
          BY <1>1, <1>7, <4>3 DEF Kinds, Retry
        <5>2. 1 \in At(frecv, {"read-error"})
          BY <1>1, <5>1, AtTail DEF m
        <5> QED BY <1>1, <4>1, <4>3, <5>2 DEF WatchInv, Underway
      <4> QED BY <4>2, <4>3
    <3> QED BY <1>1, <3>1, <3>2, <3>3, MonitorKept DEF WatchInv
  <2> QED BY <1>1, <1>5, <2>3, <2>4, <2>5, <2>6 DEF WatchInv
<1> QED BY <1>6, <1>7

\* The close handler of the replace channel.
LEMMA ReplaceClosedWatch ==
  ASSUME ChangesInv, WatchInv, FileMessage, ReplaceClosed(Head(frecv))
  PROVE  WatchInv'
<1> DEFINE m == Head(frecv)
<1>1. /\ frecv # <<>> /\ frecv' = Tail(frecv) /\ m.do \in {"replace-ok", "replace-conflict", "out-of-date"}
      /\ UNCHANGED <<disk, errors, scan, dirty, watching, monitored, reading, fsent>>
      /\ frecv \in Seq(ReceivedFitting)
  BY DEF ChangesInv, FileMessage, outside, ReplaceClosed
<1>2. m.do \notin Kinds /\ m.do # "changed"
  BY <1>1 DEF Kinds
<1>3. OneRead'
  <2>1. (Answered' = {} <=> Answered = {}) /\ (\A i, j \in Answered' : i = j) /\ Asked' = Asked
    BY <1>1, <1>2, AnsweredAfter DEF WatchInv, Asked
  <2> QED BY <1>1, <2>1 DEF WatchInv, OneRead
<1>4. At(frecv', {"read-error"}) # {} => errors' > 0
  BY <1>1, ErrorsAfter
<1>5. (OldIsFollowed => OldIsFollowed') /\ (AllLate => AllLate')
  BY <1>1, OldAfter
<1> HIDE DEF m
<1>8. /\ Watches' = Watches /\ Unwatches' = Unwatches /\ Asked' = Asked
      /\ Answered # {} => Answered' # {}
  BY <1>1, <1>2, AnsweredAfter DEF WatchInv, Asked, Watches, Unwatches, m
<1>6. CASE m.who = replacing /\ m.do = "replace-ok"
  <2>1. Fire(m.tag, m.late)
    BY <1>6 DEF ReplaceClosed, m
  <2>0. 1 \in At(frecv, Oks) /\ frecv[1] = m
    BY <1>1, <1>6, AtTail DEF m, Oks
  <2>2. ASSUME watching = "on" PROVE fired' = watch_tag' /\ WillSee'
    <3>1. fired' = m.tag /\ watch_tag' = m.tag /\ overtaken' = m.late
      BY <2>1, <2>2 DEF Fire
    <3>2. CASE m.tag = disk.tag \/ m.late
      <4>1. fired' = disk'.tag \/ overtaken'
        BY <1>1, <3>1, <3>2
      <4> QED BY <3>1, <4>1 DEF WillSee
    <3>3. CASE m.tag # disk.tag /\ ~m.late
      <4>1. 1 \in At(frecv, Oks) /\ frecv[1].tag # disk.tag /\ ~frecv[1].late
        BY <2>0, <3>3
      <4>2. Announced(0 + 1)
        BY <2>2, <4>1 DEF WatchInv, OldIsFollowed
      <4>3. Announced(0)'
        BY <1>1, <4>2, AnnouncedAfter
      <4> QED BY <3>1, <4>3 DEF WillSee
    <3> QED BY <3>2, <3>3
  <2>3. watching = "none" => fired' = fired
    BY <2>1 DEF Fire
  <2>4. MonitorInv'
    <3>1. ASSUME watching = "on", AllLate PROVE Underway'
      <4>1. overtaken' = m.late /\ m.late
        BY <2>0, <2>1, <3>1 DEF Fire, AllLate
      <4> QED BY <4>1 DEF Underway
    <3> QED BY <1>1, <1>5, <1>8, <3>1, MonitorKept DEF WatchInv
  <2> QED BY <1>1, <1>3, <1>4, <1>5, <2>2, <2>3, <2>4 DEF WatchInv
<1>7. CASE ~(m.who = replacing /\ m.do = "replace-ok")
  <2>1. UNCHANGED <<watch_tag, fired, overtaken>>
    BY <1>7 DEF ReplaceClosed, m
  <2>2. WillSee => WillSee'
    BY <1>1, <1>2, <2>1, WillSeeAfter DEF WatchInv, m
  <2>3. Underway => Underway'
    BY <1>1, <1>8, <2>1 DEF Underway
  <2>4. MonitorInv'
    BY <1>1, <1>5, <1>8, <2>3, MonitorKept DEF WatchInv
  <2> QED BY <1>1, <1>3, <1>4, <1>5, <2>1, <2>2, <2>4 DEF WatchInv
<1> QED BY <1>6, <1>7

\* A message of the watch channel: unless the watch has seen that tag, a read is
\* under way afterwards, and what it will deliver is no older.
LEMMA WatchMessageWatch ==
  ASSUME ChangesInv, WatchInv, FileMessage, WatchMessage(Head(frecv))
  PROVE  WatchInv'
<1> DEFINE m == Head(frecv)
<1>1. /\ frecv # <<>> /\ frecv' = Tail(frecv) /\ m.do = "changed"
      /\ UNCHANGED <<disk, errors, scan, dirty, watching, monitored, watch_tag, fired, overtaken>>
      /\ frecv \in Seq(ReceivedFitting)
  BY DEF ChangesInv, FileMessage, outside, WatchMessage
<1>2. m.do \notin Kinds
  BY <1>1 DEF Kinds
<1>3. /\ Answered' = {} <=> Answered = {}
      /\ \A i, j \in Answered' : i = j
      /\ \A n \in Answered : n # 1 /\ n - 1 \in Answered' /\ frecv'[n - 1] = frecv[n]
  BY <1>1, <1>2, AnsweredAfter DEF WatchInv
<1>4. At(frecv', {"read-error"}) # {} => errors' > 0
  BY <1>1, ErrorsAfter
<1>7. (OldIsFollowed => OldIsFollowed') /\ (AllLate => AllLate')
  BY <1>1, OldAfter
<1>8. ASSUME Asked # {} => Asked' # {}, Watches' = Watches, Unwatches' = Unwatches
      PROVE  MonitorInv'
  <2>1. Underway => Underway'
    BY <1>1, <1>3, <1>8 DEF Underway
  <2> QED BY <1>1, <1>7, <1>8, <2>1, MonitorKept DEF WatchInv
<1> HIDE DEF m
<1>5. CASE watching = "on" /\ m.tag # watch_tag
  <2>1. Read(fsent, <<>>)
    BY <1>5 DEF WatchMessage, m
  <2>2. CASE reading
    <3>1. fsent' = fsent /\ reading' = TRUE
      BY <2>1, <2>2 DEF Read
    <3>2. Asked' = Asked /\ Watches' = Watches /\ Unwatches' = Unwatches
      BY <3>1 DEF Asked, Watches, Unwatches
    <3>3. OneRead'
      BY <1>1, <1>3, <2>2, <3>1, <3>2 DEF WatchInv, OneRead
    <3>4. OldIsFollowed'
      BY <1>5, <1>7 DEF WatchInv
    <3>5. WillSee'
      <4>1. CASE Asked # {} \/ scan # 0
        BY <1>1, <3>2, <4>1 DEF WillSee
      <4>2. CASE ~(Asked # {} \/ scan # 0)
        <5>1. PICK n \in Answered : TRUE
          BY <2>2, <4>2 DEF WatchInv, OneRead
        <5>2. n - 1 \in Answered' /\ frecv'[n - 1] = frecv[n]
          BY <1>3
        <5>3. CASE frecv[n].do = "read-ok" => frecv[n].late \/ frecv[n].tag = disk.tag
          BY <1>1, <5>2, <5>3 DEF WillSee
        <5>4. CASE frecv[n].do = "read-ok" /\ ~frecv[n].late /\ frecv[n].tag # disk.tag
          <6>1. n \in At(frecv, Oks) /\ n \in Nat \ {0} /\ n # 1
            BY <1>1, <1>3, <5>4, AtTail DEF Answered, At, Oks
          <6>2. Announced(n)
            BY <1>5, <5>4, <6>1 DEF WatchInv, OldIsFollowed
          <6>3. \A k \in At(frecv, {"changed"}) : k \in Nat /\ (k > n => k > 0 + 1)
            BY <1>1, <6>1, AtTail
          <6>4. Announced(0 + 1)
            BY <6>2, <6>3 DEF Announced
          <6>5. Announced(0)'
            BY <1>1, <6>4, AnnouncedAfter
          <6> QED BY <6>5 DEF WillSee
        <5> QED BY <5>3, <5>4
      <4> QED BY <4>1, <4>2
    <3> QED BY <1>1, <1>4, <1>8, <3>2, <3>3, <3>4, <3>5 DEF WatchInv
  <2>3. CASE ~reading
    <3>1. fsent' = Append(fsent, [do |-> "read"]) /\ reading' = TRUE
      BY <2>1, <2>3 DEF Read
    <3>2. Asked = {} /\ scan = 0 /\ Answered = {}
      BY <2>3 DEF WatchInv, OneRead
    <3>3. /\ [do |-> "read"].do \in {"read"} /\ [do |-> "read"].do \notin {"watch"}
          /\ [do |-> "read"].do \notin {"unwatch"} /\ fsent \in Seq(SentFitting)
      BY DEF ChangesInv
    <3>4. Asked' = {Len(fsent) + 1} /\ Watches' = Watches /\ Unwatches' = Unwatches
      BY <3>1, <3>2, <3>3, AtAppend DEF Asked, Watches, Unwatches
    <3>5. OneRead'
      BY <1>1, <1>3, <3>1, <3>2, <3>4 DEF OneRead
    <3>6. OldIsFollowed'
      BY <1>5, <1>7 DEF WatchInv
    <3>7. WillSee'
      BY <3>4 DEF WillSee
    <3> QED BY <1>1, <1>4, <1>8, <3>4, <3>5, <3>6, <3>7 DEF WatchInv
  <2> QED BY <2>2, <2>3 DEF ChangesInv, FileTypes
<1>6. CASE ~(watching = "on" /\ m.tag # watch_tag)
  <2>1. UNCHANGED <<reading, fsent>>
    BY <1>6 DEF WatchMessage, m
  <2>2. OneRead'
    <3>1. Asked' = Asked
      BY <2>1 DEF Asked
    <3> QED BY <1>1, <1>3, <2>1, <3>1 DEF WatchInv, OneRead
  <2>3. Asked' = Asked /\ Watches' = Watches /\ Unwatches' = Unwatches
    BY <2>1 DEF Asked, Watches, Unwatches
  <2>4. ASSUME watching = "on" PROVE WillSee'
    <3>1. CASE m.tag = disk.tag
      <4>1. fired' = disk'.tag
        BY <1>1, <1>6, <2>4, <3>1 DEF WatchInv
      <4> QED BY <4>1 DEF WillSee
    <3>2. CASE m.tag # disk.tag
      BY <1>1, <1>2, <2>1, <2>4, <3>2, WillSeeAfter DEF WatchInv, m
    <3> QED BY <3>1, <3>2
  <2> QED BY <1>1, <1>4, <1>7, <1>8, <2>2, <2>3, <2>4 DEF WatchInv
<1> QED BY <1>5, <1>6

-----------------------------------------------------------------------------
\* The bridge takes a message; those of other kinds stay where they are.
LEMMA SentAfter ==
  ASSUME ChangesInv, fsent # <<>>, fsent' = Tail(fsent), NEW kinds, Head(fsent).do \notin kinds
  PROVE  /\ At(fsent', kinds) = {} <=> At(fsent, kinds) = {}
         /\ (\A i, j \in At(fsent, kinds) : i = j) => \A i, j \in At(fsent', kinds) : i = j
<1>1. fsent \in Seq(SentFitting)
  BY DEF ChangesInv
<1>2. /\ \A n \in At(fsent, kinds) : n # 1 => n - 1 \in At(fsent', kinds)
      /\ 1 \notin At(fsent, kinds)
      /\ \A n \in At(fsent', kinds) : n + 1 \in At(fsent, kinds) /\ n \in Nat
  BY <1>1, AtTail
<1>3. ASSUME \A i, j \in At(fsent, kinds) : i = j, NEW i \in At(fsent', kinds), NEW j \in At(fsent', kinds)
      PROVE  i = j
  <2>1. i + 1 = j + 1 /\ i \in Nat /\ j \in Nat
    BY <1>2, <1>3
  <2> QED BY <2>1
<1> QED BY <1>2, <1>3

\* ... and the one of its kind is gone.
LEMMA SentTaken ==
  ASSUME ChangesInv, fsent # <<>>, fsent' = Tail(fsent), NEW kinds, Head(fsent).do \in kinds,
         \A i, j \in At(fsent, kinds) : i = j
  PROVE  1 \in At(fsent, kinds) /\ At(fsent', kinds) = {}
<1>1. /\ fsent \in Seq(SentFitting) /\ 1 \in At(fsent, kinds)
      /\ \A n \in At(fsent', kinds) : n + 1 \in At(fsent, kinds) /\ n \in Nat \ {0}
  BY AtTail DEF ChangesInv
<1>2. \A n \in At(fsent', kinds) : n + 1 = 1 /\ n \in Nat \ {0}
  BY <1>1
<1> QED BY <1>1, <1>2

\* While the bridge has a change to report, the watch will see it.
LEMMA DirtyIsSeen ==
  ASSUME dirty'
  PROVE  OldIsFollowed' /\ WillSee'
<1>1. \A n : Announced(n)'
  BY DEF Announced
<1> QED BY <1>1 DEF OldIsFollowed, WillSee

\* The bridge sends something else than "changed": announcements stay where
\* they are, and messages that are new have to be late, or current.
LEMMA BridgeSends ==
  ASSUME ChangesInv, NEW e, e.do # "changed", frecv' = Append(frecv, e), UNCHANGED <<disk, dirty>>,
         e.do \in Oks => e.late \/ e.tag = disk.tag
  PROVE  /\ \A n : Announced(n) => Announced(n)'
         /\ OldIsFollowed => OldIsFollowed'
<1>1. frecv \in Seq(ReceivedFitting) /\ e.do \notin {"changed"}
  BY DEF ChangesInv
<1>2. /\ At(frecv', {"changed"}) = At(frecv, {"changed"})
      /\ \A n \in At(frecv, {"changed"}) : frecv'[n] = frecv[n]
  BY <1>1, AtAppend
<1>3. \A n : Announced(n) => Announced(n)'
  BY <1>2 DEF Announced
<1>4. /\ At(frecv', Oks) \subseteq At(frecv, Oks) \cup (IF e.do \in Oks THEN {Len(frecv) + 1} ELSE {})
      /\ \A n \in At(frecv, Oks) : frecv'[n] = frecv[n]
      /\ frecv'[Len(frecv) + 1] = e
  BY <1>1, AtAppend
<1>5. OldIsFollowed => OldIsFollowed'
  BY <1>3, <1>4 DEF OldIsFollowed
<1> QED BY <1>3, <1>5

\* What the bridge sends is late while it does not watch the file.
LEMMA SendsLate ==
  ASSUME ChangesInv, NEW e, frecv' = Append(frecv, e), e.do \in Oks => e.late, AllLate
  PROVE  AllLate'
<1>1. frecv \in Seq(ReceivedFitting)
  BY DEF ChangesInv
<1>2. /\ At(frecv', Oks) \subseteq At(frecv, Oks) \cup (IF e.do \in Oks THEN {Len(frecv) + 1} ELSE {})
      /\ \A n \in At(frecv, Oks) : frecv'[n] = frecv[n]
      /\ frecv'[Len(frecv) + 1] = e
  BY <1>1, AtAppend
<1> QED BY <1>2 DEF AllLate

\* A message that is not the answer to a read.
LEMMA NoAnswer ==
  ASSUME ChangesInv, NEW e, frecv' = Append(frecv, e), e.do \notin Kinds
  PROVE  /\ Answered' = Answered /\ \A n \in Answered : frecv'[n] = frecv[n]
         /\ At(frecv', {"read-error"}) = At(frecv, {"read-error"})
<1>1. frecv \in Seq(ReceivedFitting) /\ e.do \notin {"read-error"}
  BY DEF ChangesInv, Kinds
<1> QED BY <1>1, AtAppend DEF Answered

\* The bridge starts a read.
LEMMA BridgeReadsWatch ==
  ASSUME ChangesInv, WatchInv, BridgeTakes, Head(fsent).do = "read"
  PROVE  WatchInv'
<1>1. /\ fsent # <<>> /\ fsent' = Tail(fsent) /\ fsent \in Seq(SentFitting)
      /\ UNCHANGED <<reading, watching, watch_tag, fired, overtaken, errors>>
      /\ scan = 0 /\ scan' = disk.tag /\ UNCHANGED <<disk, frecv, dirty, monitored>>
  BY DEF ChangesInv, BridgeTakes, page
<1>2. disk.tag # 0
  BY DEF ChangesInv, FileTypes
<1>3. 1 \in Asked /\ Asked' = {}
  <2> DEFINE kinds == {"read"}
  <2>1. Head(fsent).do \in kinds /\ \A i, j \in At(fsent, kinds) : i = j
    BY DEF WatchInv, OneRead, Asked
  <2> HIDE DEF kinds
  <2>2. 1 \in At(fsent, kinds) /\ At(fsent', kinds) = {}
    BY <1>1, <2>1, SentTaken
  <2> QED BY <2>2 DEF Asked, kinds
<1>4. Answered' = Answered /\ Answered = {}
  BY <1>1, <1>3 DEF WatchInv, OneRead, Answered
<1>5. OneRead'
  BY <1>1, <1>2, <1>3, <1>4 DEF WatchInv, OneRead
<1>6. \A n : Announced(n) => Announced(n)'
  BY <1>1 DEF Announced
<1>7. (OldIsFollowed => OldIsFollowed') /\ WillSee'
  BY <1>1, <1>2, <1>6 DEF OldIsFollowed, WillSee
<1>8. MonitorInv'
  <2>1. Head(fsent).do \notin {"watch"} /\ Head(fsent).do \notin {"unwatch"}
    OBVIOUS
  <2>2. /\ Watches' = {} <=> Watches = {}
        /\ (\A i, j \in Watches : i = j) => \A i, j \in Watches' : i = j
        /\ Unwatches = {} => Unwatches' = {}
    BY <1>1, <2>1, SentAfter DEF Watches, Unwatches
  <2>3. (AllLate => AllLate') /\ Underway'
    BY <1>1, <1>2 DEF AllLate, Underway
  <2> QED BY <1>1, <2>2, <2>3, MonitorKept DEF WatchInv
<1> QED BY <1>1, <1>5, <1>7, <1>8 DEF WatchInv

\* The bridge begins to watch the file, or ends it.
LEMMA BridgeMonitorsWatch ==
  ASSUME ChangesInv, WatchInv, BridgeTakes, Head(fsent).do \in {"watch", "unwatch"}
  PROVE  WatchInv'
<1>1. /\ fsent # <<>> /\ fsent' = Tail(fsent) /\ fsent \in Seq(SentFitting)
      /\ UNCHANGED <<reading, watching, watch_tag, fired, overtaken, errors>>
      /\ UNCHANGED <<disk, frecv, scan>> /\ dirty' = FALSE /\ monitored' = (Head(fsent).do = "watch")
  BY DEF ChangesInv, BridgeTakes, Monitors, page
<1>2. (Asked' = {} <=> Asked = {}) /\ (\A i, j \in Asked' : i = j) /\ Answered' = Answered
  <2>1. Head(fsent).do \notin {"read"}
    OBVIOUS
  <2> QED BY <1>1, <2>1, SentAfter DEF Asked, Answered, WatchInv, OneRead
<1>3. OneRead'
  BY <1>1, <1>2 DEF WatchInv, OneRead
<1>4. CASE watching = "on"
  <2>1. Unwatches = {} /\ \A i, j \in Watches : i = j
    BY <1>4 DEF WatchInv, MonitorInv
  <2>2. Head(fsent).do = "watch"
    <3>1. Head(fsent).do \in {"unwatch"} => 1 \in Unwatches
      BY <1>1, AtTail DEF Unwatches
    <3> QED BY <2>1, <3>1
  <2>3. 1 \in Watches /\ Watches' = {} /\ Unwatches' = {}
    <3>1. Head(fsent).do \in {"watch"} /\ Head(fsent).do \notin {"unwatch"}
      BY <2>2
    <3> QED BY <1>1, <2>1, <3>1, SentTaken, SentAfter DEF Watches, Unwatches
  <2>4. AllLate /\ Underway
    BY <1>4, <2>3 DEF WatchInv, MonitorInv
  <2>5. AllLate' /\ Underway'
    BY <1>1, <1>2, <2>4 DEF AllLate, Underway
  <2>6. OldIsFollowed' /\ WillSee'
    BY <2>5, EarlySees
  <2>7. MonitorInv'
    BY <1>1, <1>4, <2>2, <2>3 DEF MonitorInv
  <2> QED BY <1>1, <1>3, <2>6, <2>7 DEF WatchInv
<1>5. CASE watching # "on"
  <2>1. watching # "none"
    <3>1. /\ Head(fsent).do \in {"unwatch"} => 1 \in Unwatches
          /\ Head(fsent).do \in {"watch"} => 1 \in Watches
      BY <1>1, AtTail DEF Watches, Unwatches
    <3> QED BY <3>1 DEF WatchInv, MonitorInv
  <2>2. MonitorInv'
    BY <1>1, <1>5, <2>1 DEF MonitorInv
  <2> QED BY <1>1, <1>3, <1>5, <2>1, <2>2 DEF WatchInv
<1> QED BY <1>4, <1>5

\* The bridge takes a message about a replace.
LEMMA BridgeReplacesWatch ==
  ASSUME ChangesInv, WatchInv, BridgeTakes, Head(fsent).do \in {"replace", "done", "abort"}
  PROVE  WatchInv'
<1> DEFINE m == Head(fsent)
<1>1. /\ fsent # <<>> /\ fsent' = Tail(fsent) /\ fsent \in Seq(SentFitting)
      /\ UNCHANGED <<reading, watching, watch_tag, fired, overtaken, errors>>
  BY DEF ChangesInv, BridgeTakes, page
<1>2. scan' = scan /\ monitored' = monitored
  BY DEF BridgeTakes, Opens, Complete
<1>3. /\ Asked' = {} <=> Asked = {}
      /\ (\A i, j \in Asked : i = j) => \A i, j \in Asked' : i = j
      /\ Watches' = {} <=> Watches = {}
      /\ (\A i, j \in Watches : i = j) => \A i, j \in Watches' : i = j
      /\ Unwatches = {} => Unwatches' = {}
  <2>1. m.do \notin {"read"} /\ m.do \notin {"watch"} /\ m.do \notin {"unwatch"}
    OBVIOUS
  <2> QED BY <1>1, <2>1, SentAfter DEF Asked, Watches, Unwatches
<1>4. CASE frecv' = frecv
  <2>1. UNCHANGED <<disk, dirty>>
    <3>1. frecv \in Seq(ReceivedFitting)
      BY DEF ChangesInv
    <3>2. \A e : Append(frecv, e) # frecv
      <4>1. \A e : Len(Append(frecv, e)) = Len(frecv) + 1 /\ Len(frecv) \in Nat
        BY <3>1
      <4> QED BY <4>1
    <3> QED BY <1>4, <3>2 DEF BridgeTakes, Opens, Complete
  <2>2. Answered' = Answered
    BY <1>4 DEF Answered
  <2>3. OneRead'
    BY <1>1, <1>2, <1>3, <2>2 DEF WatchInv, OneRead
  <2>4. \A n : Announced(n) => Announced(n)'
    BY <1>4, <2>1 DEF Announced
  <2>5. (OldIsFollowed => OldIsFollowed') /\ (WillSee => WillSee')
    BY <1>1, <1>2, <1>3, <1>4, <2>1, <2>2, <2>4 DEF OldIsFollowed, WillSee
  <2>6. (AllLate => AllLate') /\ (Underway => Underway')
    BY <1>1, <1>2, <1>3, <1>4, <2>2 DEF AllLate, Underway
  <2>7. MonitorInv'
    BY <1>1, <1>2, <1>3, <2>1, <2>6, MonitorKept DEF WatchInv
  <2> QED BY <1>1, <1>4, <2>3, <2>5, <2>7 DEF WatchInv
<1>5. CASE frecv' # frecv
  <2>1. PICK e \in Received : /\ frecv' = Append(frecv, e)
                             /\ \/ e.do = "replace-ok" /\ dirty' = monitored /\ e.late = ~monitored
                                \/ /\ e.do \in {"replace-conflict", "out-of-date"}
                                   /\ UNCHANGED <<disk, dirty>>
    <3>1. CASE m.do = "done" /\ Complete(m.opts)
      <4>1. m.opts.who \in Modifiers /\ disk.tag + 1 \in Nat /\ (~monitored) \in BOOLEAN
        BY <1>1, <3>1, SentShape DEF Options, ChangesInv, FileTypes
      <4> DEFINE ok == [do |-> "replace-ok", who |-> m.opts.who, tag |-> disk.tag + 1, late |-> ~monitored]
                 old == [do |-> "out-of-date", who |-> m.opts.who]
      <4>2. ok \in Received /\ old \in Received
        BY <4>1 DEF Received
      <4>3. ok.do = "replace-ok" /\ ok.late = ~monitored /\ old.do = "out-of-date"
        OBVIOUS
      <4>4. \/ frecv' = Append(frecv, ok) /\ dirty' = monitored
            \/ frecv' = Append(frecv, old) /\ UNCHANGED <<disk, dirty>>
        BY <3>1 DEF Complete, Changes
      <4> HIDE DEF ok, old
      <4> QED BY <4>2, <4>3, <4>4
    <3>2. CASE m.do = "replace" /\ Opens(m.opts)
      <4>1. m.opts.who \in Modifiers
        BY <1>1, <3>2, SentShape DEF Options
      <4>2. [do |-> "replace-conflict", who |-> m.opts.who] \in Received
        BY <4>1 DEF Received
      <4> QED BY <1>5, <3>2, <4>2 DEF Opens
    <3> QED BY <1>5, <3>1, <3>2 DEF BridgeTakes
  <2>2. e.do \notin Kinds /\ e.do # "changed" /\ e.do \notin {"read-error"}
    BY <2>1 DEF Kinds
  <2>3. /\ Answered' = Answered /\ \A n \in Answered : frecv'[n] = frecv[n]
        /\ At(frecv', {"read-error"}) = At(frecv, {"read-error"})
    BY <2>1, <2>2, NoAnswer
  <2>4. OneRead'
    BY <1>1, <1>2, <1>3, <2>3 DEF WatchInv, OneRead
  <2>5. Underway => Underway'
    BY <1>1, <1>2, <1>3, <2>3 DEF Underway
  <2>6. ~monitored /\ AllLate => AllLate'
    BY <2>1, SendsLate DEF Oks
  <2>7. MonitorInv'
    BY <1>1, <1>2, <1>3, <2>1, <2>5, <2>6, MonitorKept DEF WatchInv
  <2>8. CASE e.do = "replace-ok" /\ monitored
    <3>1. dirty'
      BY <2>1, <2>8
    <3> QED BY <1>1, <2>3, <2>4, <2>7, <3>1, DirtyIsSeen DEF WatchInv
  <2>9. CASE e.do = "replace-ok" /\ ~monitored
    <3>1. watching = "on" => AllLate' /\ Underway'
      BY <1>1, <1>2, <2>7, <2>9 DEF MonitorInv
    <3> QED BY <1>1, <2>3, <2>4, <2>7, <3>1, EarlySees DEF WatchInv
  <2>10. CASE e.do # "replace-ok"
    <3>1. UNCHANGED <<disk, dirty>> /\ e.do \notin Oks
      BY <2>1, <2>10 DEF Oks
    <3>2. (\A n : Announced(n) => Announced(n)') /\ (OldIsFollowed => OldIsFollowed')
      BY <2>1, <2>2, <3>1, BridgeSends
    <3>3. WillSee => WillSee'
      BY <1>1, <1>2, <1>3, <2>3, <3>1, <3>2 DEF WillSee
    <3> QED BY <1>1, <2>3, <2>4, <2>7, <3>2, <3>3 DEF WatchInv
  <2> QED BY <2>8, <2>9, <2>10 DEF ChangesInv, FileTypes
<1> QED BY <1>4, <1>5

\* The bridge takes the next message.
LEMMA BridgeTakesWatch ==
  ASSUME ChangesInv, WatchInv, BridgeTakes
  PROVE  WatchInv'
<1>1. Head(fsent).do \in {"read", "watch", "unwatch", "replace", "done", "abort"}
  BY DEF BridgeTakes
<1> QED BY <1>1, BridgeReadsWatch, BridgeMonitorsWatch, BridgeReplacesWatch

\* A read ends: what it delivers is current, or late.
LEMMA BridgeHasReadWatch ==
  ASSUME ChangesInv, WatchInv, BridgeHasRead
  PROVE  WatchInv'
<1>1. /\ UNCHANGED <<reading, watching, watch_tag, fired, overtaken, disk, dirty, monitored, fsent>>
      /\ scan # 0 /\ scan' = 0 /\ frecv \in Seq(ReceivedFitting)
  BY DEF ChangesInv, BridgeHasRead, page
<1>2. PICK e : /\ frecv' = Append(frecv, e) /\ e.do \in Kinds
               /\ e.do = "read-ok" => (e.late \/ e.tag = disk.tag) /\ (~monitored => e.late)
               /\ e.do = "read-error" => errors' = errors + 1
               /\ errors' \in {errors, errors + 1}
  <2> DEFINE ok == [do |-> "read-ok", tag |-> held.tag, content |-> held.content,
                    late |-> held # disk \/ ~monitored]
  <2>1. /\ ok.do = "read-ok" /\ (ok.late \/ ok.tag = disk.tag) /\ (~monitored => ok.late)
        /\ [do |-> "read-conflict"].do = "read-conflict" /\ [do |-> "read-error"].do = "read-error"
    OBVIOUS
  <2>2. \/ frecv' = Append(frecv, ok) /\ errors' = errors
        \/ frecv' = Append(frecv, [do |-> "read-conflict"]) /\ errors' = errors
        \/ frecv' = Append(frecv, [do |-> "read-error"]) /\ errors' = errors + 1
    BY DEF BridgeHasRead
  <2> HIDE DEF ok
  <2> QED BY <2>1, <2>2 DEF Kinds
<1>3. Asked = {} /\ Answered = {} /\ Asked' = {} /\ reading
  BY <1>1 DEF WatchInv, OneRead, Asked
<1>4. Answered' = {Len(frecv) + 1} /\ frecv'[Len(frecv) + 1] = e
  BY <1>1, <1>2, <1>3, AtAppend DEF Answered
<1>5. OneRead'
  BY <1>1, <1>3, <1>4 DEF WatchInv, OneRead
<1>6. At(frecv', {"read-error"}) # {} => errors' > 0
  <2>1. errors \in Nat
    BY DEF ChangesInv, FileTypes
  <2>2. CASE e.do = "read-error"
    BY <1>2, <2>1, <2>2
  <2>3. CASE e.do # "read-error"
    <3>1. At(frecv', {"read-error"}) = At(frecv, {"read-error"})
      BY <1>1, <1>2, <2>3, AtAppend
    <3> QED BY <1>2, <2>1, <3>1 DEF WatchInv
  <2> QED BY <2>2, <2>3
<1>7. WillSee' /\ Underway'
  BY <1>1, <1>2, <1>4 DEF WillSee, Underway
<1>8. /\ OldIsFollowed => OldIsFollowed'
      /\ ~monitored /\ AllLate => AllLate'
  <2>1. e.do # "changed" /\ (e.do \in Oks => e.do = "read-ok")
    BY <1>2 DEF Kinds, Oks
  <2> QED BY <1>1, <1>2, <2>1, BridgeSends, SendsLate
<1>9. MonitorInv'
  <2>1. Watches' = Watches /\ Unwatches' = Unwatches
    BY <1>1 DEF Watches, Unwatches
  <2> QED BY <1>1, <1>7, <1>8, <2>1, MonitorKept DEF WatchInv
<1> QED BY <1>1, <1>5, <1>6, <1>7, <1>8, <1>9 DEF WatchInv

\* fswatch1 tells of the change, after all that is on its way.
LEMMA BridgeNoticesWatch ==
  ASSUME ChangesInv, WatchInv, BridgeNotices
  PROVE  WatchInv'
<1> DEFINE e == [do |-> "changed", tag |-> disk.tag]
<1>1. /\ UNCHANGED <<reading, watching, watch_tag, fired, overtaken, disk, errors, scan, monitored, fsent>>
      /\ frecv \in Seq(ReceivedFitting) /\ frecv' = Append(frecv, e) /\ dirty
  BY DEF ChangesInv, BridgeNotices, page
<1>2. Asked' = Asked /\ Watches' = Watches /\ Unwatches' = Unwatches
  BY <1>1 DEF Asked, Watches, Unwatches
<1>3. e.do = "changed" /\ e.tag = disk.tag
  OBVIOUS
<1> HIDE DEF e
<1>4. Answered' = Answered /\ At(frecv', {"read-error"}) = At(frecv, {"read-error"})
  <2>1. e.do \notin Kinds
    BY <1>3 DEF Kinds
  <2> QED BY <1>1, <2>1, NoAnswer
<1>5. /\ Len(frecv) + 1 \in At(frecv', {"changed"}) /\ frecv'[Len(frecv) + 1].tag = disk'.tag
      /\ Len(frecv) \in Nat
  <2>1. e.do \in {"changed"}
    BY <1>3
  <2> QED BY <1>1, <1>3, <2>1, AtAppend
<1>6. \A n \in 0 .. Len(frecv) : Announced(n)'
  BY <1>5 DEF Announced
<1>7. At(frecv', Oks) \subseteq 0 .. Len(frecv)
  <2>1. e.do \notin Oks
    BY <1>3 DEF Oks
  <2>2. At(frecv', Oks) = At(frecv, Oks) /\ At(frecv, Oks) \subseteq 1 .. Len(frecv)
    BY <1>1, <2>1, AtAppend
  <2> QED BY <1>5, <2>2
<1>8. OldIsFollowed'
  BY <1>6, <1>7 DEF OldIsFollowed
<1>9. WillSee'
  BY <1>5, <1>6 DEF WillSee
<1>10. OneRead'
  BY <1>1, <1>2, <1>4 DEF WatchInv, OneRead
<1>11. watching \in {"none", "on"} => monitored
  BY <1>1 DEF WatchInv, MonitorInv
<1>12. MonitorInv'
  BY <1>1, <1>2, <1>11, MonitorKept DEF WatchInv
<1> QED BY <1>1, <1>4, <1>8, <1>9, <1>10, <1>12 DEF WatchInv

\* Another program writes to the file, which fswatch1 will report if it can.
LEMMA OtherWritesWatch ==
  ASSUME ChangesInv, WatchInv, NEW inplace \in BOOLEAN, OtherWrites(inplace)
  PROVE  WatchInv'
<1>1. /\ UNCHANGED <<reading, watching, watch_tag, fired, overtaken, errors, scan, monitored, fsent, frecv>>
      /\ dirty' = monitored
  BY DEF OtherWrites, Changes, page
<1>2. OneRead'
  BY <1>1 DEF WatchInv, OneRead, Asked, Answered
<1>3. MonitorInv'
  <2>1. Watches' = Watches /\ Unwatches' = Unwatches
    BY <1>1 DEF Watches, Unwatches
  <2>2. (AllLate => AllLate') /\ (Underway => Underway')
    BY <1>1 DEF AllLate, Underway, Asked, Answered
  <2> QED BY <1>1, <2>1, <2>2, MonitorKept DEF WatchInv
<1>4. CASE monitored
  <2>1. dirty'
    BY <1>1, <1>4
  <2> QED BY <1>1, <1>2, <1>3, <2>1, DirtyIsSeen DEF WatchInv
<1>5. CASE ~monitored
  <2>1. watching = "on" => AllLate' /\ Underway'
    BY <1>1, <1>3, <1>5 DEF MonitorInv
  <2> QED BY <1>1, <1>2, <1>3, <2>1, EarlySees DEF WatchInv
<1> QED BY <1>4, <1>5 DEF ChangesInv, FileTypes

\* Both invariants together hold whatever the page, the bridge and others do.
THEOREM WatchSafe == FileSpec => [](ChangesInv /\ WatchInv)
<1>1. FileInit => WatchInv
  <2> SUFFICES ASSUME FileInit PROVE WatchInv
    OBVIOUS
  <2>1. /\ Asked = {} /\ Answered = {} /\ At(frecv, {"read-error"}) = {}
        /\ Watches = {} /\ Unwatches = {} /\ At(frecv, Oks) = {}
    BY DEF FileInit, Asked, Answered, Watches, Unwatches, At
  <2>2. MonitorInv
    BY <2>1 DEF FileInit, MonitorInv, AllLate
  <2> QED BY <2>1, <2>2 DEF FileInit, WatchInv, OneRead
<1>2. ChangesInv /\ WatchInv /\ [FileNext]_filevars => WatchInv'
  <2> SUFFICES ASSUME ChangesInv, WatchInv, [FileNext]_filevars PROVE WatchInv'
    OBVIOUS
  <2>1. CASE FileMessage
    BY <2>1, ReadClosedWatch, ReplaceClosedWatch, WatchMessageWatch DEF FileMessage
  <2>2. CASE FileNext /\ ~FileMessage
    BY <2>2, ModifyWatch, WatchWatch, UnwatchWatch, FileLaterWatch, CloseFileWatch, BridgeTakesWatch,
       BridgeHasReadWatch, BridgeNoticesWatch, OtherWritesWatch DEF FileNext
  <2>3. CASE UNCHANGED filevars
    <3>1. /\ Asked' = Asked /\ Answered' = Answered /\ Watches' = Watches /\ Unwatches' = Unwatches
          /\ \A n : Announced(n) => Announced(n)'
      BY <2>3 DEF filevars, Asked, Answered, Watches, Unwatches, Announced
    <3>2. OneRead' /\ AllLate' = AllLate /\ Underway' = Underway
      BY <2>3, <3>1 DEF filevars, WatchInv, OneRead, AllLate, Underway
    <3>3. MonitorInv'
      BY <2>3, <3>1, <3>2 DEF filevars, WatchInv, MonitorInv
    <3> QED BY <2>3, <3>1, <3>2, <3>3 DEF filevars, WatchInv, OldIsFollowed, WillSee
  <2> QED BY <2>1, <2>2, <2>3
<1> QED BY <1>1, <1>2, ChangesSafe, PTL DEF FileSpec

\* Once nothing is under way, the callbacks of the watch have seen the content
\* that the file has, whatever reads, replaces and writes of others crossed on
\* the way, unless the last read failed or was overtaken by a rename() or by the
\* call of watch().
THEOREM WatchIsCurrentAlways == FileSpec => []WatchIsCurrent
<1>1. ChangesInv /\ WatchInv => WatchIsCurrent
  <2> SUFFICES ASSUME ChangesInv, WatchInv, watching = "on", ~reading, fsent = <<>>, frecv = <<>>, ~dirty
               PROVE  fired = disk.tag \/ (fired = 0 /\ errors > 0) \/ overtaken
    BY DEF WatchIsCurrent
  <2>1. Asked = {} /\ Answered = {} /\ scan = 0
    BY DEF WatchInv, OneRead
  <2>2. ~Announced(0)
    BY DEF Announced, At
  <2> QED BY <2>1, <2>2 DEF WatchInv, WillSee
<1> QED BY <1>1, WatchSafe, PTL

-----------------------------------------------------------------------------
(* cockpit.cache() and the D-Bus client                                    *)

Versions == 0 .. results

FrameType == [state : {"none", "open", "closed"}, source : BOOLEAN, claimed : BOOLEAN,
              last : Nat, timers : Seq(Nat), seen : Nat]

\* Versions are numbered in the order in which providers deliver them.
CacheTypes ==
  /\ results \in Nat /\ shared \in Versions /\ version = shared
  /\ frame \in [Frames -> FrameType]
  /\ storage_events \in [Frames -> Seq(Nat)]
  /\ \A f \in Frames : /\ frame[f].last \in Versions
                       /\ \A n \in DOMAIN storage_events[f] : storage_events[f][n] \in Versions

\* What the consumer will have seen when the timeouts of its frame are done.
Final(F) == IF F.timers = <<>> THEN F.seen ELSE F.timers[Len(F.timers)]

\* The frame has not heard of the shared value, and will.
Awaits(F, events) == F.last # shared /\ \E n \in DOMAIN events : events[n] = shared

\* The inductive invariant.
CacheInv ==
  /\ CacheTypes
  /\ \A f \in Frames :
       Open(f) /\ shared # 0 => Awaits(frame[f], storage_events[f]) \/ Final(frame[f]) = shared

\* A callback is the last to run.
LEMMA CallbackFinal ==
  ASSUME NEW F \in FrameType, NEW value \in Nat
  PROVE  /\ Callback(F, value) \in FrameType
         /\ Callback(F, value).last = F.last /\ Callback(F, value).state = F.state
         /\ value # 0 => Final(Callback(F, value)) = value
<1>1. CASE value = 0
  BY <1>1 DEF Callback
<1>2. CASE value # 0
  <2> DEFINE timers == Append(F.timers, value)
  <2>1. Callback(F, value) = [F EXCEPT !.timers = timers]
    BY <1>2 DEF Callback, FrameType
  <2>2. F.timers \in Seq(Nat)
    BY DEF FrameType
  <2>3. timers \in Seq(Nat) /\ timers # <<>> /\ timers[Len(timers)] = value
    BY <2>2
  <2> HIDE DEF timers
  <2> QED BY <2>1, <2>3 DEF FrameType, Final
<1> QED BY <1>1, <1>2

\* The end of changed(): the frame has heard of the version, and unless it had
\* before, the consumer will be given the value.
LEMMA NoteFinal ==
  ASSUME NEW F \in FrameType, NEW new \in Nat, NEW value \in Nat
  PROVE  /\ Note(F, new, value) \in FrameType
         /\ Note(F, new, value).last = new /\ Note(F, new, value).state = F.state
         /\ F.last = new => Note(F, new, value) = F
         /\ F.last # new /\ value # 0 => Final(Note(F, new, value)) = value
<1>1. CASE F.last = new
  BY <1>1 DEF Note
<1>2. CASE F.last # new
  <2> DEFINE G == [F EXCEPT !.last = new]
  <2>1. G \in FrameType /\ G.last = new /\ G.state = F.state
    BY DEF FrameType
  <2>2. Note(F, new, value) = Callback(G, value)
    BY <1>2 DEF Note
  <2> HIDE DEF G
  <2> QED BY <1>2, <2>1, <2>2, CallbackFinal
<1> QED BY <1>1, <1>2

\* A frame opens the cache: it is given the value if there is one.
LEMMA OpenCacheInv ==
  ASSUME CacheInv, NEW f \in Frames, OpenCache(f)
  PROVE  CacheInv'
<1> DEFINE F == [frame[f] EXCEPT !.state = "open"]
           G == IF version # 0 THEN Callback(F, shared) ELSE [F EXCEPT !.source = TRUE]
<1>1. /\ UNCHANGED <<version, shared, results, storage_events>> /\ frame' = [frame EXCEPT ![f] = G]
      /\ shared \in Nat /\ version = shared
  BY DEF OpenCache, CacheInv, CacheTypes, Versions
<1>2. F \in FrameType /\ F.last = frame[f].last
  BY DEF CacheInv, CacheTypes, FrameType
<1> HIDE DEF F
<1>3. G \in FrameType /\ G.last = frame[f].last /\ (shared # 0 => Final(G) = shared)
  <2>1. CASE version # 0
    BY <1>1, <1>2, <2>1, CallbackFinal
  <2>2. CASE version = 0
    BY <1>1, <1>2, <2>2 DEF FrameType
  <2> QED BY <2>1, <2>2
<1> HIDE DEF G
<1>4. CacheTypes'
  BY <1>1, <1>3 DEF CacheInv, CacheTypes, Versions, FrameType
<1>5. ASSUME NEW g \in Frames, Open(g)', shared' # 0
      PROVE  Awaits(frame[g], storage_events[g])' \/ Final(frame[g])' = shared'
  <2>1. CASE g = f
    BY <1>1, <1>3, <1>5, <2>1 DEF CacheInv, CacheTypes, Final
  <2>2. CASE g # f
    BY <1>1, <1>5, <2>2 DEF CacheInv, CacheTypes, Open, Awaits, Final
  <2> QED BY <2>1, <2>2
<1> QED BY <1>4, <1>5 DEF CacheInv

\* A provider delivers a value: it is new to every frame, and each that is open is
\* told or is the provider's own.
LEMMA ResultInv ==
  ASSUME CacheInv, NEW f \in Frames, Result(f)
  PROVE  CacheInv'
<1> DEFINE r == results + 1
           F == [frame[f] EXCEPT !.claimed = TRUE]
           G == Note(F, r, r)
<1>1. /\ results' = r /\ version' = r /\ shared' = r /\ frame' = [frame EXCEPT ![f] = G]
      /\ Tell(f, r)
  BY DEF Result
<1>2. r \in Nat /\ r # 0 /\ results \in Nat /\ \A g \in Frames : frame[g].last \in 0 .. r /\ frame[g].last # r
  BY DEF CacheInv, CacheTypes, Versions
<1>3. F \in FrameType /\ F.last = frame[f].last
  BY DEF CacheInv, CacheTypes, FrameType
<1> HIDE DEF r, F
<1>4. G \in FrameType /\ G.last = r /\ Final(G) = r
  BY <1>2, <1>3, NoteFinal
<1> HIDE DEF G
<1>5. storage_events' \in [Frames -> Seq(Nat)]
  BY <1>1, <1>2 DEF CacheInv, CacheTypes, Tell
<1>6. CacheTypes'
  <2>1. \A g \in Frames : frame'[g].last \in 0 .. r
    BY <1>1, <1>2, <1>4 DEF CacheInv, CacheTypes
  <2>2. ASSUME NEW g \in Frames, NEW n \in DOMAIN storage_events'[g]
        PROVE  storage_events'[g][n] \in 0 .. r
    <3>1. storage_events[g] \in Seq(Nat) /\ \A k \in DOMAIN storage_events[g] : storage_events[g][k] \in 0 .. r
      BY <1>2 DEF CacheInv, CacheTypes, Versions, r
    <3>2. storage_events'[g] \in {storage_events[g], Append(storage_events[g], r)}
      BY <1>1 DEF Tell, CacheInv, CacheTypes
    <3>3. CASE storage_events'[g] = storage_events[g]
      BY <3>1, <3>3
    <3>4. CASE storage_events'[g] = Append(storage_events[g], r)
      BY <1>2, <3>1, <3>4
    <3> QED BY <3>2, <3>3, <3>4
  <2> QED BY <1>1, <1>2, <1>4, <1>5, <2>1, <2>2 DEF CacheInv, CacheTypes, Versions
<1>7. ASSUME NEW g \in Frames, Open(g)', shared' # 0
      PROVE  Awaits(frame[g], storage_events[g])' \/ Final(frame[g])' = shared'
  <2>1. CASE g = f
    BY <1>1, <1>4, <2>1 DEF CacheInv, CacheTypes, Final
  <2>2. CASE g # f
    <3>1. frame'[g] = frame[g] /\ Open(g)
      BY <1>1, <1>7, <2>2 DEF CacheInv, CacheTypes, Open
    <3>2. storage_events'[g] = Append(storage_events[g], r) /\ storage_events[g] \in Seq(Nat)
      BY <1>1, <2>2, <3>1 DEF Tell, CacheInv, CacheTypes
    <3>3. \E n \in DOMAIN storage_events'[g] : storage_events'[g][n] = r
      <4>1. Len(storage_events[g]) + 1 \in DOMAIN Append(storage_events[g], r)
            /\ Append(storage_events[g], r)[Len(storage_events[g]) + 1] = r
        BY <1>2, <3>2
      <4> QED BY <3>2, <4>1
    <3> QED BY <1>1, <1>2, <3>1, <3>3 DEF Awaits
  <2> QED BY <2>1, <2>2
<1> QED BY <1>6, <1>7 DEF CacheInv

\* changed(): whatever version the event is about, the value is the one of now.
LEMMA ChangedInv ==
  ASSUME CacheInv, NEW f \in Frames, Changed(f)
  PROVE  CacheInv'
<1> DEFINE new == Head(storage_events[f])
           G == IF new = 0 /\ ~frame[f].claimed THEN [frame[f] EXCEPT !.source = TRUE]
                ELSE Note(frame[f], new, shared)
<1>1. /\ UNCHANGED <<version, shared, results>> /\ frame' = [frame EXCEPT ![f] = G]
      /\ storage_events' = [storage_events EXCEPT ![f] = Tail(storage_events[f])]
      /\ storage_events[f] # <<>> /\ Open(f)
  BY DEF Changed, CacheInv, CacheTypes
<1>2. /\ storage_events[f] \in Seq(Nat) /\ frame[f] \in FrameType /\ shared \in Nat /\ results \in Nat
      /\ frame[f].last \in Versions
      /\ \A n \in DOMAIN storage_events[f] : storage_events[f][n] \in Versions
  BY DEF CacheInv, CacheTypes, Versions
<1>3. /\ new = storage_events[f][1] /\ new \in Nat /\ new \in Versions
      /\ Tail(storage_events[f]) \in Seq(Nat)
      /\ DOMAIN Tail(storage_events[f]) = 1 .. Len(storage_events[f]) - 1
      /\ \A n \in DOMAIN Tail(storage_events[f]) :
           Tail(storage_events[f])[n] = storage_events[f][n + 1] /\ n + 1 \in DOMAIN storage_events[f]
      /\ DOMAIN storage_events[f] = 1 .. Len(storage_events[f]) /\ Len(storage_events[f]) \in Nat
  <2>1. Len(storage_events[f]) \in Nat \ {0}
    BY <1>1, <1>2, EmptySeq
  <2> QED BY <1>1, <1>2, <2>1, SMTT(40)
<1> HIDE DEF new
<1>4. /\ G \in FrameType /\ G.last \in Versions
      /\ \/ Final(G) = Final(frame[f]) /\ G.last = frame[f].last /\ (new = 0 \/ frame[f].last = new)
         \/ shared # 0 => Final(G) = shared
  <2>1. CASE new = 0 /\ ~frame[f].claimed
    <3>1. G = [frame[f] EXCEPT !.source = TRUE]
      BY <2>1
    <3> QED BY <1>2, <2>1, <3>1 DEF FrameType, Final
  <2>2. CASE ~(new = 0 /\ ~frame[f].claimed)
    <3>1. G = Note(frame[f], new, shared)
      BY <2>2
    <3> HIDE DEF G
    <3>2. /\ G \in FrameType /\ G.last = new
          /\ frame[f].last = new => G = frame[f]
          /\ frame[f].last # new /\ shared # 0 => Final(G) = shared
      <4> DEFINE F == frame[f]
      <4>1. F \in FrameType /\ new \in Nat /\ shared \in Nat
        BY <1>2, <1>3
      <4> HIDE DEF F
      <4>2. /\ Note(F, new, shared) \in FrameType /\ Note(F, new, shared).last = new
            /\ F.last = new => Note(F, new, shared) = F
            /\ F.last # new /\ shared # 0 => Final(Note(F, new, shared)) = shared
        BY <4>1, NoteFinal
      <4> QED BY <3>1, <4>2 DEF F
    <3>3. CASE frame[f].last = new
      BY <1>3, <3>2, <3>3
    <3>4. CASE frame[f].last # new
      BY <1>3, <3>2, <3>4
    <3> QED BY <3>3, <3>4
  <2> QED BY <2>1, <2>2
<1> HIDE DEF G
<1>5. CacheTypes'
  <2>1. \A g \in Frames : \A n \in DOMAIN storage_events'[g] : storage_events'[g][n] \in Versions
    BY <1>1, <1>2, <1>3 DEF CacheInv, CacheTypes
  <2>2. /\ frame' \in [Frames -> FrameType] /\ storage_events' \in [Frames -> Seq(Nat)]
        /\ \A g \in Frames : frame'[g].last \in Versions
    BY <1>1, <1>3, <1>4 DEF CacheInv, CacheTypes
  <2> QED BY <1>1, <2>1, <2>2 DEF CacheInv, CacheTypes, Versions
<1>6. ASSUME NEW g \in Frames, Open(g)', shared' # 0
      PROVE  Awaits(frame[g], storage_events[g])' \/ Final(frame[g])' = shared'
  <2>1. CASE g = f
    <3>1. frame'[f] = G /\ storage_events'[f] = Tail(storage_events[f]) /\ shared' = shared /\ shared # 0
      BY <1>1, <1>6 DEF CacheInv, CacheTypes
    <3>2. CASE Final(G) = shared
      BY <2>1, <3>1, <3>2 DEF Final
    <3>3. CASE Final(G) # shared
      <4>1. Final(frame[f]) # shared /\ G.last = frame[f].last /\ (new = 0 \/ frame[f].last = new)
        BY <1>4, <3>1, <3>3
      <4>2. Awaits(frame[f], storage_events[f])
        BY <1>1, <3>1, <4>1 DEF CacheInv
      <4>3. PICK n \in DOMAIN storage_events[f] : storage_events[f][n] = shared
        BY <4>2 DEF Awaits
      <4>4. n # 1 /\ G.last # shared
        BY <1>3, <3>1, <4>1, <4>2, <4>3 DEF Awaits
      <4>5. n - 1 \in DOMAIN Tail(storage_events[f]) /\ Tail(storage_events[f])[n - 1] = shared
        <5>1. n - 1 \in DOMAIN Tail(storage_events[f]) /\ n - 1 + 1 = n
          BY <1>3, <4>4
        <5> QED BY <1>3, <4>3, <5>1
      <4> QED BY <2>1, <3>1, <4>4, <4>5 DEF Awaits
    <3> QED BY <3>2, <3>3
  <2>2. CASE g # f
    BY <1>1, <1>6, <2>2 DEF CacheInv, CacheTypes, Open, Awaits, Final
  <2> QED BY <2>1, <2>2
<1> QED BY <1>5, <1>6 DEF CacheInv

\* close(): the value is removed for all, or stays for the others.
LEMMA CloseCacheInv ==
  ASSUME CacheInv, NEW f \in Frames, CloseCache(f)
  PROVE  CacheInv'
<1> DEFINE G == [frame[f] EXCEPT !.state = "closed", !.source = FALSE, !.claimed = FALSE]
<1>1. frame' = [frame EXCEPT ![f] = G] /\ results' = results
  BY DEF CloseCache, CacheInv, CacheTypes, FrameType
<1>2. G \in FrameType /\ G.last = frame[f].last /\ G.state # "open"
  BY DEF CacheInv, CacheTypes, FrameType
<1> HIDE DEF G
<1>3. /\ frame' \in [Frames -> FrameType] /\ \A g \in Frames : frame'[g].last \in Versions
      /\ \A g \in Frames \ {f} : frame'[g] = frame[g]
      /\ ~Open(f)'
  BY <1>1, <1>2 DEF CacheInv, CacheTypes, Open
<1>4. CASE UNCHANGED <<version, shared, storage_events>>
  <2>1. CacheTypes'
    BY <1>1, <1>3, <1>4 DEF CacheInv, CacheTypes, Versions
  <2> QED BY <1>3, <1>4, <2>1 DEF CacheInv, Open, Awaits, Final
<1>5. CASE version' = 0 /\ shared' = 0 /\ Tell(f, 0)
  <2>1. \A g \in Frames : storage_events'[g] \in {storage_events[g], Append(storage_events[g], 0)}
    BY <1>5 DEF Tell, CacheInv, CacheTypes
  <2>2. storage_events' \in [Frames -> Seq(Nat)]
    BY <1>5 DEF Tell, CacheInv, CacheTypes
  <2>3. ASSUME NEW g \in Frames, NEW n \in DOMAIN storage_events'[g]
        PROVE  storage_events'[g][n] \in Versions
    <3>1. /\ storage_events[g] \in Seq(Nat) /\ 0 \in Versions
          /\ \A k \in DOMAIN storage_events[g] : storage_events[g][k] \in Versions
      BY DEF CacheInv, CacheTypes, Versions
    <3>2. CASE storage_events'[g] = storage_events[g]
      BY <3>1, <3>2
    <3>3. CASE storage_events'[g] = Append(storage_events[g], 0)
      BY <3>1, <3>3
    <3> QED BY <2>1, <3>2, <3>3
  <2>4. CacheTypes'
    BY <1>1, <1>3, <1>5, <2>2, <2>3 DEF CacheInv, CacheTypes, Versions
  <2> QED BY <1>5, <2>4 DEF CacheInv
<1> QED BY <1>4, <1>5 DEF CloseCache

\* A timeout runs the callback of the consumer.
LEMMA TimeoutInv ==
  ASSUME CacheInv, NEW f \in Frames, Timeout(f)
  PROVE  CacheInv'
<1> DEFINE timers == frame[f].timers
           G == [frame[f] EXCEPT !.seen = Head(timers), !.timers = Tail(timers)]
<1>1. /\ UNCHANGED <<version, shared, results, storage_events>> /\ frame' = [frame EXCEPT ![f] = G]
      /\ timers # <<>>
  BY DEF Timeout, CacheInv, CacheTypes, FrameType
<1>2. timers \in Seq(Nat) /\ frame[f] \in FrameType
  BY DEF CacheInv, CacheTypes, FrameType
<1>3. Len(timers) \in Nat \ {0}
  BY <1>1, <1>2, EmptySeq
<1>4. /\ Head(timers) \in Nat /\ Tail(timers) \in Seq(Nat) /\ Head(timers) = timers[1]
      /\ Len(Tail(timers)) = Len(timers) - 1
      /\ \A n \in 1 .. Len(timers) - 1 : Tail(timers)[n] = timers[n + 1]
  BY <1>2, <1>3
<1>5. G \in FrameType /\ G.last = frame[f].last /\ G.state = frame[f].state /\ G.timers = Tail(timers)
      /\ G.seen = Head(timers)
  BY <1>2, <1>4 DEF FrameType
<1>6. Final(G) = Final(frame[f])
  <2> DEFINE rest == Tail(timers)
             k == Len(timers) - 1
  <2>0. /\ Final(frame[f]) = timers[Len(timers)] /\ G.timers = rest /\ G.seen = timers[1]
        /\ rest \in Seq(Nat) /\ Len(rest) = k /\ k + 1 = Len(timers)
        /\ \A n \in 1 .. k : rest[n] = timers[n + 1]
    BY <1>1, <1>3, <1>4, <1>5 DEF Final
  <2> HIDE DEF G, rest
  <2>1. CASE Len(timers) = 1
    <3>1. rest = <<>>
      BY <2>0, <2>1, EmptySeq
    <3> QED BY <2>0, <2>1, <3>1 DEF Final
  <2>2. CASE Len(timers) # 1
    <3>1. k \in 1 .. k
      <4>1. \A m \in Nat \ {0} : m # 1 => m - 1 \in 1 .. m - 1
        OBVIOUS
      <4> HIDE DEF timers
      <4> QED BY <1>3, <2>2, <4>1
    <3>2. rest[k] = timers[k + 1]
      <4>1. \A n \in 1 .. k : rest[n] = timers[n + 1]
        BY <2>0
      <4> HIDE DEF k, timers
      <4> QED BY <3>1, <4>1
    <3>3. rest # <<>>
      BY <2>0, <3>1, EmptySeq
    <3> QED BY <2>0, <3>2, <3>3 DEF Final
  <2> QED BY <2>1, <2>2
<1> HIDE DEF G
<1>7. CacheTypes'
  BY <1>1, <1>5 DEF CacheInv, CacheTypes, Versions
<1>8. ASSUME NEW g \in Frames, Open(g)', shared' # 0
      PROVE  Awaits(frame[g], storage_events[g])' \/ Final(frame[g])' = shared'
  <2>1. CASE g = f
    <3>1. frame'[f] = G /\ Open(f) /\ shared # 0
      BY <1>1, <1>5, <1>8, <2>1 DEF CacheInv, CacheTypes, Open
    <3>2. Awaits(frame[f], storage_events[f]) \/ Final(frame[f]) = shared
      BY <3>1 DEF CacheInv
    <3>3. Final(frame[g])' = Final(G)
      BY <2>1, <3>1 DEF Final
    <3>4. Awaits(frame[f], storage_events[f]) => Awaits(frame[g], storage_events[g])'
      BY <1>1, <1>5, <2>1, <3>1 DEF Awaits
    <3> QED BY <1>1, <1>6, <3>2, <3>3, <3>4
  <2>2. CASE g # f
    BY <1>1, <1>8, <2>2 DEF CacheInv, CacheTypes, Open, Awaits, Final
  <2> QED BY <2>1, <2>2
<1> QED BY <1>7, <1>8 DEF CacheInv

\* The invariant holds whatever the frames do and however late they hear of each
\* other.
THEOREM CacheSafe == StorageCacheSpec => []CacheInv
<1>1. StorageCacheInit => CacheInv
  <2> SUFFICES ASSUME StorageCacheInit PROVE CacheInv
    OBVIOUS
  <2>1. frame \in [Frames -> FrameType]
    BY EmptySeq DEF StorageCacheInit, FrameType
  <2>2. storage_events \in [Frames -> Seq(Nat)]
    BY EmptySeq DEF StorageCacheInit
  <2> QED BY <2>1, <2>2 DEF StorageCacheInit, CacheInv, CacheTypes, Versions
<1>2. CacheInv /\ [StorageCacheNext]_cachevars => CacheInv'
  <2> SUFFICES ASSUME CacheInv, [StorageCacheNext]_cachevars PROVE CacheInv'
    OBVIOUS
  <2>1. CASE StorageCacheNext
    BY <2>1, OpenCacheInv, ResultInv, ChangedInv, CloseCacheInv, TimeoutInv DEF StorageCacheNext
  <2>2. CASE UNCHANGED cachevars
    BY <2>2 DEF cachevars, CacheInv, CacheTypes, Versions, Open, Awaits, Final
  <2> QED BY <2>1, <2>2
<1> QED BY <1>1, <1>2, PTL DEF StorageCacheSpec

\* Once its events and timeouts are done, the consumer in a frame has seen the
\* value that is shared, also when several frames provide it at once.
THEOREM SeenIsSharedAlways == StorageCacheSpec => []SeenIsShared
<1>1. CacheInv => SeenIsShared
  BY DEF CacheInv, SeenIsShared, Quiet, Awaits, Final
<1> QED BY <1>1, CacheSafe, PTL

-----------------------------------------------------------------------------
(***************************************************************************)
(* Module DBusClient: the handler of a reply sees the cache that the       *)
(* bridge had described.  Notifications and replies travel in one order    *)
(* through the channel and then through the queue of later_invoke().       *)
(***************************************************************************)
State == [Objects -> Nat]

Partial == UNION {[D -> Nat] : D \in SUBSET Objects}

Word == [do : {"notify"}, data : Partial]
          \cup [do : {"reply"}, id : Nat, data : State]
          \cup [do : {"rejected"}, id : Nat]

Asks == [msg : Objects \cup {"call", "all", "unwatch", "unwatch-all"}, id : Nat]

\* State a with what a notification says.
Over(a, data) == [o \in Objects |-> IF o \in DOMAIN data THEN data[o] ELSE a[o]]

\* What the cache is after a word, if it is a before it; a reply has that state.
Reads(m, a, b) ==
  /\ m.do = "notify" => b = Over(a, m.data)
  /\ m.do # "notify" => b = a
  /\ m.do = "reply" => m.data = a

\* The words S lead from cache a to cache b by the states h.
Path(S, a, b, h) ==
  /\ h[0] = a /\ h[Len(S)] = b
  /\ \A i \in 1 .. Len(S) : Reads(S[i], h[i - 1], h[i])

Carries(S, a, b) == \E h : Path(S, a, b, h)

LEMMA CarriesNothing ==
  ASSUME NEW a
  PROVE  Carries(<<>>, a, a)
<1>1. Path(<<>>, a, a, [i \in {0} |-> a])
  BY DEF Path
<1> QED BY <1>1 DEF Carries

LEMMA CarriesAppend ==
  ASSUME NEW S \in Seq(Word), NEW a, NEW b, NEW c, NEW m \in Word,
         Carries(S, a, b), Reads(m, b, c)
  PROVE  Carries(Append(S, m), a, c)
<1>1. PICK h : Path(S, a, b, h)
  BY DEF Carries
<1> DEFINE n == Len(S)
           T == Append(S, m)
           g == [i \in 0 .. n + 1 |-> IF i = n + 1 THEN c ELSE h[i]]
<1>2. n \in Nat /\ Len(T) = n + 1 /\ T[n + 1] = m /\ \A i \in 1 .. n : T[i] = S[i]
  BY AppendProperties
<1>3. g[n + 1] = c /\ \A i \in 0 .. n : g[i] = h[i]
  BY <1>2
<1> HIDE DEF g, T
<1>4. g[0] = a
  BY <1>1, <1>2, <1>3 DEF Path
<1>5. ASSUME NEW i \in 1 .. n + 1
      PROVE  Reads(T[i], g[i - 1], g[i])
  <2>1. CASE i = n + 1
    <3>1. i - 1 = n /\ n \in 0 .. n
      BY <1>2, <2>1
    <3>2. g[i - 1] = b
      BY <1>1, <1>3, <3>1 DEF Path, n
    <3> QED BY <1>2, <1>3, <2>1, <3>2
  <2>2. CASE i # n + 1
    <3>1. i \in 1 .. n /\ i - 1 \in 0 .. n /\ i \in 0 .. n
      BY <1>2, <2>2
    <3>2. Reads(S[i], h[i - 1], h[i])
      BY <1>1, <3>1 DEF Path, n
    <3> QED BY <1>2, <1>3, <3>1, <3>2
  <2> QED BY <2>1, <2>2
<1>6. Path(T, a, c, g)
  BY <1>2, <1>3, <1>4, <1>5 DEF Path
<1> QED BY <1>6 DEF Carries, T

LEMMA CarriesHead ==
  ASSUME NEW S \in Seq(Word), S # <<>>, NEW a, NEW b, Carries(S, a, b)
  PROVE  \E c : Reads(Head(S), a, c) /\ Carries(Tail(S), c, b)
<1>1. PICK h : Path(S, a, b, h)
  BY DEF Carries
<1> DEFINE n == Len(S)
           T == Tail(S)
           g == [i \in 0 .. n - 1 |-> h[i + 1]]
<1>2. /\ n \in Nat \ {0} /\ Len(T) = n - 1 /\ Head(S) = S[1]
      /\ \A i \in 1 .. n - 1 : T[i] = S[i + 1]
  <2>1. n \in Nat \ {0} /\ Len(T) = n - 1 /\ Head(S) = S[1]
    BY EmptySeq, HeadTailProperties
  <2>2. \A i \in 1 .. Len(T) : T[i] = S[i + 1]
    BY HeadTailProperties
  <2> QED BY <2>1, <2>2
<1>3. \A i \in 0 .. n - 1 : g[i] = h[i + 1]
  OBVIOUS
<1> HIDE DEF g, T
<1>4. Reads(Head(S), a, h[1])
  <2>1. 1 \in 1 .. n /\ 1 - 1 = 0
    BY <1>2
  <2>2. Reads(S[1], h[1 - 1], h[1]) /\ h[0] = a
    BY <1>1, <2>1 DEF Path
  <2> QED BY <1>2, <2>1, <2>2
<1>5. g[0] = h[1] /\ g[n - 1] = b
  <2>1. 0 \in 0 .. n - 1 /\ n - 1 \in 0 .. n - 1 /\ 0 + 1 = 1 /\ (n - 1) + 1 = n
    BY <1>2
  <2> QED BY <1>1, <1>3, <2>1 DEF Path
<1>6. ASSUME NEW i \in 1 .. n - 1
      PROVE  Reads(T[i], g[i - 1], g[i])
  <2>1. i + 1 \in 1 .. n /\ (i + 1) - 1 = i /\ (i - 1) + 1 = i
        /\ i - 1 \in 0 .. n - 1 /\ i \in 0 .. n - 1
    BY <1>2
  <2>2. Reads(S[i + 1], h[i], h[i + 1])
    BY <1>1, <2>1 DEF Path
  <2>3. g[i - 1] = h[i] /\ g[i] = h[i + 1]
    BY <1>3, <2>1
  <2> QED BY <1>2, <2>2, <2>3
<1>7. Path(T, h[1], b, g)
  BY <1>2, <1>5, <1>6 DEF Path
<1> QED BY <1>4, <1>7 DEF Carries, T

\* Errors change nothing, however many there are.
LEMMA CarriesRejected ==
  ASSUME NEW S \in Seq(Word), NEW T \in Seq(Word), NEW a, NEW b, Carries(S, a, b),
         \A i \in 1 .. Len(T) : T[i].do = "rejected"
  PROVE  Carries(S \o T, a, b)
<1>1. PICK h : Path(S, a, b, h)
  BY DEF Carries
<1> DEFINE n == Len(S)
           U == S \o T
           g == [i \in 0 .. n + Len(T) |-> IF i <= n THEN h[i] ELSE b]
<1>2. /\ n \in Nat /\ Len(T) \in Nat /\ Len(U) = n + Len(T)
      /\ \A i \in 1 .. n + Len(T) : U[i] = IF i <= n THEN S[i] ELSE T[i - n]
  BY ConcatProperties
<1>3. \A i \in 0 .. n + Len(T) : g[i] = IF i <= n THEN h[i] ELSE b
  OBVIOUS
<1>4. h[0] = a /\ h[n] = b /\ \A i \in 1 .. n : Reads(S[i], h[i - 1], h[i])
  BY <1>1 DEF Path
<1> HIDE DEF g, U, n
<1>5. g[0] = a /\ g[n + Len(T)] = b
  <2>1. 0 \in 0 .. n + Len(T) /\ n + Len(T) \in 0 .. n + Len(T) /\ 0 <= n
    BY <1>2
  <2>2. n + Len(T) <= n => n + Len(T) = n
    BY <1>2
  <2> QED BY <1>3, <1>4, <2>1, <2>2
<1>6. ASSUME NEW i \in 1 .. n + Len(T)
      PROVE  Reads(U[i], g[i - 1], g[i])
  <2>1. i - 1 \in 0 .. n + Len(T) /\ i \in 0 .. n + Len(T)
    BY <1>2
  <2>2. CASE i <= n
    <3>1. i - 1 <= n /\ i \in 1 .. n
      BY <1>2, <2>2
    <3> QED BY <1>2, <1>3, <1>4, <2>1, <2>2, <3>1
  <2>3. CASE ~(i <= n)
    <3>1. i - n \in 1 .. Len(T) /\ (i - 1 <= n => i - 1 = n)
      BY <1>2, <2>3
    <3>2. U[i].do = "rejected"
      BY <1>2, <2>3, <3>1
    <3>3. g[i] = b /\ g[i - 1] = b
      BY <1>3, <1>4, <2>1, <2>3, <3>1
    <3> QED BY <3>2, <3>3 DEF Reads
  <2> QED BY <2>2, <2>3
<1>7. Path(U, a, b, g)
  BY <1>2, <1>5, <1>6 DEF Path
<1> QED BY <1>7 DEF Carries, U

\* The inductive invariant: what is under way leads from the cache to what the
\* bridge last said, as long as there is a channel.
Described ==
  \E mid : /\ Carries(dlater, cache, mid)
           /\ channel = "open" => Carries(drecv, mid, known)

DBusTypes ==
  /\ last_cookie \in Nat /\ calls \subseteq 1..MaxCookie
  /\ world \in State /\ known \in State /\ cache \in State
  /\ dsent \in Seq(Asks) /\ drecv \in Seq(Word) /\ dlater \in Seq(Word)

DBusInv == DBusTypes /\ Described /\ ~skewed

LEMMA WordsOf ==
  /\ \A x \in Nat : [do |-> "rejected", id |-> x] \in Word
  /\ \A d \in Partial : [do |-> "notify", data |-> d] \in Word
  /\ \A x \in Nat, d \in State : [do |-> "reply", id |-> x, data |-> d] \in Word
BY DEF Word

LEMMA RejectedReads ==
  ASSUME NEW a, NEW x
  PROVE  Reads([do |-> "rejected", id |-> x], a, a)
BY DEF Reads

LEMMA DBusInitInv ==
  ASSUME DBusInit
  PROVE  DBusInv
<1>1. Nothing \in State
  BY DEF Nothing, State
<1>2. DBusTypes
  BY <1>1 DEF DBusInit, DBusTypes
<1>3. Carries(dlater, cache, cache) /\ Carries(drecv, cache, known)
  BY CarriesNothing DEF DBusInit
<1>4. Described
  BY <1>3 DEF Described
<1>5. ~skewed
  BY DEF DBusInit
<1> QED BY <1>2, <1>4, <1>5 DEF DBusInv

\* call(), watch() and the objects that watch: a message, or an error at once.
LEMMA SendCallInv ==
  ASSUME DBusInv, NEW msg \in Objects \cup {"call", "all", "unwatch", "unwatch-all"}, SendCall(msg),
         UNCHANGED <<channel, cache, skewed, world, known, drecv>>
  PROVE  DBusInv'
<1> DEFINE id == last_cookie + 1
           ask == [msg |-> msg, id |-> id]
           no == [do |-> "rejected", id |-> id]
<1>1. id \in Nat /\ id \in 1..MaxCookie /\ last_cookie' = id
  BY DBusAssumption DEF DBusInv, DBusTypes, SendCall
<1>2. ask \in Asks /\ no \in Word
  BY <1>1, WordsOf DEF Asks
<1>3. CASE channel = "open"
  <2>1. dsent' = Append(dsent, ask) /\ calls' = calls \cup {id} /\ dlater' = dlater
    BY <1>3 DEF SendCall
  <2> HIDE DEF ask, id
  <2>2. DBusTypes'
    BY <1>1, <1>2, <2>1, AppendProperties DEF DBusInv, DBusTypes
  <2>3. Described'
    BY <2>1 DEF DBusInv, Described
  <2> QED BY <2>2, <2>3 DEF DBusInv
<1>4. CASE channel # "open"
  <2>1. dlater' = Append(dlater, no) /\ UNCHANGED <<dsent, calls>>
    BY <1>4 DEF SendCall
  <2>2. PICK mid : Carries(dlater, cache, mid)
    BY DEF DBusInv, Described
  <2>3. Reads(no, mid, mid)
    BY RejectedReads
  <2> HIDE DEF no, id
  <2>4. dlater \in Seq(Word)
    BY DEF DBusInv, DBusTypes
  <2>5. Carries(dlater', cache, mid) /\ dlater' \in Seq(Word)
    BY <1>2, <2>1, <2>2, <2>3, <2>4, CarriesAppend, AppendProperties
  <2>6. DBusTypes'
    BY <1>1, <2>1, <2>5 DEF DBusInv, DBusTypes
  <2>7. Described'
    BY <1>4, <2>5 DEF Described
  <2> QED BY <2>6, <2>7 DEF DBusInv
<1> QED BY <1>3, <1>4

LEMMA CancelInv ==
  ASSUME DBusInv, NEW id \in 1..MaxCookie, Cancel(id)
  PROVE  DBusInv'
<1> DEFINE no == [do |-> "rejected", id |-> id]
           ask == [msg |-> IF id = proxy.wait THEN "unwatch" ELSE "unwatch-all", id |-> 0]
<1>1. no \in Word /\ ask \in Asks
  BY WordsOf, DBusAssumption DEF Asks
<1>2. /\ calls' = calls \ {id} /\ dlater' = Append(dlater, no)
      /\ dsent' = Append(dsent, ask) \/ dsent' = dsent
      /\ UNCHANGED <<channel, last_cookie, cache, skewed, world, known, drecv>>
  BY DEF Cancel, bridge
<1>3. PICK mid : Carries(dlater, cache, mid) /\ (channel = "open" => Carries(drecv, mid, known))
  BY DEF DBusInv, Described
<1>4. Reads(no, mid, mid)
  BY RejectedReads
<1> HIDE DEF no, ask
<1>5. dlater \in Seq(Word) /\ dsent \in Seq(Asks)
  BY DEF DBusInv, DBusTypes
<1>6. Carries(dlater', cache, mid) /\ dlater' \in Seq(Word)
  BY <1>1, <1>2, <1>3, <1>4, <1>5, CarriesAppend, AppendProperties
<1>7. dsent' \in Seq(Asks)
  <2>1. Append(dsent, ask) \in Seq(Asks)
    BY <1>1, <1>5, AppendProperties
  <2> QED BY <1>2, <1>5, <2>1
<1>8. DBusTypes'
  BY <1>2, <1>6, <1>7 DEF DBusInv, DBusTypes
<1>9. Described'
  BY <1>2, <1>3, <1>6 DEF Described
<1> QED BY <1>2, <1>8, <1>9 DEF DBusInv

\* on_message: a word goes from the channel to the queue, or is for nobody.
LEMMA DBusMessageInv ==
  ASSUME DBusInv, DBusMessage
  PROVE  DBusInv'
<1> DEFINE m == Head(drecv)
<1>1. /\ channel = "open" /\ drecv # <<>> /\ drecv \in Seq(Word) /\ dlater \in Seq(Word)
      /\ drecv' = Tail(drecv)
      /\ UNCHANGED <<channel, last_cookie, skewed, world, known, dsent>>
  BY DEF DBusMessage, DBusInv, DBusTypes, bridge
<1>2. m \in Word /\ drecv' \in Seq(Word)
  BY <1>1, HeadTailProperties
<1>3. /\ dlater' = Append(dlater, m) \/ (dlater' = dlater /\ m.do = "reply")
      /\ calls' \subseteq calls /\ cache' = cache
  BY DEF DBusMessage, NotifyLater
<1> HIDE DEF m
<1>4. PICK mid : Carries(dlater, cache, mid) /\ Carries(drecv, mid, known)
  BY <1>1 DEF DBusInv, Described
<1>5. PICK c : Reads(m, mid, c) /\ Carries(drecv', c, known)
  BY <1>1, <1>4, CarriesHead DEF m
<1>6. Carries(dlater', cache, c) /\ dlater' \in Seq(Word)
  <2>1. CASE dlater' = Append(dlater, m)
    BY <1>1, <1>2, <1>4, <1>5, <2>1, CarriesAppend, AppendProperties
  <2>2. CASE dlater' = dlater /\ m.do = "reply"
    <3>1. c = mid
      BY <1>5, <2>2 DEF Reads
    <3> QED BY <1>1, <1>4, <2>2, <3>1
  <2> QED BY <1>3, <2>1, <2>2
<1>7. Described'
  BY <1>1, <1>3, <1>5, <1>6 DEF Described
<1>8. DBusTypes'
  BY <1>1, <1>2, <1>3, <1>6 DEF DBusInv, DBusTypes
<1> QED BY <1>1, <1>7, <1>8 DEF DBusInv

\* close_perform: what was not answered gets an error after what came before.
LEMMA DBusCloseInv ==
  ASSUME DBusInv, DBusClose
  PROVE  DBusInv'
<1> DEFINE R == {[do |-> "rejected", id |-> id] : id \in calls}
           T == SetToSeq(R)
<1>1. /\ channel' = "closed" /\ calls' = {} /\ dlater' = dlater \o T /\ dsent' = <<>>
      /\ drecv' = <<>> /\ UNCHANGED <<last_cookie, cache, skewed, world, known>>
  BY DEF DBusClose, ClosePerform, Rejections, bridge
<1>2. IsFiniteSet(R)
  <2>1. IsFiniteSet(calls)
    <3>1. IsFiniteSet(1..MaxCookie)
      BY FS_Interval, DBusAssumption
    <3> QED BY <3>1, FS_Subset DEF DBusInv, DBusTypes
  <2>2. R \in SUBSET R
    OBVIOUS
  <2> DEFINE F == [id \in calls |-> [do |-> "rejected", id |-> id]]
  <2>3. F \in Surjection(calls, R)
    BY DEF Surjection
  <2> QED BY <2>1, <2>3, FS_Surjection
<1>3. T \in Seq(R)
  <2>1. Cardinality(R) \in Nat /\ ExistsBijection(1..Cardinality(R), R)
    BY <1>2, FS_CardinalityType
  <2>2. PICK f : f \in [1..Cardinality(R) -> R] /\ IsInjective(f)
    BY <2>1 DEF ExistsBijection, Bijection, Injection
  <2> HIDE DEF R
  <2>3. T \in [1..Cardinality(R) -> R]
    BY <2>2 DEF SetToSeq
  <2> HIDE DEF T
  <2> QED BY <2>1, <2>3
<1>4. \A r \in R : r \in Word /\ r.do = "rejected"
  BY WordsOf, DBusAssumption DEF DBusInv, DBusTypes
<1> HIDE DEF T, R
<1>5. T \in Seq(Word) /\ \A i \in 1 .. Len(T) : T[i].do = "rejected"
  BY <1>3, <1>4
<1>6. dlater \in Seq(Word)
  BY DEF DBusInv, DBusTypes
<1>7. PICK mid : Carries(dlater, cache, mid)
  BY DEF DBusInv, Described
<1>8. Carries(dlater', cache, mid) /\ dlater' \in Seq(Word)
  BY <1>1, <1>5, <1>6, <1>7, CarriesRejected, ConcatProperties
<1>9. Described'
  BY <1>1, <1>8 DEF Described
<1>10. DBusTypes'
  BY <1>1, <1>8 DEF DBusInv, DBusTypes
<1> QED BY <1>1, <1>9, <1>10 DEF DBusInv

\* later_invoke(): a notification updates the cache, a reply finds it as it says.
LEMMA DBusLaterInv ==
  ASSUME DBusInv, DBusLater
  PROVE  DBusInv'
<1> DEFINE m == Head(dlater)
<1>1. /\ dlater # <<>> /\ dlater \in Seq(Word) /\ cache \in State
      /\ dlater' = Tail(dlater) /\ (m.do = "notify" => RunNotify(m)) /\ (m.do # "notify" => RunReply(m))
      /\ UNCHANGED <<channel, last_cookie, calls, world, known, dsent, drecv>>
  BY DEF DBusLater, DBusInv, DBusTypes, bridge
<1>2. m \in Word /\ dlater' \in Seq(Word)
  BY <1>1, HeadTailProperties
<1>3. PICK mid : Carries(dlater, cache, mid) /\ (channel = "open" => Carries(drecv, mid, known))
  BY DEF DBusInv, Described
<1>4. PICK c : Reads(m, cache, c) /\ Carries(dlater', c, mid)
  BY <1>1, <1>3, CarriesHead
<1> HIDE DEF m
<1>5. cache' = c /\ cache' \in State /\ ~skewed'
  <2>1. ~skewed
    BY DEF DBusInv
  <2>2. CASE m.do = "notify"
    <3>1. cache' = Over(cache, m.data) /\ c = Over(cache, m.data)
      BY <1>1, <1>4, <2>2 DEF RunNotify, Seen, Over, Reads
    <3>2. m.data \in Partial
      BY <1>2, <2>2 DEF Word
    <3>3. PICK D \in SUBSET Objects : m.data \in [D -> Nat]
      BY <3>2 DEF Partial
    <3>4. Over(cache, m.data) \in State
      BY <1>1, <3>3 DEF Over, State
    <3>5. ~skewed'
      BY <1>1, <2>1, <2>2 DEF RunNotify, Shown, ProxyFirst
    <3> QED BY <3>1, <3>4, <3>5
  <2>3. CASE m.do # "notify"
    <3>1. c = cache /\ (m.do = "reply" => m.data = cache)
      BY <1>4, <2>3 DEF Reads
    <3> QED BY <1>1, <2>1, <2>3, <3>1 DEF RunReply
  <2> QED BY <2>2, <2>3
<1>6. Described'
  BY <1>1, <1>3, <1>4, <1>5 DEF Described
<1>7. DBusTypes'
  BY <1>1, <1>2, <1>5 DEF DBusInv, DBusTypes
<1> QED BY <1>5, <1>6, <1>7 DEF DBusInv

\* What the bridge says of the objects that rules cover is all there is to say.
LEMMA Noticed ==
  ASSUME DBusInv, NEW rules, NEW mid, Carries(drecv, mid, known)
  PROVE  /\ Told(rules) \in State /\ drecv \o Notice(rules) \in Seq(Word)
         /\ Carries(drecv \o Notice(rules), mid, Told(rules))
<1> DEFINE N == News(rules)
           d == [o \in N |-> world[o]]
           w == [do |-> "notify", data |-> d]
<1>1. drecv \in Seq(Word) /\ world \in State /\ known \in State
  BY DEF DBusInv, DBusTypes
<1>2. N \subseteq Objects
  BY DEF News, Covered
<1>3. Told(rules) \in State
  BY <1>1 DEF Told, State
<1>4. CASE N = {}
  <2>1. Notice(rules) = <<>>
    BY <1>4 DEF Notice
  <2>2. Told(rules) = known
    BY <1>1, <1>4 DEF Told, State
  <2>3. drecv \o <<>> = drecv
    BY <1>1, ConcatEmptySeq
  <2> QED BY <1>1, <1>3, <2>1, <2>2, <2>3
<1>5. CASE N # {}
  <2>1. Notice(rules) = <<w>>
    BY <1>5 DEF Notice
  <2>2. d \in Partial
    <3>1. d \in [N -> Nat]
      BY <1>1, <1>2 DEF State
    <3> QED BY <1>2, <3>1 DEF Partial
  <2>3. w \in Word
    BY <2>2, WordsOf
  <2>4. Told(rules) = Over(known, d)
    BY <1>2 DEF Told, Over
  <2>5. Reads(w, known, Told(rules))
    BY <2>4 DEF Reads
  <2> HIDE DEF w
  <2>6. drecv \o <<w>> = Append(drecv, w)
    BY <1>1, <2>3, AppendIsConcat
  <2>7. Carries(Append(drecv, w), mid, Told(rules)) /\ Append(drecv, w) \in Seq(Word)
    BY <1>1, <2>3, <2>5, CarriesAppend, AppendProperties
  <2>8. drecv \o Notice(rules) = Append(drecv, w)
    BY <2>1, <2>6
  <2> QED BY <1>3, <2>7, <2>8
<1> QED BY <1>4, <1>5

LEMMA BridgeNotifyInv ==
  ASSUME DBusInv, BridgeNotify
  PROVE  DBusInv'
<1>1. /\ channel = "open" /\ drecv' = drecv \o Notice(watched) /\ known' = Told(watched)
      /\ UNCHANGED <<channel, last_cookie, calls, dlater, cache, skewed, world, dsent>>
  BY DEF BridgeNotify
<1>2. PICK mid : Carries(dlater, cache, mid) /\ Carries(drecv, mid, known)
  BY <1>1 DEF DBusInv, Described
<1>3. known' \in State /\ drecv' \in Seq(Word) /\ Carries(drecv', mid, known')
  BY <1>1, <1>2, Noticed
<1>4. Described'
  BY <1>1, <1>2, <1>3 DEF Described
<1>5. DBusTypes'
  BY <1>1, <1>3 DEF DBusInv, DBusTypes
<1> QED BY <1>1, <1>4, <1>5 DEF DBusInv

LEMMA BridgeReceiveInv ==
  ASSUME DBusInv, BridgeReceive
  PROVE  DBusInv'
<1> DEFINE m == Head(dsent)
           rules == CASE m.msg = "unwatch" -> watched \ {Single}
                      [] m.msg = "unwatch-all" -> watched \ {"all"}
                      [] m.msg = "call" -> watched
                      [] OTHER -> watched \cup {m.msg}
           r == [do |-> "reply", id |-> m.id, data |-> Told(rules)]
           S == drecv \o Notice(rules)
<1>1. /\ channel = "open" /\ dsent # <<>> /\ dsent' = Tail(dsent) /\ known' = Told(rules)
      /\ drecv' = S \o IF m.id = 0 THEN <<>> ELSE <<r>>
      /\ UNCHANGED <<channel, last_cookie, calls, dlater, cache, skewed, world>>
  BY DEF BridgeReceive
<1>2. PICK mid : Carries(dlater, cache, mid) /\ Carries(drecv, mid, known)
  BY <1>1 DEF DBusInv, Described
<1>3. dsent \in Seq(Asks)
  BY DEF DBusInv, DBusTypes
<1>4. m \in Asks /\ dsent' \in Seq(Asks)
  BY <1>1, <1>3, HeadTailProperties
<1>5. m.id \in Nat
  BY <1>4 DEF Asks
<1> HIDE DEF m, rules
<1>6. Told(rules) \in State /\ S \in Seq(Word) /\ Carries(S, mid, Told(rules))
  BY <1>2, Noticed
<1> HIDE DEF S
<1>7. known' \in State /\ drecv' \in Seq(Word) /\ Carries(drecv', mid, known')
  <2>1. CASE m.id = 0
    <3>1. drecv' = S
      BY <1>1, <1>6, <2>1, ConcatEmptySeq
    <3> QED BY <1>1, <1>6, <3>1
  <2>2. CASE m.id # 0
    <3>1. r \in Word
      BY <1>5, <1>6, WordsOf
    <3>2. Reads(r, Told(rules), Told(rules))
      BY DEF Reads
    <3>3. drecv' = S \o <<r>>
      BY <1>1, <2>2
    <3> HIDE DEF r
    <3>4. drecv' = Append(S, r)
      BY <1>6, <3>1, <3>3, AppendIsConcat
    <3>5. Append(S, r) \in Seq(Word)
      BY <1>6, <3>1, AppendProperties
    <3>6. Carries(Append(S, r), mid, known')
      BY <1>1, <1>6, <3>1, <3>2, CarriesAppend
    <3> QED BY <1>1, <1>6, <3>1, <3>4, <3>5, <3>6
  <2> QED BY <2>1, <2>2
<1>8. Described'
  BY <1>1, <1>2, <1>7 DEF Described
<1>9. DBusTypes'
  BY <1>1, <1>4, <1>7 DEF DBusInv, DBusTypes
<1> QED BY <1>1, <1>8, <1>9 DEF DBusInv

\* The invariant holds whatever the page, the bridge and the service do.
THEOREM DescribedAlways == DBusSpec => []DBusInv
<1>1. DBusInit => DBusInv
  BY DBusInitInv
<1>2. DBusInv /\ [DBusNext]_dbusvars => DBusInv'
  <2> SUFFICES ASSUME DBusInv, [DBusNext]_dbusvars PROVE DBusInv'
    OBVIOUS
  <2>1. CASE DBusCall
    BY <2>1, SendCallInv DEF DBusCall, bridge
  <2>2. CASE MakeProxy
    BY <2>2, SendCallInv, DBusAssumption DEF MakeProxy, bridge
  <2>3. CASE \E k \in Groups : MakeProxies(k)
    BY <2>3, SendCallInv DEF MakeProxies, bridge
  <2>4. CASE \E o \in Objects : WorldChanges(o)
    <3>1. PICK o \in Objects : WorldChanges(o)
      BY <2>4
    <3>2. world' \in State
      BY <3>1, DBusAssumption DEF WorldChanges, DBusInv, DBusTypes, State
    <3> QED BY <3>1, <3>2 DEF WorldChanges, DBusInv, DBusTypes, Described
  <2>5. CASE UNCHANGED dbusvars
    BY <2>5 DEF dbusvars, DBusInv, DBusTypes, Described
  <2> QED BY <2>1, <2>2, <2>3, <2>4, <2>5, CancelInv, DBusMessageInv, DBusCloseInv, DBusLaterInv,
             BridgeNotifyInv, BridgeReceiveInv DEF DBusNext
<1> QED BY <1>1, <1>2, PTL DEF DBusSpec

\* When the handler of a reply runs, the cache holds exactly what the bridge
\* had announced before that reply, for any number of calls, watches, changes
\* and cancelled watches, and also after the channel has closed.
THEOREM HandlersSeeCacheAlways == DBusSpec => []HandlersSeeCache
<1>1. DBusInv => HandlersSeeCache
  BY DEF DBusInv, HandlersSeeCache
<1> QED BY <1>1, DescribedAlways, PTL
=============================================================================
