----------------------------- MODULE JournalBox -----------------------------
(***************************************************************************)
(* The logs page: journalbox() of pkg/systemd/logs.js shows the newest     *)
(* entry first and runs up to three journalctl processes, and the renderer *)
(* of pkg/lib/journal.js puts what they deliver at the top or the bottom   *)
(* of the box, collapsing repeated lines and inserting day headers and     *)
(* reboot markers.                                                         *)
(***************************************************************************)
EXTENDS Naturals, Sequences, SequencesExt, FiniteSets

CONSTANTS Days, Boots,  \* sets of numbers
          Messages,
          MaxEntries,   \* bound: entries in the journal
          First,        \* the oldest entry in the range that is asked for first
          QueryCount,   \* query_count: entries after which the query is stopped
          QueryMore     \* query_more

ASSUME JournalBoxAssumption == /\ MaxEntries \in Nat /\ First \in Nat \ {0}
                               /\ QueryCount \in Nat \ {0} /\ QueryMore \in Nat \ {0}

VARIABLES journal,          \* the journal, oldest first
          R,            \* the renderer: its two states and its output
          shown,        \* entries given to the renderer, from top to bottom
          query,        \* the first journalctl: the next entry it sends, and its closure
          follow,       \* the one that follows: its next entry (0: not started) and cursor
          earlier,      \* the one behind the button: next entry, cursor, count
          start_box     \* "empty", "loading" or "button" with the cursor it has

journalvars == <<journal, R, shown, query, follow, earlier, start_box>>

Kinds == [day : Days, boot : Boots, msg : Messages]

NoEntry == [day |-> 0, boot |-> 0, msg |-> ""]

NoState == [entry |-> NoEntry, count |-> 0, time |-> 0, line |-> FALSE, header |-> FALSE]

JournalBoxInit ==
  /\ journal \in {s \in UNION {[1..n -> Kinds] : n \in 0..MaxEntries - 1} :
                \A i \in 1..Len(s) - 1 : s[i].day <= s[i + 1].day /\ s[i].boot <= s[i + 1].boot}
  /\ R = [top |-> NoState, bottom |-> NoState, same |-> TRUE, out |-> <<>>]
  /\ shown = <<>>
  /\ query = [on |-> TRUE, next |-> Len(journal), last |-> 0, count |-> 0]
  /\ follow = [next |-> 0, cursor |-> 0]
  /\ earlier = [on |-> FALSE, next |-> 0, first |-> 0, count |-> 0]
  /\ start_box = [is |-> "loading", cursor |-> 0]
-----------------------------------------------------------------------------
(* The renderer, S.  While there is one line both states are one object.   *)

Day(day) == [is |-> "day", entry |-> [NoEntry EXCEPT !.day = day], count |-> 0, time |-> 0]

Reboot == [is |-> "reboot", entry |-> NoEntry, count |-> 0, time |-> 0]

Line(entry, count, time) == [is |-> "line", entry |-> entry, count |-> count, time |-> time]

RenderStateLine(s) == Line(s.entry, s.count, s.time)

SetTop(S, s) == [S EXCEPT !.top = s, !.bottom = IF S.same THEN s ELSE @]

SetBottom(S, s) == [S EXCEPT !.bottom = s, !.top = IF S.same THEN s ELSE @]

StartNewLine(S) == [S EXCEPT !.same = @ /\ S.top.entry = NoEntry]

Drop(out, n) == SubSeq(out, n + 1, Len(out))

TopOutput(S) ==
  LET present == (IF S.top.header THEN 1 ELSE 0) + (IF S.top.line THEN 1 ELSE 0)
      line == IF S.top.entry = NoEntry THEN <<>> ELSE <<RenderStateLine(S.top)>>
  IN SetTop([S EXCEPT !.out = line \o Drop(@, present)],
            [S.top EXCEPT !.header = FALSE, !.line = (line # <<>>)])

\* What separates two lines that follow each other, a above b.
Between(a, b, day) ==
  (IF a.day # b.day THEN <<Day(day)>> ELSE <<>>) \o (IF a.boot # b.boot THEN <<Reboot>> ELSE <<>>)

NewState(s, entry, time) == [s EXCEPT !.entry = entry, !.count = 1, !.time = time, !.line = FALSE]

Prepend(S, entry, time) ==
  IF S.top.entry = entry THEN SetTop(S, [S.top EXCEPT !.count = @ + 1])
  ELSE LET A == TopOutput(S)
           sep == IF A.top.entry = NoEntry THEN <<>> ELSE Between(entry, A.top.entry, A.top.entry.day)
           B == StartNewLine([A EXCEPT !.out = sep \o @])
       IN SetTop(B, NewState(B.top, entry, time))

PrependFlush(S) ==
  LET A == TopOutput(S)
  IN IF A.top.entry = NoEntry THEN A
     ELSE SetTop([A EXCEPT !.out = <<Day(A.top.entry.day)>> \o @], [A.top EXCEPT !.header = TRUE])

BottomOutputAgain(S) ==
  IF S.bottom.entry = NoEntry THEN S
  ELSE SetBottom([S EXCEPT !.out = Append(@, RenderStateLine(S.bottom))],
                 [S.bottom EXCEPT !.line = TRUE])

BottomOutput(S) ==
  IF S.bottom.entry = NoEntry THEN S
  ELSE LET out == IF S.bottom.line THEN Front(S.out) ELSE S.out
       IN SetBottom([S EXCEPT !.out = Append(out, RenderStateLine(S.bottom))],
                    [S.bottom EXCEPT !.line = TRUE])

AppendLine(S, entry, time) ==
  IF S.bottom.entry = entry THEN SetBottom(S, [S.bottom EXCEPT !.count = @ + 1, !.time = time])
  ELSE LET A == BottomOutput(S)
           old == A.bottom.entry
           sep == IF old = NoEntry THEN <<Day(entry.day)>> ELSE Between(old, entry, entry.day)
           H == SetBottom([A EXCEPT !.out = @ \o sep], [A.bottom EXCEPT !.header = @ \/ old.day # entry.day])
           B == StartNewLine(H)
       IN SetBottom(B, NewState(B.bottom, entry, time))

\* prepend_entries and append_entries: a batch of entries, by their numbers.
PrependEntries(ids) ==
  LET go[i \in 0..Len(ids)] == IF i = 0 THEN R ELSE Prepend(go[i - 1], journal[ids[i]], ids[i])
  IN R' = PrependFlush(go[Len(ids)]) /\ shown' = Reverse(ids) \o shown

AppendEntries(ids) ==
  LET go[i \in 0..Len(ids)] == IF i = 0 THEN R ELSE AppendLine(go[i - 1], journal[ids[i]], ids[i])
  IN R' = BottomOutput(go[Len(ids)]) /\ shown' = shown \o ids
-----------------------------------------------------------------------------
(* journalbox.  A process delivers entries in batches, each flushed.       *)

Up(from, n) == [i \in 1..n |-> from + i - 1]

Down(from, n) == [i \in 1..n |-> from - i + 1]

\* The handlers of done: the button they make has no cursor.
QueryDone(box, stopped) ==
  IF First > 1 \/ stopped THEN [is |-> "button", cursor |-> 0] ELSE [box EXCEPT !.is = "empty"]

QueryBatch(n) ==
  /\ query.on /\ query.next - n + 1 >= First
  /\ AppendEntries(Down(query.next, n))
  /\ LET last == IF query.last = 0 THEN query.next ELSE query.last
         stop == query.count + n >= QueryCount
     IN /\ query' = [on |-> ~stop, next |-> query.next - n, last |-> last, count |-> query.count + n]
        /\ follow' = IF query.last = 0 THEN [next |-> last, cursor |-> last] ELSE follow
        /\ start_box' = IF stop THEN QueryDone(start_box, TRUE) ELSE start_box
  /\ UNCHANGED <<journal, earlier>>

QueryEnds ==
  /\ query.on /\ query.next < First
  /\ query' = [query EXCEPT !.on = FALSE]
  /\ start_box' = QueryDone(start_box, FALSE)
  /\ follow' = IF query.last = 0 THEN [next |-> First, cursor |-> 0] ELSE follow
  /\ UNCHANGED <<journal, R, shown, earlier>>

Shift(ids, cursor) == IF ids[1] = cursor THEN Tail(ids) ELSE ids

FollowBatch(n) ==
  /\ follow.next > 0 /\ follow.next + n - 1 <= Len(journal)
  /\ PrependEntries(Shift(Up(follow.next, n), follow.cursor))
  /\ follow' = [follow EXCEPT !.next = @ + n]
  /\ UNCHANGED <<journal, query, earlier, start_box>>

LoadEarlier ==
  /\ start_box.is = "button"
  /\ earlier' = [on |-> TRUE, next |-> IF start_box.cursor = 0 THEN Len(journal) ELSE start_box.cursor,
                 first |-> start_box.cursor, count |-> 0]
  /\ start_box' = [start_box EXCEPT !.is = "loading"]
  /\ UNCHANGED <<journal, R, shown, query, follow>>

EarlierBatch(n) ==
  /\ earlier.on /\ n <= earlier.next
  /\ LET ids == Shift(Down(earlier.next, n), earlier.first)
         stop == earlier.count + Len(ids) >= QueryMore
     IN /\ AppendEntries(ids)
        /\ earlier' = [earlier EXCEPT !.on = ~stop, !.next = @ - n, !.count = @ + Len(ids)]
        /\ start_box' = IF stop THEN [is |-> "button", cursor |-> Last(ids)] ELSE start_box
  /\ UNCHANGED <<journal, query, follow>>

EarlierEnds ==
  /\ earlier.on /\ earlier.next = 0
  /\ earlier' = [earlier EXCEPT !.on = FALSE]
  /\ start_box' = [start_box EXCEPT !.is = "empty"]
  /\ UNCHANGED <<journal, R, shown, query, follow>>

NewEntry(kind) ==
  /\ Len(journal) < MaxEntries
  /\ journal # <<>> => Last(journal).day <= kind.day /\ Last(journal).boot <= kind.boot
  /\ journal' = Append(journal, kind)
  /\ UNCHANGED <<R, shown, query, follow, earlier, start_box>>

JournalBoxNext ==
  \/ \E n \in 1..MaxEntries : QueryBatch(n) \/ FollowBatch(n) \/ EarlierBatch(n)
  \/ QueryEnds
  \/ LoadEarlier
  \/ EarlierEnds
  \/ \E kind \in Kinds : NewEntry(kind)

JournalBoxSpec == JournalBoxInit /\ [][JournalBoxNext]_journalvars
-----------------------------------------------------------------------------
JournalBoxTypeOK ==
  /\ \A i \in DOMAIN shown : shown[i] \in 1..Len(journal)
  /\ \A i \in DOMAIN R.out : R.out[i].is \in {"day", "reboot", "line"}
  /\ start_box.is \in {"empty", "loading", "button"} /\ start_box.cursor \in 0..MaxEntries

\* How a list of entries is to be rendered: a header above the lines of a
\* day, a marker at a reboot, and one line for entries that repeat.
Rendered(ids) ==
  LET kind(i) == journal[ids[i]]
      repeats(i) == Cardinality({j \in 1..i : \A k \in j..i : kind(k) = kind(i)})
      part(i) == (IF i = 1 THEN <<Day(kind(1).day)>> ELSE Between(kind(i - 1), kind(i), kind(i).day))
                 \o (IF i = Len(ids) THEN <<Line(kind(i), repeats(i), ids[i])>>
                     ELSE IF kind(i + 1) = kind(i) THEN <<>>
                     ELSE <<Line(kind(i), repeats(i), ids[i])>>)
  IN FlattenSeq([i \in 1..Len(ids) |-> part(i)])

\* The comment above renderer(): flushing does not introduce discontinuities,
\* repeated lines are collapsed across flushes, at the top and at the bottom.
\* Whatever the order in which the processes deliver, the box shows what
\* rendering all its entries at once would show.
BoxRendered == R.out = Rendered(shown)

\* The button is labelled "Load earlier entries": below an entry of the box is
\* the one before it in the journal.
EarlierIsBelow == \A i \in 1..Len(shown) - 1 : shown[i] = shown[i + 1] + 1
=============================================================================
