------------------------------- MODULE Series --------------------------------
(***************************************************************************)
(* cockpit.series, cockpit.grid and the metrics channels that feed them    *)
(* (cockpit.js): an index of blocks of samples, which is searched, filled, *)
(* truncated and expired, and a grid with one row over a range of time.    *)
(* The sample of a point in time is that point, so that a sample in the    *)
(* wrong place shows.  Series with one identifier share one index, and     *)
(* each counts and expires the entries that it made itself: "this" has the *)
(* grid and the metrics channels, "other" is in another frame, and without *)
(* an identifier the other one takes no step.                              *)
(***************************************************************************)
EXTENDS Integers, Sequences, FiniteSets, FiniteSetsExt

CONSTANTS End,       \* bound: samples are at 0 .. End - 1
          Limit,     \* self.limit
          Options,   \* length of options_list
          MaxMoves   \* bound: moves of the grid, and what the other series does

ASSUME SeriesAssumption ==
  End \in Nat /\ Limit \in Nat /\ Options \in Nat /\ MaxMoves \in Nat

VARIABLES store,     \* the index; for each series its list used for expiry and its count
          grid,      \* bounds and the row
          channels,  \* open metrics channels: what is still to come, is_archive, and how
                     \* many options are left to try
          following,
          moves

seriesvars == <<store, grid, channels, following, moves>>

Sinks == {"this", "other"}

Fake == -1     \* an item of new Array(n), and a place of the row that is not filled
SampleTimes == 0..End - 1

NoGrid == [beg |-> 0, end |-> 0, row |-> [t \in SampleTimes |-> Fake]]

\* made names the entries; left is what series that are gone have counted.
SeriesInit ==
  /\ store = [index |-> <<>>, made |-> 0, left |-> 0,
              list |-> [s \in Sinks |-> <<>>], count |-> [s \in Sinks |-> 0]]
  /\ grid = NoGrid
  /\ channels = {} /\ following = FALSE /\ moves = 0

-----------------------------------------------------------------------------
(* SeriesSink.  Positions in the index count from 0, as in the code.       *)

At(index, i) == index[i + 1]
Remove0(index, i) == SubSeq(index, 1, i) \o SubSeq(index, i + 2, Len(index))
Insert0(index, i, entry) == SubSeq(index, 1, i) \o <<entry>> \o SubSeq(index, i + 1, Len(index))

\* search(): a binary search.
SearchIndex(index, beg) ==
  LET step[low \in 0..Len(index), high \in -1..Len(index) - 1] ==
        IF low > high THEN low
        ELSE LET mid == (low + high) \div 2
             IN IF At(index, mid).beg < beg THEN step[mid + 1, high]
                ELSE IF At(index, mid).beg > beg THEN step[low, mid - 1]
                ELSE mid
  IN step[0, Len(index) - 1]

First(at) == IF at > 0 THEN at - 1 ELSE at

Larger(a, b) == IF a > b THEN a ELSE b
Smaller(a, b) == IF a < b THEN a ELSE b

\* Items of an entry without the ones at b .. e - 1: splice().
Spliced(entry, b, e) ==
  [entry EXCEPT !.items = SubSeq(@, 1, b - entry.beg) \o SubSeq(@, e - entry.beg + 1, Len(@)),
                !.beg = IF b = @ THEN e ELSE @]

\* The loop of stash() that truncates what intersects; i is where it ends.
RECURSIVE Truncate(_, _, _, _, _, _)
Truncate(C, s, i, at, beg, end) ==
  IF i >= Len(C.index) THEN [C |-> C, i |-> i]
  ELSE LET entry == At(C.index, i)
           b == Larger(entry.beg, beg)
           e == Smaller(entry.beg + Len(entry.items), end)
       IN IF entry.items = <<>> THEN Truncate(C, s, i + 1, at, beg, end)
          ELSE IF b < e
          THEN Truncate([C EXCEPT !.index[i + 1] = Spliced(entry, b, e), !.count[s] = @ - (e - b)],
                        s, i + 1, at, beg, end)
          ELSE IF i >= at THEN [C |-> C, i |-> i]
          ELSE Truncate(C, s, i + 1, at, beg, end)

\* Entries of zero length around the insertion point go.
RECURSIVE Clean(_, _, _)
Clean(index, at, i) ==
  IF at > i THEN index
  ELSE IF at >= 0 /\ at < Len(index) /\ At(index, at).items = <<>>
  THEN Clean(Remove0(index, at), at, i)
  ELSE Clean(index, at + 1, i)

Length(index, id) ==
  LET here == {i \in 1..Len(index) : index[i].id = id}
  IN IF here = {} THEN 0 ELSE Len(index[CHOOSE i \in here : TRUE].items)

\* Entries of a series expire in the order they were made, until the limit is kept.
RECURSIVE Expire(_, _)
Expire(C, s) ==
  IF C.list[s] = <<>> \/ C.count[s] <= Limit THEN C
  ELSE Expire([C EXCEPT
                 !.count[s] = @ - Length(C.index, Head(C.list[s])),
                 !.index = [i \in 1..Len(@) |-> IF @[i].id = Head(C.list[s])
                                                THEN [@[i] EXCEPT !.items = <<>>] ELSE @[i]],
                 !.list[s] = Tail(@)], s)

RECURSIVE TrimStart(_)
TrimStart(index) ==
  IF index # <<>> /\ Head(index).items = <<>> THEN TrimStart(Tail(index)) ELSE index

StashUncounted(C, s, beg, items) ==
  IF items = <<>> THEN C
  ELSE LET at == SearchIndex(C.index, beg)
           T == Truncate(C, s, First(at), at, beg, beg + Len(items))
           entry == [id |-> C.made + 1, beg |-> beg, items |-> items]
           N == Expire([T.C EXCEPT !.index = Clean(Insert0(@, at, entry), at - 1, T.i),
                                   !.list[s] = Append(@, C.made + 1), !.made = @ + 1,
                                   !.count = [C.count EXCEPT ![s] = @ + Len(items)]], s)
       IN [N EXCEPT !.index = TrimStart(@)]

\* stash() of the series s
Stash(C, s, beg, items) ==
  IF items = <<>> THEN C
  ELSE LET at == SearchIndex(C.index, beg)
           T == Truncate(C, s, First(at), at, beg, beg + Len(items))
           entry == [id |-> C.made + 1, beg |-> beg, items |-> items]
           N == Expire([T.C EXCEPT !.index = Clean(Insert0(@, at, entry), at - 1, T.i),
                                   !.list[s] = Append(@, C.made + 1), !.made = @ + 1,
                                   !.count[s] = @ + Len(items)], s)
       IN [N EXCEPT !.index = TrimStart(@)]

\* process(): the part of a block that the grid shows goes into its row.
FillRow(g, beg, items) ==
  [g EXCEPT !.row = [t \in SampleTimes |->
     IF t >= Larger(beg, g.beg) /\ t < Smaller(beg + Len(items), g.end)
     THEN items[t - beg + 1] ELSE @[t]]]

\* The walk of load(): what is there goes to the grid, and gaps are noted.
RECURSIVE Walk(_, _, _, _, _, _)
Walk(index, i, at, g, last, gaps) ==
  IF i >= Len(index) THEN [grid |-> g, last |-> last, gaps |-> gaps]
  ELSE LET entry == At(index, i)
           b == Larger(entry.beg, g.beg)
           e == Smaller(entry.beg + Len(entry.items), g.end)
       IN IF entry.items = <<>> THEN Walk(index, i + 1, at, g, last, gaps)
          ELSE IF b < e
          THEN Walk(index, i + 1, at,
                    FillRow(g, b, SubSeq(entry.items, b - entry.beg + 1, e - entry.beg)), e,
                    IF b > last THEN Append(gaps, <<last, b>>) ELSE gaps)
          ELSE IF i >= at THEN [grid |-> g, last |-> last, gaps |-> gaps]
          ELSE Walk(index, i + 1, at, g, last, gaps)

Fakes(n) == [k \in 1..n |-> Fake]

\* load() for the bounds of the grid g: walk is the result, gaps are fetched, with
\* fake data in their place.
LoadWalk(C, g) ==
  LET at == SearchIndex(C.index, g.beg)
      w == Walk(C.index, First(at), at, g, g.beg, <<>>)
  IN [w EXCEPT !.gaps = IF w.last # g.end THEN Append(@, <<w.last, g.end>>) ELSE @]

RECURSIVE Fetch(_, _)
Fetch(C, gaps) ==
  IF gaps = <<>> THEN C
  ELSE Fetch(Stash(C, "this", Head(gaps)[1], Fakes(Head(gaps)[2] - Head(gaps)[1])), Tail(gaps))

-----------------------------------------------------------------------------
(* MetricsChannel                                                          *)

\* transfer() with n options: the channels that it opens.
Transferred(follows, at, end, archive, n) ==
  {c \in {[at |-> at, end |-> end, archive |-> archive, rest |-> n - 1]} :
     n > 0 /\ (archive \/ ~follows)}

Follows(C) == \E c \in C : ~c.archive

\* SeriesGrid.move(): the row is emptied, and filled from the cache.
Move(beg, end) ==
  /\ moves < MaxMoves /\ moves' = moves + 1
  /\ LET w == LoadWalk(store, [NoGrid EXCEPT !.beg = beg, !.end = end])
     IN /\ grid' = w.grid
        /\ store' = Fetch(store, w.gaps)
        /\ channels' = channels \cup
             UNION {Transferred(following, w.gaps[k][1], w.gaps[k][2], TRUE, Options) :
                      k \in DOMAIN w.gaps}
  /\ UNCHANGED following

\* walk(): the grid moves by one, and what is missing is followed.
Step ==
  /\ grid.end < End /\ grid.end > grid.beg /\ moves < MaxMoves /\ moves' = moves + 1
  /\ LET w == LoadWalk(store, [NoGrid EXCEPT !.beg = grid.beg + 1, !.end = grid.end + 1])
         new == IF w.gaps = <<>> THEN {} ELSE Transferred(following, grid.end, End, FALSE, Options)
     IN /\ grid' = w.grid
        /\ channels' = channels \cup new
        /\ following' = (following \/ Follows(new))
  /\ UNCHANGED store

Block(beg, n) == [k \in 1..n |-> beg + k - 1]

\* A message of a channel: n samples from the point it has reached, which may lie
\* after the one that was asked for.  A channel with data has found its source.
\* SeriesSink.input().
ChannelData(c, skip, n) ==
  /\ c \in channels /\ c.at + skip + n <= c.end
  /\ LET beg == c.at + skip
     IN /\ grid' = FillRow(grid, beg, Block(beg, n))
        /\ store' = Stash(store, "this", beg, Block(beg, n))
        /\ channels' = (channels \ {c}) \cup {[c EXCEPT !.at = beg + n, !.rest = 0]}
  /\ UNCHANGED <<following, moves>>

\* on close.  After "not-supported" or "not-found" the next options are tried, and
\* not as an archive.
ChannelClosed(c, missing) ==
  /\ c \in channels
  /\ LET follows == following /\ c.archive
         new == IF missing THEN Transferred(follows, c.at, c.end, FALSE, c.rest) ELSE {}
     IN /\ channels' = (channels \ {c}) \cup new
        /\ following' = (follows \/ Follows(new))
  /\ UNCHANGED <<store, grid, moves>>

-----------------------------------------------------------------------------
(* Frames with series of the same identifier                               *)

OtherInput(beg, n) ==
  /\ moves < MaxMoves /\ moves' = moves + 1
  /\ store' = Stash(store, "other", beg, Block(beg, n))
  /\ UNCHANGED <<grid, channels, following>>

\* The frame of a series is loaded again: the index is at a parent window and stays,
\* lookup_storage(), and the new series has counted nothing.
FrameReloaded(s) ==
  /\ moves < MaxMoves /\ moves' = moves + 1
  /\ store' = [store EXCEPT !.list[s] = <<>>, !.count[s] = 0, !.left = @ + store.count[s]]
  /\ IF s = "this" THEN grid' = NoGrid /\ channels' = {} /\ following' = FALSE
     ELSE UNCHANGED <<grid, channels, following>>

SeriesNext ==
  \/ \E beg, end \in 0..End : beg < end /\ Move(beg, end)
  \/ Step
  \/ \E c \in channels, skip \in 0..1, n \in 1..End : ChannelData(c, skip, n)
  \/ \E c \in channels, missing \in BOOLEAN : ChannelClosed(c, missing)
  \/ \E beg \in SampleTimes, n \in 1..2 : beg + n <= End /\ OtherInput(beg, n)
  \/ \E s \in Sinks : FrameReloaded(s)

SeriesSpec == SeriesInit /\ [][SeriesNext]_seriesvars

-----------------------------------------------------------------------------
SeriesTypeOK ==
  /\ grid.row \in [SampleTimes -> SampleTimes \cup {Fake}]
  /\ following = Follows(channels)
  /\ \A i \in DOMAIN store.index : store.index[i].beg \in 0..End

\* The cache is accounted for and keeps its limits, although blocks are truncated by
\* others, thrown away and expired in another order than that of the index: the
\* samples in a shared index are those its series count, the ones that are gone
\* included, and no series counts more than its limit.  (One that has no identifier
\* counts its own index, and that is within the limit.)  The index that is searched
\* is in order.
CacheKeepsLimit ==
  /\ MapThenSumSet(LAMBDA i : Len(store.index[i].items), DOMAIN store.index)
       = store.count["this"] + store.count["other"] + store.left
  /\ \A s \in Sinks : store.count[s] <= Limit
  /\ \A i, j \in DOMAIN store.index : i < j => store.index[i].beg <= store.index[j].beg

\* "The first index of the row will contain the data from the series data at the
\* grid.beg offset": a sample is shown at its own time.
RowAligned == \A t \in SampleTimes : grid.row[t] \in {t, Fake}
=============================================================================
