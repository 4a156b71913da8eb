------------------------------- MODULE Select --------------------------------
(***************************************************************************)
(* kubeSelect of kube-client.js: the HashIndex that finds the objects that *)
(* may have some keys, and the filter that picks those that have.  Links   *)
(* and keys are numbers, whose order is the one the code sorts them by.    *)
(***************************************************************************)
EXTENDS Naturals, Sequences, SequencesExt, FiniteSetsExt

CONSTANTS Links, Keys,   \* sets of numbers
          Buckets        \* hash(key) % size is key % Buckets

ASSUME SelectAssumption == Links \subseteq Nat /\ Keys \subseteq Nat /\ Buckets \in Nat \ {0}

VARIABLES index,         \* array: for each bucket the links in it, sorted
          labels         \* the labels of each object, {} if it is not loaded

selectvars == <<index, labels>>

SelectInit == index = [b \in 0..(Buckets - 1) |-> <<>>] /\ labels = [x \in Links |-> {}]

-----------------------------------------------------------------------------
(* Pure functions.                                                         *)

\* search(): where a value is in a sorted array, or where it belongs.
Search(arr, val) ==
  LET probe[low \in 1..(Len(arr) + 1), high \in 0..Len(arr)] ==
        IF low > high THEN low
        ELSE LET mid == (low + high) \div 2
             IN CASE arr[mid] < val -> probe[mid + 1, high]
                  [] arr[mid] > val -> probe[low, mid - 1]
                  [] arr[mid] = val -> mid
  IN probe[1, Len(arr)]

\* add() for one key.
Insert(p, value) ==
  LET x == Search(p, value)
  IN IF x <= Len(p) /\ p[x] = value THEN p
     ELSE SubSeq(p, 1, x - 1) \o <<value>> \o SubSeq(p, x, Len(p))

IntersectByPosition(result, p) ==
  LET walk[r \in Seq(Links), ri \in Nat, px \in Nat] ==
        IF ri > Len(r) THEN r
        ELSE IF ri + px > Len(p) \/ p[ri + px] # r[ri] THEN walk[RemoveAt(r, ri), ri, px]
        ELSE walk[r, ri + 1, px]
  IN walk[result, 1, 0]

\* The loop of all() that keeps in result what is in p too.
Intersect(result, p) ==
  LET walk[r \in Seq(Links), ri \in Nat, px \in Nat] ==
        IF ri > Len(r) THEN r
        ELSE IF ri + px <= Len(p) /\ p[ri + px] < r[ri] THEN walk[r, ri, px + 1]
        ELSE IF ri + px > Len(p) \/ p[ri + px] # r[ri] THEN walk[RemoveAt(r, ri), ri, px]
        ELSE walk[r, ri + 1, px]
  IN walk[result, 1, 0]

\* all(): links that may have all the keys.
All(keys) ==
  LET seq == SetToSortSeq(keys, <)
      start == index[seq[1] % Buckets]
  IN FoldLeft(LAMBDA r, k : Intersect(r, index[k % Buckets]), start, Tail(seq))

\* The comparison of digestsFilter: after the first key, the others have to
\* follow one by one among the sorted keys of the object.
Matches(keys, keyo) ==
  LET want == SetToSortSeq(keys, <) have == SetToSortSeq(keyo, <)
  IN \E j \in 1..Len(have) :
       /\ have[j] = want[1]
       /\ \A k \in 1..Len(want) : j + k - 1 <= Len(have) /\ have[j + k - 1] = want[k]

\* digestsFilter: the selection label(keys).
Label(keys) == {x \in ToSet(All(keys)) : Matches(keys, labels[x])}

-----------------------------------------------------------------------------
\* indexObjects: objects that arrive are added under each of their keys.
\* What an object was indexed under before stays.
IndexObject(x, keys) ==
  /\ labels' = [labels EXCEPT ![x] = keys]
  /\ index' = [b \in DOMAIN index |->
                 IF \E k \in keys : k % Buckets = b THEN Insert(index[b], x) ELSE index[b]]

\* An object is removed: the index is left alone.
RemoveObject(x) ==
  /\ labels[x] # {}
  /\ labels' = [labels EXCEPT ![x] = {}]
  /\ UNCHANGED index

SelectNext ==
  \/ \E x \in Links, keys \in SUBSET Keys \ {{}} : IndexObject(x, keys)
  \/ \E x \in Links : RemoveObject(x)

SelectSpec == SelectInit /\ [][SelectNext]_selectvars

-----------------------------------------------------------------------------
SelectTypeOK ==
  /\ labels \in [Links -> SUBSET Keys]
  /\ \A b \in DOMAIN index : IsInjective(index[b]) /\ ToSet(index[b]) \subseteq Links

\* "false positives are possible, but never false negatives": whatever was
\* added, removed or added again under other keys, in which order and with
\* which collisions, the index finds every object that has all the keys.
NoFalseNegatives ==
  \A keys \in SUBSET Keys \ {{}} :
    {x \in Links : keys \subseteq labels[x]} \subseteq ToSet(All(keys))

\* ".label(selector)  Limit to objects whose label match selector": an
\* object is selected if it has the labels of the selector, and perhaps more.
LabelSelects ==
  \A keys \in SUBSET Keys \ {{}} : Label(keys) = {x \in Links : keys \subseteq labels[x]}
=============================================================================
