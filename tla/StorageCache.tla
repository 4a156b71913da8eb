---------------------------- MODULE StorageCache ----------------------------
(***************************************************************************)
(* StorageCache of cockpit.js: frames share a value through a property of  *)
(* the top window.  The frame that claims it runs the provider; versions   *)
(* in sessionStorage and the storage events about them, which reach the    *)
(* other frames later, tell when it changes and when it is given up.       *)
(***************************************************************************)
EXTENDS Naturals, Sequences

CONSTANTS Frames,
          MaxResults     \* bound: values that providers deliver

ASSUME StorageCacheAssumption == MaxResults \in Nat

VARIABLES version,       \* trigger[key]: the version, 0 if there is none
          shared,        \* storage[key]: the value, named by its version
          results,       \* values delivered so far
          frame,         \* the StorageCache object of each frame
          storage_events \* events on their way to each frame: versions, 0 for null

cachevars == <<version, shared, results, frame, storage_events>>

StorageCacheInit ==
  /\ version = 0 /\ shared = 0 /\ results = 0
  /\ frame = [f \in Frames |-> [state |-> "none", source |-> FALSE, claimed |-> FALSE, last |-> 0,
                                timers |-> <<>>, seen |-> 0]]
  /\ storage_events = [f \in Frames |-> <<>>]

Open(f) == frame[f].state = "open"

\* callback: with the value of now, later.
Callback(F, value) == IF value = 0 THEN F ELSE [F EXCEPT !.timers = Append(@, value)]

\* The end of changed().
NoteStale(F, new, value) ==
  IF F.last = new THEN F ELSE [F EXCEPT !.last = new, !.timers = Append(@, new)]

Note(F, new, value) == IF F.last = new THEN F ELSE Callback([F EXCEPT !.last = new], value)

Tell(f, new) ==
  storage_events' = [g \in Frames |->
    IF g # f /\ Open(g) THEN Append(storage_events[g], new) ELSE storage_events[g]]

\* cockpit.cache() in a frame.
OpenCache(f) ==
  /\ frame[f].state = "none"
  /\ LET F == [frame[f] EXCEPT !.state = "open"]
     IN frame' = [frame EXCEPT ![f] =
          IF version # 0 THEN Callback(F, shared) ELSE [F EXCEPT !.source = TRUE]]
  /\ UNCHANGED <<version, shared, results, storage_events>>

\* The provider calls result().
Result(f) ==
  /\ Open(f) /\ frame[f].source /\ results < MaxResults
  /\ results' = results + 1 /\ version' = results' /\ shared' = results'
  /\ frame' = [frame EXCEPT ![f] = Note([@ EXCEPT !.claimed = TRUE], results', results')]
  /\ Tell(f, results')

\* changed() for an event of another frame.
Changed(f) ==
  /\ Open(f) /\ storage_events[f] # <<>>
  /\ LET new == Head(storage_events[f])
     IN frame' = [frame EXCEPT ![f] =
          IF new = 0 /\ ~@.claimed THEN [@ EXCEPT !.source = TRUE] ELSE Note(@, new, shared)]
  /\ storage_events' = [storage_events EXCEPT ![f] = Tail(@)]
  /\ UNCHANGED <<version, shared, results>>

\* close(), also before the frame unloads: unclaim removes the value if it is
\* the last that this frame has heard of.
CloseCache(f) ==
  /\ Open(f)
  /\ frame' = [frame EXCEPT ![f].state = "closed", ![f].source = FALSE, ![f].claimed = FALSE]
  /\ IF frame[f].claimed /\ version # 0 /\ frame[f].last = version
     THEN version' = 0 /\ shared' = 0 /\ Tell(f, 0)
     ELSE UNCHANGED <<version, shared, storage_events>>
  /\ UNCHANGED results

Timeout(f) ==
  /\ Open(f) /\ frame[f].timers # <<>>
  /\ frame' = [frame EXCEPT ![f].seen = Head(frame[f].timers), ![f].timers = Tail(@)]
  /\ UNCHANGED <<version, shared, results, storage_events>>

StorageCacheNext ==
  \E f \in Frames : OpenCache(f) \/ Result(f) \/ Changed(f) \/ CloseCache(f) \/ Timeout(f)

StorageCacheSpec == StorageCacheInit /\ [][StorageCacheNext]_cachevars
-----------------------------------------------------------------------------
StorageCacheTypeOK ==
  /\ version \in 0..MaxResults /\ shared = version
  /\ \A f \in Frames : /\ frame[f].last \in 0..MaxResults /\ frame[f].seen \in 0..MaxResults
                       /\ frame[f].claimed => frame[f].source

Quiet(f) == storage_events[f] = <<>> /\ frame[f].timers = <<>>

\* Once its events and timeouts are done, the consumer in a frame has seen
\* the value that is shared, also when two frames provide it at once and
\* hear of each other's versions late.
SeenIsShared == \A f \in Frames : Open(f) /\ Quiet(f) /\ shared # 0 => frame[f].seen = shared

\* The comment in changed(): a frame claims when another's unclaim is
\* notified.  So while a frame has the cache open, some frame provides it.
SomeoneProvides ==
  (\E f \in Frames : Open(f)) /\ (\A f \in Frames : storage_events[f] = <<>>)
    => \E f \in Frames : Open(f) /\ frame[f].source
=============================================================================
