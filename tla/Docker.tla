------------------------------- MODULE Docker -------------------------------
(***************************************************************************)
(* DockerClient, pkg/docker/client.js: it follows /events, fetches the     *)
(* list of containers and each container's details after an event, counts  *)
(* operations under way, and connects again after a failure.  Images are   *)
(* fetched like containers, and are left out.                              *)
(***************************************************************************)
EXTENDS Naturals, Sequences, SequencesExt, FiniteSets

CONSTANTS Ids,            \* containers; an id is not used twice
          MaxDrops,       \* bound: ends of an /events stream, failures and reconnections
          MaxOperations   \* bound: operations of the user

ASSUME DockerAssumption == MaxDrops \in Nat /\ MaxOperations \in Nat

VARIABLES server,         \* the daemon: state of each container
          wire,           \* answers on their way, in the order they were given: each has a
                          \* channel of its own, so they come in any order
          crossed,        \* a list came before an answer that was given earlier
          asked,          \* requests that the daemon has not answered
          client,         \* the DockerClient
          drops, operations

dockervars == <<server, wire, crossed, asked, client, drops, operations>>

DockerInit ==
  /\ server = [i \in Ids |-> "none"] /\ wire = <<>> /\ crossed = FALSE
  /\ asked = {[is |-> "list", id |-> "", n |-> 1]}
  /\ client = [containers |-> {}, waiting |-> [i \in Ids |-> 0], alive |-> TRUE, streams |-> 1,
               timers |-> 0, later |-> FALSE, failure |-> FALSE]
  /\ drops = 0 /\ operations = 0

Exists == {i \in Ids : server[i] = "there"}

\* An event goes to every stream there is.
Event == IF client.streams > 0 THEN <<[is |-> "event", ok |-> TRUE, id |-> "", ids |-> {}]>> ELSE <<>>

\* Requests that are alike are told apart by a number.
Ask(is, id) ==
  LET taken == {q.n : q \in {p \in asked : p.is = is /\ p.id = id}}
  IN [is |-> is, id |-> id, n |-> CHOOSE k \in 1..(Cardinality(taken) + 1) : k \notin taken]
-----------------------------------------------------------------------------
(* The daemon.                                                             *)

DaemonChanges(i) ==
  /\ \/ server[i] = "none" /\ server' = [server EXCEPT ![i] = "there"]
     \/ server[i] = "there" /\ server' = [server EXCEPT ![i] = "gone"]
  /\ wire' = wire \o Event
  /\ UNCHANGED <<crossed, asked, client, drops, operations>>

Serve(q) ==
  /\ q \in asked /\ asked' = asked \ {q}
  /\ LET removes == q.is = "rm" /\ server[q.id] = "there"
     IN /\ wire' = (wire \o (IF removes THEN Event ELSE <<>>))
                     \o <<[is |-> q.is, ok |-> (q.is = "list" \/ q.id \in Exists), id |-> q.id,
                           ids |-> IF q.is = "list" THEN Exists ELSE {}]>>
        /\ server' = IF removes THEN [server EXCEPT ![q.id] = "gone"] ELSE server
  /\ UNCHANGED <<crossed, client, drops, operations>>
-----------------------------------------------------------------------------
\* fetch_containers and the like, in the handler of "event".
TriggerEvent ==
  /\ client.later
  /\ client' = [client EXCEPT !.later = FALSE]
  /\ asked' = asked \cup {Ask("list", "")}
  /\ UNCHANGED <<server, wire, crossed, drops, operations>>

ListedOnlyNew(C, ids) == [C EXCEPT !.alive = TRUE]

\* The handlers of an answer: of /events, of the list, of details, of rm.
Listed(C, ids) == [C EXCEPT !.alive = TRUE, !.containers = @ \cap ids]

NotWaitingIfDone(C, id, ok) ==
  IF ok THEN [C EXCEPT !.waiting[id] = @ - 1, !.containers = @ \ {id}] ELSE C

NotWaiting(C, id, ok) ==
  [C EXCEPT !.waiting[id] = @ - 1, !.containers = IF ok THEN @ \ {id} ELSE @]

ReceiveAnswer(k) ==
  /\ wire' = RemoveAt(wire, k)
  /\ LET a == wire[k]
     IN /\ crossed' = \/ crossed
                      \/ a.is = "list" /\ \E j \in 1..(k - 1) : wire[j].is \in {"list", "details"}
        /\ client' = CASE a.is = "event" -> [client EXCEPT !.later = TRUE]
                       [] a.is = "list" -> Listed(client, a.ids)
                       [] a.is = "details" -> IF a.ok THEN [client EXCEPT !.containers = @ \cup {a.id}] ELSE client
                       [] a.is = "rm" -> NotWaiting(client, a.id, a.ok)
        /\ asked' = IF a.is # "list" THEN asked
                    ELSE asked \cup {Ask("details", i) : i \in a.ids}
  /\ UNCHANGED <<server, drops, operations>>

\* rm(), and the other operations on a container likewise.
RemoveContainer(i) ==
  /\ i \in client.containers /\ operations < MaxOperations
  /\ operations' = operations + 1
  /\ client' = [client EXCEPT !.waiting[i] = @ + 1]
  /\ asked' = asked \cup {Ask("rm", i)}
  /\ UNCHANGED <<server, wire, crossed, drops>>

\* An /events stream ends, and is connected again a second later.
EventsEnd ==
  /\ client.streams > 0 /\ drops < MaxDrops /\ drops' = drops + 1
  /\ client' = [client EXCEPT !.streams = @ - 1, !.timers = @ + 1]
  /\ UNCHANGED <<server, wire, crossed, asked, operations>>

ConnectEvents ==
  /\ client.timers > 0
  /\ client' = IF client.alive THEN [client EXCEPT !.timers = @ - 1, !.streams = @ + 1, !.alive = FALSE]
               ELSE [client EXCEPT !.timers = @ - 1]
  /\ UNCHANGED <<server, wire, crossed, asked, drops, operations>>

\* A list fails.
ListFails(q) ==
  /\ q \in asked /\ q.is = "list" /\ drops < MaxDrops /\ drops' = drops + 1
  /\ asked' = asked \ {q}
  /\ client' = [client EXCEPT !.failure = TRUE]
  /\ UNCHANGED <<server, wire, crossed, operations>>

\* maybe_reconnect: close() rejects what is under way, and the handlers of
\* those rejections run after perform_connect().
RejectedLists == {q \in asked : q.is = "list"} # {} \/ \E k \in DOMAIN wire : wire[k].is = "list"

Ended(i) ==
  Cardinality({q \in asked : q.is = "rm" /\ q.id = i})
    + Cardinality({k \in DOMAIN wire : wire[k].id = i /\ wire[k].is = "rm"})

PerformConnect(C) == [C EXCEPT !.failure = FALSE, !.streams = 1]

MaybeReconnect ==
  /\ client.failure /\ drops < MaxDrops /\ drops' = drops + 1
  /\ client' = [PerformConnect(client) EXCEPT
                   !.failure = RejectedLists, !.timers = @ + client.streams,
                   !.waiting = [i \in Ids |-> @[i] - Ended(i)]]
  /\ asked' = {[is |-> "list", id |-> "", n |-> 1]}
  /\ wire' = <<>>
  /\ UNCHANGED <<server, crossed, operations>>

DockerNext ==
  \/ \E i \in Ids : DaemonChanges(i) \/ RemoveContainer(i)
  \/ \E q \in asked : Serve(q) \/ ListFails(q)
  \/ TriggerEvent \/ (\E k \in DOMAIN wire : ReceiveAnswer(k))
  \/ EventsEnd \/ ConnectEvents \/ MaybeReconnect

DockerSpec == DockerInit /\ [][DockerNext]_dockervars
-----------------------------------------------------------------------------
DockerTypeOK ==
  /\ client.containers \subseteq Ids /\ client.waiting \in [Ids -> 0..MaxOperations]
  /\ client.streams \in 0..MaxDrops + 2 /\ client.timers \in 0..MaxDrops + 2
  /\ \A i \in Ids : client.waiting[i] = Ended(i)

DockerQuiet == asked = {} /\ wire = <<>> /\ ~client.later

\* While no request failed and no stream ended, once all is answered the
\* client has the containers that the daemon has, although details are asked
\* for one by one while containers come and go, and the answers come in any
\* order: except that a list which overtakes an older list or older details is
\* undone by them, and nothing asks again until the next event.
ContainersFollow ==
  DockerQuiet /\ drops = 0 /\ ~crossed
    => client.containers = Exists /\ \A i \in Ids : client.waiting[i] = 0

\* The comment in connect_events: "Reconnect to /events when it
\* disconnects/fails".
EventsReconnected == client.streams > 0 \/ client.timers > 0
=============================================================================
