-------------------------------- MODULE Kube ---------------------------------
(***************************************************************************)
(* kube-client.js and kube-client-cockpit.js: the kubeLoader, which keeps  *)
(* a copy of the objects of a Kubernetes server, the CockpitKubeWatches    *)
(* that feed it and start their requests again whenever they end, and the  *)
(* objects that are loaded on request meanwhile.                           *)
(***************************************************************************)
EXTENDS Naturals, Sequences, SequencesExt, FiniteSetsExt

CONSTANTS Objs,            \* objects, each in a namespace of its own
          MaxChange,      \* bound: changes on the server
          MaxFailures,     \* bound: watch requests that end
          MaxLoads,        \* bound: objects loaded or deleted on request
          Faults           \* what may go wrong: "midlist", "midline", "delete"

ASSUME KubeAssumption == /\ MaxChange \in Nat /\ MaxFailures \in Nat /\ MaxLoads \in Nat
                         /\ Faults \subseteq {"midlist", "midline", "delete"}

VARIABLES log,             \* the server: log[v] is the change with version v
          oldest,          \* versions up to this are forgotten by the server
          W,               \* watching: for each path its CockpitKubeWatch
          batch, btimer,   \* the loader: batch and batchTimeout
          objects,         \* objects[o]: the version the loader has, or 0
          limit,           \* limits.namespace, as the set of paths it stands for
          gets,            \* answers to requests for one object
          failures, loads

kubevars == <<log, oldest, W, batch, btimer, objects, limit, gets, failures, loads>>

\* The path of a namespace is its object.  AllPath has no namespace, and a limit of null
\* is {AllPath}.
AllPath == "all"
WatchPaths == Objs \cup {AllPath}
Covered(p) == IF p = AllPath THEN Objs ELSE {p}

\* The version of the last change of o up to version v, 0 if it is gone.
VersionAt(o, v) ==
  LET of == {i \in 1..v : log[i].o = o}
  IN IF of = {} \/ log[Max(of)].del THEN 0 ELSE Max(of)

Current(o) == VersionAt(o, Len(log))

Frame(o, v, del, check) == [o |-> o, v |-> v, del |-> del, check |-> check]

\* A new CockpitKubeWatch, which has found the server: its request is sent.
\* last is lastResource, have the objects it tracks, prev those of before.
NewWatch == [chan |-> "asked", list |-> {}, pos |-> 0, last |-> 0, have |-> {}, prev |-> {},
             loaded |-> FALSE, timer |-> FALSE, wait |-> FALSE, buffer |-> FALSE]

\* There is none for this path.
NoWatch == [NewWatch EXCEPT !.chan = "none"]
InUse == {p \in WatchPaths : W[p].chan # "none"}

\* ensureWatches(), for a limit.  The references of a watch are not a number, because
\* they were never set before they were incremented: cancel() by its users never cancels.
EnsureWatches(ws, only) ==
  [p \in WatchPaths |-> IF p \in only /\ ws[p].chan = "none" THEN NewWatch ELSE ws[p]]

KubeInit ==
  /\ log = <<>> /\ oldest = 0 /\ W = EnsureWatches([p \in WatchPaths |-> NoWatch], {AllPath})
  /\ batch = <<>> /\ btimer = FALSE /\ objects = [o \in Objs |-> 0]
  /\ limit = {AllPath} /\ gets = {} /\ failures = 0 /\ loads = 0

-----------------------------------------------------------------------------
(* The loader.  S is [batch, btimer, objects].                             *)

Loader == [batch |-> batch, btimer |-> btimer, objects |-> objects]

AcceptAny(have, f) == TRUE

\* handleFlush: what was loaded on request is not taken if it is older than
\* what the loader has.
Accept(have, f) == f.check /\ have # 0 => f.v >= have

ApplyFrame(have, f) ==
  CASE f.del -> [have EXCEPT ![f.o] = 0]
    [] ~f.del /\ Accept(have[f.o], f) -> [have EXCEPT ![f.o] = f.v]
    [] ~f.del /\ ~Accept(have[f.o], f) -> have

HandleFlush(S) ==
  [S EXCEPT !.batch = <<>>, !.objects = FoldLeft(ApplyFrame, @, S.batch)]

\* handleFrames: the first frames are taken at once, then some are gathered.
HandleFrames(S, frames) ==
  LET T == [S EXCEPT !.batch = @ \o frames]
  IN IF frames = <<>> THEN HandleFlush(T)
     ELSE IF S.btimer THEN T ELSE HandleFlush([T EXCEPT !.btimer = TRUE])

SetLoader(S) == batch' = S.batch /\ btimer' = S.btimer /\ objects' = S.objects

HandleTimeout ==
  /\ btimer
  /\ SetLoader(HandleFlush([Loader EXCEPT !.btimer = FALSE]))
  /\ UNCHANGED <<log, oldest, W, limit, gets, failures, loads>>

-----------------------------------------------------------------------------
(* The watch.                                                              *)

\* startWatch: nothing if there is a request.
StartWatch(w) == IF w.chan = "off" THEN [w EXCEPT !.chan = "asked"] ELSE w

\* loadFinish: once only, the objects that were there before and are not in
\* the new list are reported as deleted.
Vanished(w) == IF w.loaded THEN <<>>
               ELSE SetToSeq({Frame(f.o, f.v, TRUE, FALSE) : f \in
                                {p \in w.prev : \A h \in w.have : h.o # p.o}})

LoadFinish(w, S) ==
  IF w.loaded THEN S
  ELSE HandleFrames(IF Vanished(w) = <<>> THEN S ELSE HandleFrames(S, Vanished(w)), <<>>)

Finished(w) == [w EXCEPT !.loaded = TRUE, !.prev = IF w.loaded THEN @ ELSE {}]

LoadTimer(p) ==
  /\ W[p].timer
  /\ SetLoader(LoadFinish(W[p], Loader))
  /\ W' = [W EXCEPT ![p] = [Finished(@) EXCEPT !.timer = FALSE]]
  /\ UNCHANGED <<log, oldest, limit, gets, failures, loads>>

\* The server answers: with the objects there are and then their changes,
\* or with the changes after lastResource, or with an ERROR frame.
Response(p) ==
  /\ W[p].chan = "asked"
  /\ LET last == W[p].last
         w == [W[p] EXCEPT !.timer = TRUE,
                           !.prev = IF last = 0 THEN W[p].have ELSE {},
                           !.have = IF last = 0 THEN {} ELSE @]
     IN W' = [W EXCEPT ![p] =
                CASE last # 0 /\ last < oldest -> [w EXCEPT !.chan = "error"]
                  [] last = 0 ->
                       [w EXCEPT !.chan = "open", !.pos = Len(log),
                                 !.list = {[o |-> o, v |-> Current(o)] :
                                             o \in {x \in Covered(p) : Current(x) # 0}}]
                  [] last # 0 /\ last >= oldest -> [w EXCEPT !.chan = "open", !.pos = last]]
  /\ UNCHANGED <<log, oldest, batch, btimer, objects, limit, gets, failures, loads>>

\* The ERROR frame: lastResource is dropped.  startWatch does nothing, as
\* there is a request still.
ErrorFrame(p) ==
  /\ W[p].chan = "error"
  /\ W' = [W EXCEPT ![p] = StartWatch([@ EXCEPT !.last = 0, !.chan = "over"])]
  /\ SetLoader(HandleFrames(Loader, <<>>))
  /\ UNCHANGED <<log, oldest, limit, gets, failures, loads>>

\* The frames that can come next: an object of the list, in any order, and
\* then the changes.
NextFrames(w) ==
  IF w.list # {} THEN {<<Frame(x.o, x.v, FALSE, FALSE)>> : x \in w.list}
  ELSE {[i \in 1..n |-> Frame(log[w.pos + i].o, w.pos + i, log[w.pos + i].del, FALSE)] :
          n \in 1..(Len(log) - w.pos)}

Track(w, f) ==
  [w EXCEPT !.last = f.v,
            !.have = {h \in @ : h.o # f.o} \cup
                     (IF f.del THEN {} ELSE {[o |-> f.o, v |-> f.v]})]

\* handleWatch: what is in the buffer spoils the first line, and the request
\* is closed, while the other lines are used.
HandleWatch(p, frames) ==
  /\ W[p].chan = "open" /\ frames \in NextFrames(W[p])
  /\ LET old == W[p]
         lines == SelectSeq(frames, LAMBDA f : f.o \in Covered(p))
         good == IF old.buffer /\ lines # <<>> THEN Tail(lines) ELSE lines
         w == [FoldLeft(Track, old, good)
                 EXCEPT !.buffer = FALSE, !.wait = @ \/ old.buffer,
                        !.chan = IF old.buffer THEN "off" ELSE @,
                        !.list = IF old.buffer THEN {} ELSE {x \in @ : x.o # frames[1].o},
                        !.pos = IF old.list # {} THEN @ ELSE @ + Len(frames)]
     IN /\ W' = [W EXCEPT ![p] = w]
        /\ SetLoader(IF lines = <<>> THEN Loader ELSE HandleFrames(Loader, good))
  /\ UNCHANGED <<log, oldest, limit, gets, failures, loads>>

\* The close handler: "blocked" for a request that lasted, "quick" for one
\* that did not, "problem" for a failure, "gone" for a status 403, 404, 410.
ChannelCloses(p, why, midline) ==
  /\ W[p].chan \notin {"none", "off"} /\ failures < MaxFailures
  /\ failures' = failures + 1
  /\ W[p].list # {} => "midlist" \in Faults
  /\ midline => "midline" \in Faults /\ W[p].chan = "open" /\ NextFrames(W[p]) # {}
  /\ LET w == [W[p] EXCEPT !.chan = "off", !.list = {}, !.buffer = @ \/ midline]
     IN /\ W' = [W EXCEPT ![p] = CASE why = "blocked" -> StartWatch(w)
                                   [] why = "quick" -> [w EXCEPT !.wait = TRUE]
                                   [] why = "problem" -> [Finished(w) EXCEPT !.wait = TRUE]
                                   [] why = "gone" -> Finished(w)]
        /\ SetLoader(IF why \in {"problem", "gone"} THEN LoadFinish(w, Loader) ELSE Loader)
  /\ UNCHANGED <<log, oldest, limit, gets, loads>>

\* startWatchLater
WaitEnds(p) ==
  /\ W[p].wait
  /\ W' = [W EXCEPT ![p] = StartWatch([@ EXCEPT !.wait = FALSE])]
  /\ UNCHANGED <<log, oldest, batch, btimer, objects, limit, gets, failures, loads>>

\* cancelWatch of the watches of the paths ps ends their loading.
CancelAll(S, ps) == FoldLeft(LAMBDA T, p : LoadFinish(W[p], T), S, SetToSeq(ps))

-----------------------------------------------------------------------------
(* What pages call.                                                        *)

\* load(o) or patch(o); delete(o) changes the server and answers later.
Request(o, del) ==
  /\ loads < MaxLoads
  /\ loads' = loads + 1
  /\ Current(o) # 0
  /\ IF del THEN "delete" \in Faults /\ Len(log) < MaxChange
                   /\ log' = Append(log, [o |-> o, del |-> TRUE])
            ELSE UNCHANGED log
  /\ gets' = gets \cup {Frame(o, Current(o), del, TRUE)}
  /\ UNCHANGED <<oldest, W, batch, btimer, objects, limit, failures>>

\* handleObjects flushes.
RequestDone(f) ==
  /\ f \in gets
  /\ gets' = gets \ {f}
  /\ SetLoader(HandleFlush(HandleFrames(Loader, <<f>>)))
  /\ UNCHANGED <<log, oldest, W, limit, failures, loads>>

\* adjustNamespace: what is outstanding is used, and objects outside are dropped.
\* Only if a watch is outside is it cancelled, and then those for the new
\* namespaces are started.
AdjustNamespace(only) ==
  /\ failures < MaxFailures
  /\ failures' = failures + 1
  /\ limit' = only
  /\ LET S == HandleFlush([Loader EXCEPT !.btimer = FALSE])
         outside == InUse \ only
         inside == UNION {Covered(p) : p \in only}
         T == [S EXCEPT !.objects = [o \in Objs |-> IF o \in inside THEN @[o] ELSE 0]]
     IN /\ SetLoader(CancelAll(T, outside))
        /\ W' = IF outside = {} THEN W
                ELSE EnsureWatches([p \in WatchPaths |-> IF p \in outside THEN NoWatch ELSE W[p]],
                                   only)
  /\ UNCHANGED <<log, oldest, gets, loads>>

\* resetLoader drops what is outstanding, and the page starts a new watch.
ResetLoader ==
  /\ failures < MaxFailures
  /\ failures' = failures + 1
  /\ limit' = {AllPath}
  /\ LET S == CancelAll([Loader EXCEPT !.batch = <<>>, !.btimer = FALSE], InUse)
     IN SetLoader([S EXCEPT !.objects = [o \in Objs |-> 0]])
  /\ W' = EnsureWatches([p \in WatchPaths |-> NoWatch], {AllPath})
  /\ UNCHANGED <<log, oldest, gets, loads>>

-----------------------------------------------------------------------------
ServerChanges(o, del) ==
  /\ Len(log) < MaxChange
  /\ del => Current(o) # 0
  /\ log' = Append(log, [o |-> o, del |-> del])
  /\ UNCHANGED <<oldest, W, batch, btimer, objects, limit, gets, failures, loads>>

ServerForgets ==
  /\ oldest < Len(log)
  /\ oldest' = Len(log)
  /\ UNCHANGED <<log, W, batch, btimer, objects, limit, gets, failures, loads>>

KubeNext ==
  \/ HandleTimeout
  \/ \E p \in WatchPaths : LoadTimer(p) \/ Response(p) \/ ErrorFrame(p) \/ WaitEnds(p)
  \/ \E p \in WatchPaths : \E frames \in NextFrames(W[p]) : HandleWatch(p, frames)
  \/ \E p \in WatchPaths, why \in {"blocked", "quick", "problem", "gone"}, midline \in BOOLEAN :
       ChannelCloses(p, why, midline)
  \/ \E o \in Objs, del \in BOOLEAN : Request(o, del)
  \/ \E f \in gets : RequestDone(f)
  \/ \E only \in (SUBSET Objs \ {{}}) \cup {{AllPath}} : AdjustNamespace(only)
  \/ ResetLoader
  \/ \E o \in Objs, del \in BOOLEAN : ServerChanges(o, del)
  \/ ServerForgets

KubeSpec == KubeInit /\ [][KubeNext]_kubevars

-----------------------------------------------------------------------------
KubeTypeOK ==
  /\ \A p \in WatchPaths : /\ W[p].chan \in {"none", "off", "asked", "open", "error", "over"}
                       /\ W[p].last \in 0..MaxChange /\ W[p].pos \in 0..MaxChange
  /\ InUse # {} /\ InUse \subseteq limit
  /\ objects \in [Objs -> 0..MaxChange]
  /\ oldest <= Len(log)

\* The watch has told everything, and the loader has taken it.
Quiet(w) == w.chan = "open" /\ w.last # 0 /\ w.list = {} /\ w.pos = Len(log) /\ ~w.timer
              /\ batch = <<>> /\ gets = {}

\* Objects of the watched namespaces are shown as they are on the server,
\* although requests end and start again, objects are loaded on request with
\* older versions, frames are gathered before they are used, and the limit
\* changes.  (A namespace that a list gains while it loses none has no watch.)
LiveShown ==
  \A p \in InUse : Quiet(W[p]) => \A o \in Covered(p) : Current(o) # 0 => objects[o] = Current(o)

\* "If we have a last resource we can guarantee that we don't miss any
\* objects or changes to objects": the same, with requests that end anywhere.
NothingMissed == LiveShown

\* The comment of app.js: "It'll open up individual watches about those namespaces."
LimitWatched == limit \subseteq InUse

\* "When transitioning from a loading to a loaded state, we have to: ...
\* b) See if any objects present before load need to be removed."
RemovedGone ==
  \A p \in InUse : Quiet(W[p]) => \A x \in W[p].prev : Current(x.o) = 0 => objects[x.o] = 0
=============================================================================
