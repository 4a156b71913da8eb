------------------------------ MODULE Promises -------------------------------
(***************************************************************************)
(* The promises of cockpit.js: Deferred, then, notify and the ordered      *)
(* queue of functions that are called later.  A value is represented by    *)
(* the deferred it was first given to.  Script code runs between the       *)
(* functions of the queue and inside every handler they call.  A handler   *)
(* may throw: the exception ends later_drain, and what it had taken from   *)
(* the queue and not called yet is lost.                                   *)
(***************************************************************************)
EXTENDS Naturals, Sequences, SequencesExt

CONSTANTS MaxDeferred,   \* bound: deferreds made, 1 and 2 by the script
          MaxUpdates     \* bound: calls of notify

ASSUME PromisesAssumption == MaxDeferred \in Nat /\ MaxDeferred >= 2 /\ MaxUpdates \in Nat

VARIABLES def,           \* def[d]: the state of deferred d
          made,          \* deferreds made so far
          later,         \* later_queue
          queue,         \* the functions later_drain has taken and not called yet
          running,       \* the entries process_queue has still to look at
          lost,          \* deferreds whose process_queue an exception has dropped
          updates        \* calls of notify so far

promisevars == <<def, made, later, queue, running, lost, updates>>

Deferreds == 1..MaxDeferred

\* An entry of pending: the deferred of its result, and its handlers.
\* "value": functions that return a value; "none": no function for this
\* outcome; "promise": functions that return promise `with';  "adopt":
\* the functions deferred_resolve gives to the promise it follows.
Entry(to, on, with) == [to |-> to, on |-> on, with |-> with]

NewDeferred == [status |-> 0, value |-> 0, pending |-> <<>>, scheduled |-> FALSE]

PromisesInit ==
  /\ def = [d \in Deferreds |-> NewDeferred]
  /\ made = 2 /\ updates = 0
  /\ later = <<>> /\ queue = <<>> /\ running = <<>> /\ lost = {}

\* S is [def, later]; schedule_process_queue and later_invoke.
Schedule(S, d) ==
  IF S.def[d].scheduled \/ S.def[d].pending = <<>> THEN S
  ELSE [S EXCEPT !.def[d].scheduled = TRUE,
                 !.later = Append(@, [do |-> "process", d |-> d])]

AddEntryLate(S, d, entry) == [S EXCEPT !.def[d].pending = Append(@, entry)]

\* promise_then
AddEntry(S, d, entry) ==
  LET T == [S EXCEPT !.def[d].pending = Append(@, entry)]
  IN IF T.def[d].status > 0 THEN Schedule(T, d) ELSE T

\* deferred_resolve with a plain value, deferred_reject.
Settle(S, d, status, value) ==
  Schedule([S EXCEPT !.def[d].status = status, !.def[d].value = value], d)

\* deferred_resolve with a promise: follow it.
Follow(S, d, e) ==
  AddEntry([S EXCEPT !.def[d].status = 0 - 1], e, Entry(d, "adopt", e))

State == [def |-> def, later |-> later]

Apply(S) == def' = S.def /\ later' = S.later

-----------------------------------------------------------------------------
(* What a script can call.                                                 *)

Resolve(d, status) ==
  /\ d \in 1..2
  /\ Apply(IF def[d].status = 0 THEN Settle(State, d, status, d) ELSE State)
  /\ UNCHANGED <<made, queue, running, lost, updates>>

\* Promises that follow each other in a circle would never settle.
ResolveWith(d, e) ==
  /\ d \in 1..2 /\ def[d].status = 0 /\ e < d
  /\ Apply(Follow(State, d, e))
  /\ UNCHANGED <<made, queue, running, lost, updates>>

Then(d, on, e) ==
  /\ d \in 1..made /\ made < MaxDeferred
  /\ IF on = "promise" THEN e \in 1..2 /\ e # d ELSE e = 1
  /\ made' = made + 1
  /\ Apply(AddEntry(State, d, Entry(made + 1, on, e)))
  /\ UNCHANGED <<queue, running, lost, updates>>

\* deferred_notify: the callbacks are the entries that are there when the
\* function runs, which is before process_queue takes them.
Notified(S, d) ==
  IF S.def[d].status > 0 \/ S.def[d].pending = <<>> THEN S
  ELSE [S EXCEPT !.later = Append(@, [do |-> "notify", d |-> d])]

Notify(d) ==
  /\ d \in 1..2 /\ updates < MaxUpdates
  /\ updates' = updates + 1
  /\ Apply(Notified(State, d))
  /\ UNCHANGED <<made, queue, running, lost>>

-----------------------------------------------------------------------------
(* later_drain                                                             *)

ProcessStaysScheduled(d) ==
  /\ running' = [i \in DOMAIN def[d].pending |->
                   [entry |-> def[d].pending[i],
                    status |-> def[d].status, value |-> def[d].value]]
  /\ def' = [def EXCEPT ![d].pending = <<>>]
  /\ UNCHANGED later

\* process_queue takes the entries, with the outcome they will see.
Process(d) ==
  /\ running' = [i \in DOMAIN def[d].pending |->
                   [entry |-> def[d].pending[i],
                    status |-> def[d].status, value |-> def[d].value]]
  /\ def' = [def EXCEPT ![d].scheduled = FALSE, ![d].pending = <<>>]
  /\ UNCHANGED later

\* The function deferred_notify left: every entry is told, in order.
Update(d) ==
  /\ Apply(FoldLeft(LAMBDA S, entry : Notified(S, entry.to), State, def[d].pending))
  /\ UNCHANGED running

\* The timeout: later_drain takes the queue; what is added from now on is
\* for a timeout of its own.
Drain ==
  /\ running = <<>> /\ queue = <<>> /\ later # <<>>
  /\ queue' = later /\ later' = <<>>
  /\ UNCHANGED <<def, made, running, lost, updates>>

\* The next function of the queue, once the last one has returned.
Call ==
  /\ running = <<>> /\ queue # <<>>
  /\ queue' = Tail(queue)
  /\ LET f == Head(queue) IN
       IF f.do = "process" THEN Process(f.d) ELSE Update(f.d)
  /\ UNCHANGED <<made, lost, updates>>

\* One round of the loop of process_queue.
RunEntry ==
  /\ running # <<>>
  /\ running' = Tail(running)
  /\ LET r == Head(running) to == r.entry.to IN
     CASE r.entry.on = "adopt" -> Apply(Settle(State, to, r.status, r.value))
          [] r.entry.on # "adopt" /\ def[to].status # 0 -> Apply(State)
          [] r.entry.on = "value" /\ def[to].status = 0 -> Apply(Settle(State, to, 1, to))
          [] r.entry.on = "promise" /\ def[to].status = 0 ->
               Apply(Follow(State, to, r.entry.with))
          [] r.entry.on = "none" /\ def[to].status = 0 ->
               Apply(Settle(State, to, r.status, r.value))
  /\ UNCHANGED <<made, queue, lost, updates>>

\* The functions of fs go with the frame of later_drain; the deferreds they
\* should have processed stay scheduled.
Dropped(fs) ==
  /\ queue' = <<>> /\ running' = <<>>
  /\ lost' = lost \union {fs[i].d : i \in {j \in DOMAIN fs : fs[j].do = "process"}}
  /\ UNCHANGED <<made, updates>>

\* A handler throws instead of returning a value.  Nothing between it and
\* the browser catches that: the result of its entry is not settled, and
\* the entries behind it and the rest of the queue are not looked at.
Throw ==
  /\ running # <<>> /\ Head(running).entry.on \in {"value", "promise"}
  /\ Dropped(queue)
  /\ UNCHANGED <<def, later>>

\* The callback for updates of the entry behind the first k throws.
ThrowUpdate(k) ==
  /\ running = <<>> /\ queue # <<>> /\ Head(queue).do = "notify"
  /\ LET pending == def[Head(queue).d].pending IN
       /\ k < Len(pending) /\ pending[k + 1].on # "adopt"
       /\ Apply(FoldLeft(LAMBDA S, entry : Notified(S, entry.to), State, SubSeq(pending, 1, k)))
  /\ Dropped(Tail(queue))

PromisesNext ==
  \/ \E d \in Deferreds, status \in {1, 2} : Resolve(d, status)
  \/ \E d, e \in Deferreds : ResolveWith(d, e)
  \/ \E d, e \in Deferreds, on \in {"value", "none", "promise"} : Then(d, on, e)
  \/ \E d \in Deferreds : Notify(d)
  \/ Drain
  \/ Call
  \/ RunEntry
  \/ Throw
  \/ \E k \in 0..(MaxDeferred - 1) : ThrowUpdate(k)

\* The browser runs the timeout that later_invoke has set, and a script
\* that has control goes on until it returns or throws.
PromisesFairness == WF_promisevars(Drain \/ Call \/ RunEntry)

PromisesSpec == PromisesInit /\ [][PromisesNext]_promisevars /\ PromisesFairness
-----------------------------------------------------------------------------
PromisesTypeOK ==
  /\ made \in 2..MaxDeferred
  /\ \A d \in Deferreds :
       /\ def[d].status \in {0 - 1, 0, 1, 2}
       /\ def[d].scheduled <=>
            \/ d \in lost
            \/ \E i \in DOMAIN (queue \o later) :
                 (queue \o later)[i] = [do |-> "process", d |-> d]

\* The handlers of a promise that is settled are called, also those that are
\* added while its other handlers run (schedule_process_queue), and also
\* when other handlers throw: an exception costs the handlers only of those
\* promises whose turn was to come in the same round of later_drain, and no
\* promise that is scheduled in that round or after it.
HandlersRun ==
  \A d \in Deferreds : (def[d].status > 0 /\ def[d].pending # <<>>) ~>
                          (def[d].pending = <<>> \/ d \in lost)
=============================================================================
