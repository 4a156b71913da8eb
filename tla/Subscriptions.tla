---------------------------- MODULE Subscriptions ----------------------------
(***************************************************************************)
(* The client of subscription-manager, subscriptions-client.js: it asks    *)
(* for the status over D-Bus with a timeout, and then runs two commands    *)
(* that read the status and the products.  A command is not started while  *)
(* it runs; it is run again when it was asked for meanwhile.               *)
(***************************************************************************)
EXTENDS Naturals

CONSTANTS MaxStatus,       \* bound: changes of the status of the system
          MaxUpdateCalls   \* bound: calls of requestUpdate

ASSUME SubscriptionsAssumption == MaxStatus \in Nat /\ MaxUpdateCalls \in Nat \ {0}

VARIABLES system_status,   \* the status of the system: a number, it names its products too
          notices,         \* signals on their way
          update,          \* for each call of requestUpdate: the call and its timer
          updateTimeout,   \* the call whose timer updateTimeout is, 0 for none
          unregistering,   \* an unregister command is running
          command,         \* "status", "details": running, asked for again, what it read
          info,            \* client.subscriptionStatus: status and products
          drawn            \* info as it was rendered last

subscriptionvars == <<system_status, notices, update, updateTimeout, unregistering, command, info, drawn>>

NotRunning == [getting |-> FALSE, requested |-> FALSE, read |-> FALSE, out |-> 0]

NoUpdate == [call |-> "none", timer |-> "none"]

Requested == {n \in 1..MaxUpdateCalls : update[n].call # "none"}

\* Statuses are numbers from 1; 0 is undefined.
SubscriptionsInit ==
  /\ system_status = 1 /\ notices = 0
  /\ update = [n \in 1..MaxUpdateCalls |-> IF n = 1 THEN [call |-> "open", timer |-> "set"] ELSE NoUpdate]
  /\ updateTimeout = 1 /\ unregistering = FALSE
  /\ command = [status |-> NotRunning, details |-> NotRunning]
  /\ info = [status |-> 0, products |-> 0, failed |-> FALSE] /\ drawn = info
-----------------------------------------------------------------------------
(* subscription-manager: what it does, and the signal about it.            *)

StatusChanges ==
  /\ system_status < MaxStatus
  /\ system_status' = system_status + 1 /\ notices' = notices + 1
  /\ UNCHANGED <<update, updateTimeout, unregistering, command, info, drawn>>

CommandReads(c) ==
  /\ command[c].getting /\ ~command[c].read
  /\ command' = [command EXCEPT ![c].read = TRUE, ![c].out = system_status]
  /\ UNCHANGED <<system_status, notices, update, updateTimeout, unregistering, info, drawn>>
-----------------------------------------------------------------------------
GetForgets(C, c) ==
  IF C[c].getting THEN C ELSE [C EXCEPT ![c] = [NotRunning EXCEPT !.getting = TRUE]]

\* getSubscriptionStatus, getSubscriptionDetails
Get(C, c) ==
  IF C[c].getting THEN [C EXCEPT ![c].requested = TRUE]
  ELSE [C EXCEPT ![c] = [NotRunning EXCEPT !.getting = TRUE]]

\* requestUpdate; a timer that updateTimeout had is no longer known.
RequestUpdate ==
  LET n == CHOOSE k \in 1..MaxUpdateCalls : k \notin Requested /\ \A j \in 1..k - 1 : j \in Requested
  IN /\ Requested # 1..MaxUpdateCalls
     /\ update' = [update EXCEPT ![n] = [call |-> "open", timer |-> "set"]]
     /\ updateTimeout' = n

ClearTimeout(U) ==
  IF updateTimeout # 0 /\ U[updateTimeout].timer = "set" THEN [U EXCEPT ![updateTimeout].timer = "cleared"] ELSE U

StatusUpdateFailed ==
  /\ info' = [info EXCEPT !.status = 0, !.failed = TRUE] /\ drawn' = info'

UpdateAnswered(n) ==
  /\ update[n].call = "open"
  /\ update' = ClearTimeout([update EXCEPT ![n].call = "done"])
  /\ command' = Get(command, "status")
  /\ UNCHANGED <<system_status, notices, updateTimeout, unregistering, info, drawn>>

UpdateFails(n) ==
  /\ update[n].call = "open"
  /\ update' = ClearTimeout([update EXCEPT ![n].call = "failed"])
  /\ StatusUpdateFailed
  /\ UNCHANGED <<system_status, notices, updateTimeout, unregistering, command>>

UpdateTimesOut(n) ==
  /\ update[n].timer = "set"
  /\ update' = [update EXCEPT ![n].timer = IF update[n].call = "open" THEN "fired" ELSE "late"]
  /\ StatusUpdateFailed
  /\ UNCHANGED <<system_status, notices, updateTimeout, unregistering, command>>

\* entitlement_status_changed
StatusNoticed ==
  /\ notices > 0 /\ notices' = notices - 1
  /\ update' = ClearTimeout(update)
  /\ command' = Get(command, "status")
  /\ UNCHANGED <<system_status, updateTimeout, unregistering, info, drawn>>

\* The handlers of 'subscription-manager status': processStatusOutput and always.
\* Unexpected output is not rendered.
StatusRead(result) ==
  LET C == command
      again(D) == IF C.status.requested THEN Get([D EXCEPT !.status = NotRunning], "status") ELSE [D EXCEPT !.status = NotRunning]
  IN /\ C.status.getting /\ C.status.read
     /\ IF result # "status"
        THEN /\ info' = [info EXCEPT !.status = 0, !.failed = TRUE]
             /\ drawn' = IF result = "denied" THEN info' ELSE drawn
             /\ command' = again(C)
        ELSE /\ info' = [info EXCEPT !.status = C.status.out, !.products = 0]
             /\ command' = again(Get(C, "details"))
             /\ UNCHANGED drawn
     /\ UNCHANGED <<system_status, notices, update, updateTimeout, unregistering>>

\* The handlers of 'subscription-manager list'
DetailsRead(fails) ==
  LET C == [command EXCEPT !.details = NotRunning]
  IN /\ command.details.getting /\ command.details.read
     /\ info' = IF fails THEN [info EXCEPT !.failed = TRUE] ELSE [info EXCEPT !.products = command.details.out]
     /\ command' = IF command.details.requested THEN Get(C, "details") ELSE C
     /\ drawn' = info'
     /\ UNCHANGED <<system_status, notices, update, updateTimeout, unregistering>>

\* unregisterSystem: the status is "unregistering", here 0.
Unregister ==
  /\ ~unregistering /\ unregistering' = TRUE
  /\ info' = [info EXCEPT !.status = 0] /\ drawn' = info'
  /\ UNCHANGED <<system_status, notices, update, updateTimeout, command>>

Unregistered ==
  /\ unregistering /\ unregistering' = FALSE
  /\ system_status < MaxStatus /\ system_status' = system_status + 1 /\ notices' = notices + 1
  /\ UNCHANGED <<update, updateTimeout, command, info, drawn>>

\* It fails or is cancelled.
UnregisterFails ==
  /\ unregistering /\ unregistering' = FALSE
  /\ RequestUpdate
  /\ UNCHANGED <<system_status, notices, command, info, drawn>>

\* The cancel of registerSystem; a registration that succeeds is a StatusChanges.
RegisterCancelled ==
  /\ RequestUpdate
  /\ UNCHANGED <<system_status, notices, unregistering, command, info, drawn>>

SubscriptionsNext ==
  \/ StatusChanges \/ StatusNoticed
  \/ \E c \in {"status", "details"} : CommandReads(c)
  \/ \E n \in 1..MaxUpdateCalls : UpdateAnswered(n) \/ UpdateFails(n) \/ UpdateTimesOut(n)
  \/ \E result \in {"status", "denied", "unexpected"} : StatusRead(result)
  \/ \E fails \in BOOLEAN : DetailsRead(fails)
  \/ Unregister \/ Unregistered \/ UnregisterFails \/ RegisterCancelled

SubscriptionsSpec == SubscriptionsInit /\ [][SubscriptionsNext]_subscriptionvars
-----------------------------------------------------------------------------
SubscriptionsTypeOK ==
  /\ info.status \in 0..MaxStatus /\ info.products \in 0..MaxStatus
  /\ updateTimeout \in 1..MaxUpdateCalls
  /\ \A c \in {"status", "details"} : command[c].requested => command[c].getting

\* Once signals, calls and commands have come to an end and none has failed,
\* the page shows the status of the system and the products that go with it,
\* although a command that runs when something changes may have read before
\* or after the change.
StatusShown ==
  /\ notices = 0 /\ ~unregistering /\ ~info.failed
  /\ \A n \in Requested : update[n].call = "done"
  /\ \A c \in {"status", "details"} : ~command[c].getting
  => drawn = [status |-> system_status, products |-> system_status, failed |-> FALSE]

\* The comment above updateTimeout: "if we don't get a timely reply, consider
\* subscription-manager failure".  No failure is reported for a call that has
\* its reply.
TimeoutMeansNoReply == \A n \in 1..MaxUpdateCalls : update[n].timer # "late"
=============================================================================
