----------------------------- MODULE Checkpoint ------------------------------
(***************************************************************************)
(* with_checkpoint of the networking page (interfaces.js): a change of the *)
(* network is tested under a checkpoint of NetworkManager, which rolls     *)
(* back by itself when it is not destroyed in time.  A change that breaks  *)
(* the connection holds up every call until the rollback.  Operations of   *)
(* several dialogs may overlap; they share the curtain and the hint about  *)
(* the transport's health check.                                           *)
(***************************************************************************)
EXTENDS Naturals, FiniteSets

CONSTANTS Ops,      \* operations, each on a device of its own
          MaxTries  \* bound: times an operation is started

ASSUME CheckpointAssumption == MaxTries \in Nat

VARIABLES op,       \* the closure of with_checkpoint for each operation
          device,   \* NetworkManager: the change and the checkpoint of the device
          curtain,  \* the curtain is shown
          ignored   \* the health check of the transport is off

cpvars == <<op, device, curtain, ignored>>

Phases == {"idle", "create", "modify", "settle", "destroy", "discard", "rollback", "asking",
           "kept", "over"}

\* plain: modify() runs without a checkpoint.  title: curtain_title_timeout is set.
Closure == [phase : Phases, plain : BOOLEAN, timer : BOOLEAN, title : BOOLEAN, tries : 0..MaxTries]

\* breaks: the change cuts the connection.  sent: NetworkManager has made the change
\* and its reply is on the way.
Device == [changed : BOOLEAN, breaks : BOOLEAN, checkpoint : BOOLEAN,
           reply : {"none", "ok", "failed"}]

CheckpointInit ==
  /\ op = [o \in Ops |-> [phase |-> "idle", plain |-> FALSE, timer |-> FALSE, title |-> FALSE, tries |-> 0]]
  /\ device = [o \in Ops |-> [changed |-> FALSE, breaks |-> FALSE, checkpoint |-> FALSE, reply |-> "none"]]
  /\ curtain = FALSE /\ ignored = FALSE

\* Calls and replies get through.
Connected == \A o \in Ops : ~(device[o].changed /\ device[o].breaks)

-----------------------------------------------------------------------------
\* The user makes a change.  rollback: options.rollback_on_failure is up to the
\* caller; hack: the change adds or removes a connection.
StartChange(o, hack) ==
  /\ op[o].phase \in {"idle", "kept", "over"} /\ op[o].tries < MaxTries /\ Connected /\ ~curtain
  /\ op' = [op EXCEPT ![o].phase = IF hack THEN "modify" ELSE "create", ![o].plain = hack,
                      ![o].tries = @ + 1]
  /\ device' = [device EXCEPT ![o].changed = FALSE, ![o].breaks = FALSE]
  /\ UNCHANGED <<curtain, ignored>>

\* show_curtain()
ShowCurtain(c) == [c EXCEPT !.timer = TRUE, !.title = TRUE]

HideCurtainKeeps(c) == [c EXCEPT !.title = FALSE]

\* hide_curtain(), as far as it is about the closure.
HideCurtain(c) == [c EXCEPT !.timer = FALSE, !.title = FALSE]

\* The reply of CheckpointCreate; an error resolves to null and the change is made
\* without a checkpoint.
Created(o, ok) ==
  /\ op[o].phase = "create" /\ Connected
  /\ IF ok THEN /\ op' = [op EXCEPT ![o] = ShowCurtain([@ EXCEPT !.phase = "modify"])]
                /\ device' = [device EXCEPT ![o].checkpoint = TRUE]
                /\ ignored' = TRUE
     ELSE /\ op' = [op EXCEPT ![o].phase = "modify", ![o].plain = TRUE]
          /\ UNCHANGED <<device, ignored>>
  /\ UNCHANGED curtain

\* NetworkManager (external) carries out the change, or refuses to.
Modified(o, ok, breaks) ==
  /\ op[o].phase = "modify" /\ device[o].reply = "none"
  /\ device' = [device EXCEPT ![o] = [@ EXCEPT !.reply = IF ok THEN "ok" ELSE "failed",
                                               !.changed = ok, !.breaks = ok /\ breaks]]
  /\ UNCHANGED <<op, curtain, ignored>>

\* The reply of modify() arrives.
ModifyDone(o, rollback) ==
  /\ op[o].phase = "modify" /\ device[o].reply # "none" /\ Connected
  /\ IF op[o].plain
     THEN op' = [op EXCEPT ![o].phase = "over"] /\ UNCHANGED <<curtain, ignored>>
     ELSE IF device[o].reply = "ok"
     THEN op' = [op EXCEPT ![o].phase = "settle"] /\ UNCHANGED <<curtain, ignored>>
     ELSE /\ op' = [op EXCEPT ![o] = HideCurtain([@ EXCEPT !.phase =
                                       IF rollback THEN "rollback" ELSE "discard"])]
          /\ curtain' = FALSE /\ ignored' = FALSE
  /\ device' = [device EXCEPT ![o].reply = "none"]

\* settle_time is over: CheckpointDestroy is called.
SettleDone(o) ==
  /\ op[o].phase = "settle"
  /\ op' = [op EXCEPT ![o].phase = "destroy"]
  /\ UNCHANGED <<device, curtain, ignored>>

DestroyedQuietly(o) ==
  /\ op[o].phase = "destroy" /\ Connected
  /\ device' = [device EXCEPT ![o].checkpoint = FALSE]
  /\ op' = [op EXCEPT ![o] = HideCurtain([@ EXCEPT !.phase = "kept"])]
  /\ curtain' = FALSE /\ ignored' = FALSE

\* The reply of CheckpointDestroy, which fails when the checkpoint is gone.
Destroyed(o) ==
  /\ op[o].phase = "destroy" /\ Connected
  /\ device' = [device EXCEPT ![o].checkpoint = FALSE]
  /\ op' = [op EXCEPT ![o] = HideCurtain([@ EXCEPT !.phase =
                               IF device[o].checkpoint THEN "kept" ELSE "asking"])]
  /\ curtain' = FALSE /\ ignored' = FALSE

\* After a failed change the checkpoint is destroyed or rolled back.
Discarded(o) ==
  /\ op[o].phase \in {"discard", "rollback"} /\ Connected
  /\ op' = [op EXCEPT ![o].phase = "over"]
  /\ device' = [device EXCEPT ![o].checkpoint = FALSE]
  /\ UNCHANGED <<curtain, ignored>>

\* The checkpoint reaches its timeout: NetworkManager restores the device.
Rollback(o) ==
  /\ device[o].checkpoint
  /\ device' = [device EXCEPT ![o].checkpoint = FALSE, ![o].changed = FALSE, ![o].breaks = FALSE]
  /\ UNCHANGED <<op, curtain, ignored>>

CurtainTimeout(o) ==
  /\ op[o].timer
  /\ op' = [op EXCEPT ![o].timer = FALSE]
  /\ curtain' = TRUE
  /\ UNCHANGED <<device, ignored>>

\* The dialog that offers to do it anyway.
Anyway(o, yes) ==
  /\ op[o].phase = "asking" /\ Connected
  /\ op' = [op EXCEPT ![o] = [@ EXCEPT !.phase = IF yes THEN "modify" ELSE "over", !.plain = TRUE]]
  /\ UNCHANGED <<device, curtain, ignored>>

CheckpointNext ==
  \E o \in Ops :
    \/ \E hack \in BOOLEAN : StartChange(o, hack)
    \/ \E ok \in BOOLEAN : Created(o, ok)
    \/ \E ok, breaks \in BOOLEAN : Modified(o, ok, breaks)
    \/ \E rollback \in BOOLEAN : ModifyDone(o, rollback)
    \/ SettleDone(o) \/ Destroyed(o) \/ Discarded(o) \/ Rollback(o) \/ CurtainTimeout(o)
    \/ \E yes \in BOOLEAN : Anyway(o, yes)

\* NetworkManager answers and keeps its timeouts, and the browser its own.
CheckpointFairness ==
  \A o \in Ops :
    /\ WF_cpvars(Rollback(o)) /\ WF_cpvars(SettleDone(o)) /\ WF_cpvars(Destroyed(o))
    /\ WF_cpvars(\E ok, breaks \in BOOLEAN : Modified(o, ok, breaks))
    /\ WF_cpvars(\E rollback \in BOOLEAN : ModifyDone(o, rollback))

CheckpointSpec == CheckpointInit /\ [][CheckpointNext]_cpvars /\ CheckpointFairness

-----------------------------------------------------------------------------
CheckpointTypeOK ==
  /\ op \in [Ops -> Closure] /\ device \in [Ops -> Device]
  /\ curtain \in BOOLEAN /\ ignored \in BOOLEAN

\* A change that ends without a question to the user is in place: a rollback that
\* came first, because the connection broke or NetworkManager was slow, is noticed.
KeptIsInPlace == \A o \in Ops : op[o].phase = "kept" => device[o].changed

\* The connection is gone for good: a change without a checkpoint broke it.
Lost == \E o \in Ops : device[o].breaks /\ ~device[o].checkpoint

\* A curtain that is shown is taken down again, also when the change broke the
\* connection and the reply has to wait for the rollback, and although the
\* operations of two dialogs share it.
CurtainFalls == curtain ~> ~curtain \/ Lost

\* "we switch off the global transport health check while a checkpoint exists"
HealthCheckOff ==
  \A o \in Ops : op[o].phase \in {"settle", "destroy", "discard", "rollback"} /\ device[o].checkpoint => ignored
=============================================================================
