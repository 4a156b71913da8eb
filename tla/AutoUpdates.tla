----------------------------- MODULE AutoUpdates -----------------------------
(***************************************************************************)
(* Automatic updates (autoupdates.jsx): the backend that reads and writes  *)
(* the configuration of dnf-automatic, and the switch and the selectors    *)
(* that change it.  A script runs with set -e: one that fails leaves what  *)
(* its first commands did.                                                 *)
(***************************************************************************)
EXTENDS Naturals, Sequences

CONSTANTS Hours,      \* the times that the user picks, of {"0:00", "6:00", "22:00"}
          MaxScripts  \* bound: changes by the user

ASSUME AutoUpdatesAssumption ==
  Hours \subseteq {"0:00", "6:00", "22:00"} /\ MaxScripts \in Nat

VARIABLES system,    \* the configuration files and the timer
          backend,   \* the DnfImpl object
          request,   \* what setConfig is writing, or Idle
          scripts,
          failed     \* a script of this page failed

autovars == <<system, backend, request, scripts, failed>>

Keep == "null"
NoDropIn == <<>>
KeepDropIn == <<"null">>
Idle == [enabled |-> Keep, type |-> Keep, dropin |-> KeepDropIn, busy |-> FALSE]

\* replace(/^0+/, "")
WithoutZeros(time) == IF time = "0:00" THEN ":00" ELSE time

ValidTime(time) == time \in {"0:00", "6:00", "22:00"}

\* parseCalendar of "OnCalendar=day time": a day of the week or none, and then
\* exactly one word.
ParseCalendar(dropin) ==
  [supported |-> ValidTime(dropin[2]), day |-> dropin[1],
   time |-> IF ValidTime(dropin[2]) THEN WithoutZeros(dropin[2]) ELSE "null"]

\* Without a drop-in, or with an empty OnCalendar= in it, grep finds only the
\* OnUnitInactiveSec=1d of the timer.
Calendar(dropin) ==
  IF dropin \in {NoDropIn, <<"", "">>} THEN [supported |-> TRUE, day |-> "", time |-> ""]
  ELSE ParseCalendar(dropin)

GetConfig(sys) ==
  LET c == Calendar(sys.dropin)
  IN [supported |-> c.supported, enabled |-> sys.enabled, type |-> sys.type,
      day |-> c.day, time |-> c.time]

AutoUpdatesInit ==
  /\ system \in [enabled : BOOLEAN, type : {"all", "security"}, dropin : {NoDropIn}]
  /\ backend = GetConfig(system)
  /\ request = Idle /\ scripts = 0 /\ failed = FALSE

-----------------------------------------------------------------------------
\* The script of setConfig, with null for what is not to change.
SetConfig(enabled, type, day, asked) ==
  LET time == IF enabled = "yes" /\ ~backend.enabled /\ backend.time = "" /\ backend.day = ""
              THEN "6:00" ELSE asked
  IN [enabled |-> enabled, type |-> type, busy |-> TRUE,
      dropin |-> IF time = Keep /\ day = Keep THEN KeepDropIn
                 ELSE IF day = "" /\ time = "" THEN NoDropIn
                 ELSE <<IF day = Keep THEN backend.day ELSE day,
                        IF time = Keep THEN backend.time ELSE time>>]

\* handleChange, by the switch or one of the selectors; all are disabled while a
\* change is pending, and the selectors are there when updates are enabled.
Change(enabled, type, day, time) ==
  /\ backend.supported /\ ~request.busy /\ scripts < MaxScripts
  /\ enabled = Keep => backend.enabled
  /\ request' = SetConfig(enabled, type, day, time)
  /\ scripts' = scripts + 1
  /\ UNCHANGED <<system, backend, failed>>

\* The commands of the script in their order: the first n have been run.
Written(n) ==
  [type |-> IF n >= 1 /\ request.type # Keep THEN request.type ELSE system.type,
   dropin |-> IF n >= 2 /\ request.dropin # KeepDropIn THEN request.dropin ELSE system.dropin,
   enabled |-> IF n >= 3 /\ request.enabled # Keep THEN request.enabled = "yes" ELSE system.enabled]

ScriptDoneDay ==
  /\ request.busy
  /\ system' = Written(3)
  /\ backend' = [backend EXCEPT
                   !.enabled = IF request.enabled # Keep THEN request.enabled = "yes" ELSE @,
                   !.type = IF request.type # Keep THEN request.type ELSE @,
                   !.day = IF request.dropin # KeepDropIn THEN request.dropin[1] ELSE @]
  /\ request' = Idle
  /\ UNCHANGED <<scripts, failed>>

ScriptDone ==
  /\ request.busy
  /\ system' = Written(3)
  /\ backend' = [backend EXCEPT
                   !.enabled = IF request.enabled # Keep THEN request.enabled = "yes" ELSE @,
                   !.type = IF request.type # Keep THEN request.type ELSE @,
                   !.day = IF request.dropin # KeepDropIn THEN request.dropin[1] ELSE @,
                   !.time = IF request.dropin # KeepDropIn THEN request.dropin[2] ELSE @]
  /\ request' = Idle
  /\ UNCHANGED <<scripts, failed>>

ScriptFails(n) ==
  /\ request.busy
  /\ system' = Written(n)
  /\ request' = Idle /\ failed' = TRUE
  /\ UNCHANGED <<backend, scripts>>

\* The page is loaded again.
ReloadPage ==
  /\ ~request.busy
  /\ backend' = GetConfig(system) /\ failed' = FALSE
  /\ UNCHANGED <<system, request, scripts>>

AutoUpdatesNext ==
  \/ \E on \in {"yes", "no"} : Change(on, Keep, Keep, Keep)
  \/ \E type \in {"all", "security"} : Change(Keep, type, Keep, Keep)
  \/ \E day \in {"", "mon"} : Change(Keep, Keep, day, Keep)
  \/ \E time \in Hours : Change(Keep, Keep, Keep, time)
  \/ ScriptDone
  \/ \E n \in 0..2 : ScriptFails(n)
  \/ ReloadPage

AutoUpdatesSpec == AutoUpdatesInit /\ [][AutoUpdatesNext]_autovars

-----------------------------------------------------------------------------
Times == {"", ":00", "null", "0:00", "6:00", "22:00"}

AutoUpdatesTypeOK ==
  /\ backend \in [supported : BOOLEAN, enabled : BOOLEAN, type : {"all", "security"},
                  day : {"", "mon"}, time : Times]
  /\ system.dropin = NoDropIn \/ system.dropin \in {"", "mon"} \X Times

\* The selectors show what the system does, after any sequence of changes and
\* reloads in which no script failed: what a change leaves alone is written again
\* from the members of the backend, and is not lost.
ShownIsSet ==
  ~request.busy /\ ~failed /\ backend.supported =>
    /\ backend.enabled = system.enabled /\ backend.type = system.type
    /\ IF system.dropin = NoDropIn THEN backend.day = "" /\ backend.time = ""
       ELSE backend.day = system.dropin[1] /\ backend.time = system.dropin[2]

\* "we only support what we write": a drop-in that Cockpit wrote is one that it can
\* read again.
SupportsWritten == system.dropin # NoDropIn => Calendar(system.dropin).supported
=============================================================================
