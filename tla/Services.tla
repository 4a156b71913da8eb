------------------------------ MODULE Services ------------------------------
(***************************************************************************)
(* The overview of services, init_units() in pkg/systemd/init.js: it       *)
(* combines ListUnits, ListUnitFiles, LoadUnit, GetAll and the signals of  *)
(* systemd into units_by_path, and renders that at most every 200 ms.      *)
(* systemd answers the calls in their order, and its signals and answers   *)
(* come in the order in which it sent them.                                *)
(* Aliases, templates and the properties of timers are left out.           *)
(***************************************************************************)
EXTENDS Naturals, Sequences, SequencesExt

CONSTANTS Units,
          MaxUnitChanges      \* bound: changes of units and of unit files

ASSUME ServicesAssumption == MaxUnitChanges \in Nat

VARIABLES systemd,            \* each unit: its file, whether it is active and loaded
          unitchanges,
          calls,              \* calls that systemd has not answered
          signals,            \* answers and signals on their way to the page
          units_by_path,      \* each unit: "none" or what the page knows of it
          path_by_id,         \* units of which the object path is known
          update_run,
          seen_ids,           \* units that the lists of the latest run have named
          render_timer,       \* render_holdoff_timer is set
          need_render,
          table               \* units_by_path as it was rendered

servicevars == <<systemd, unitchanges, calls, signals, units_by_path, path_by_id, update_run,
                 seen_ids, render_timer, need_render, table>>

Call(is, unit, run, file) == [is |-> is, unit |-> unit, run |-> run, file |-> file]

NoUnit == [is |-> "none", active |-> FALSE, file |-> "unset"]

\* ensure_units, the end of init_units
ServicesInit ==
  /\ systemd \in [Units -> {s \in [file : {"none", "enabled", "disabled"}, active : BOOLEAN, loaded : BOOLEAN] :
                              (s.active => s.loaded) /\ (s.file = "none" => ~s.loaded)}]
  /\ unitchanges = 0
  /\ calls = <<Call("ListUnits", "", 1, "")>> /\ signals = <<>>
  /\ units_by_path = [u \in Units |-> NoUnit] /\ path_by_id = {} /\ update_run = 1 /\ seen_ids = {}
  /\ render_timer = FALSE /\ need_render = FALSE /\ table = units_by_path

overview == <<units_by_path, path_by_id, update_run, seen_ids, render_timer, need_render, table>>
-----------------------------------------------------------------------------
(* systemd                                                                 *)

Signal(is, unit) == [is |-> is, unit |-> unit, run |-> 0, file |-> "", active |-> FALSE, units |-> {}, state |-> <<>>]

UnitNew(u) == IF systemd[u].loaded THEN <<>> ELSE <<Signal("UnitNew", u)>>

\* A job starts or stops a unit.
JobRuns(u) ==
  /\ unitchanges < MaxUnitChanges /\ unitchanges' = unitchanges + 1
  /\ systemd[u].loaded \/ systemd[u].file # "none"
  /\ systemd' = [systemd EXCEPT ![u].active = ~@, ![u].loaded = TRUE]
  /\ signals' = signals \o UnitNew(u)
                  \o <<Signal("Job", u), [Signal("PropertiesChanged", u) EXCEPT !.active = ~systemd[u].active]>>
  /\ UNCHANGED <<calls, overview>>

\* A unit file is created, enabled, disabled or removed.
UnitFileChanges(u, file) ==
  /\ unitchanges < MaxUnitChanges /\ unitchanges' = unitchanges + 1
  /\ file # systemd[u].file
  /\ systemd' = [systemd EXCEPT ![u].file = file]
  /\ signals' = Append(signals, Signal("UnitFilesChanged", ""))
  /\ UNCHANGED <<calls, overview>>

Unloaded(u) ==
  /\ systemd[u].loaded /\ ~systemd[u].active
  /\ systemd' = [systemd EXCEPT ![u].loaded = FALSE]
  /\ UNCHANGED <<unitchanges, calls, signals, overview>>

SystemdAnswers ==
  /\ calls # <<>> /\ calls' = Tail(calls)
  /\ LET c == Head(calls)
         u == c.unit
         reply == [is |-> c.is, unit |-> u, run |-> c.run, file |-> c.file,
                   active |-> IF c.is = "GetAll" THEN systemd[u].active ELSE FALSE,
                   units |-> CASE c.is = "ListUnits" -> {x \in Units : systemd[x].loaded}
                               [] c.is = "ListUnitFiles" -> {x \in Units : systemd[x].file # "none"}
                               [] OTHER -> {},
                   state |-> systemd]
         loads == c.is \in {"LoadUnit", "GetAll"}
     IN /\ signals' = (signals \o (IF loads THEN UnitNew(u) ELSE <<>>)) \o <<reply>>
        /\ systemd' = IF loads THEN [systemd EXCEPT ![u].loaded = TRUE] ELSE systemd
  /\ UNCHANGED <<unitchanges, overview>>
-----------------------------------------------------------------------------
(* The page                                                                *)

RenderDropped(units) ==
  IF render_timer THEN UNCHANGED <<render_timer, need_render, table>>
  ELSE table' = units /\ render_timer' = TRUE /\ UNCHANGED need_render

Render(units) ==
  IF render_timer THEN need_render' = TRUE /\ UNCHANGED <<render_timer, table>>
  ELSE table' = units /\ render_timer' = TRUE /\ UNCHANGED need_render

RenderHoldoffOver ==
  /\ render_timer /\ render_timer' = FALSE /\ need_render' = FALSE
  /\ table' = IF need_render THEN units_by_path ELSE table
  /\ UNCHANGED <<systemd, unitchanges, calls, signals, units_by_path, path_by_id, update_run, seen_ids>>

NoRender == UNCHANGED <<render_timer, need_render, table>>

Received(is) == signals # <<>> /\ Head(signals).is = is /\ signals' = Tail(signals)

RecordUnitState(s) ==
  [u \in Units |-> IF u \in s.units THEN [units_by_path[u] EXCEPT !.is = "unit", !.active = s.state[u].active]
                   ELSE units_by_path[u]]

UnitsListed ==
  /\ Received("ListUnits")
  /\ LET s == Head(signals)
     IN IF s.run # update_run THEN UNCHANGED <<calls, units_by_path, path_by_id, seen_ids>>
        ELSE /\ units_by_path' = RecordUnitState(s) /\ seen_ids' = seen_ids \cup s.units
             /\ path_by_id' = path_by_id \cup s.units
             /\ calls' = Append(calls, Call("ListUnitFiles", "", s.run, ""))
  /\ NoRender /\ UNCHANGED <<systemd, unitchanges, update_run>>

\* record_unit_file_state for units that units_by_path lacks.
Needs(units) ==
  SetToSeq({Call(IF u \in path_by_id THEN "GetAll" ELSE "LoadUnit", u, 0, Head(signals).state[u].file) : u \in units})

\* The end of the update, which is to delete the units that seen_ids lacks:
\* "i < keys" compares a number with an array, so no round of the loop is run.
WithoutUnseen(units, seen) == units

UnitFilesListed ==
  /\ Received("ListUnitFiles")
  /\ LET s == Head(signals)
         known == {u \in s.units : u \in path_by_id /\ units_by_path[u] # NoUnit}
     IN IF s.run # update_run THEN NoRender /\ UNCHANGED <<calls, units_by_path, seen_ids>>
        ELSE /\ seen_ids' = seen_ids \cup s.units
             /\ units_by_path' = WithoutUnseen([u \in Units |->
                  IF u \in known THEN [units_by_path[u] EXCEPT !.file = s.state[u].file] ELSE units_by_path[u]], seen_ids')
             /\ calls' = calls \o Needs(s.units \ known)
             /\ Render(units_by_path')
  /\ UNCHANGED <<systemd, unitchanges, path_by_id, update_run>>

\* with_path, for a unit that had to be loaded
UnitLoaded ==
  /\ Received("LoadUnit")
  /\ LET s == Head(signals)
     IN IF units_by_path[s.unit] # NoUnit
        THEN units_by_path' = [units_by_path EXCEPT ![s.unit].file = s.file] /\ UNCHANGED calls
        ELSE calls' = Append(calls, Call("GetAll", s.unit, 0, s.file)) /\ UNCHANGED units_by_path
  /\ NoRender /\ UNCHANGED <<systemd, unitchanges, path_by_id, update_run, seen_ids>>

\* refresh_properties, with the tweak_callback of with_path if there is one
PropertiesRefreshed ==
  /\ Received("GetAll")
  /\ LET s == Head(signals)
     IN /\ units_by_path' = [units_by_path EXCEPT ![s.unit] =
             [is |-> "unit", active |-> s.active, file |-> IF s.file = "" THEN @.file ELSE s.file]]
        /\ path_by_id' = path_by_id \cup {s.unit}
  /\ Render(units_by_path')
  /\ UNCHANGED <<systemd, unitchanges, calls, update_run, seen_ids>>

OnUnitNew ==
  /\ Received("UnitNew")
  /\ path_by_id' = path_by_id \cup {Head(signals).unit}
  /\ NoRender /\ UNCHANGED <<systemd, unitchanges, calls, units_by_path, update_run, seen_ids>>

OnJob ==
  /\ Received("Job")
  /\ LET u == Head(signals).unit
     IN calls' = IF u \in path_by_id THEN Append(calls, Call("GetAll", u, 0, "")) ELSE calls
  /\ NoRender /\ UNCHANGED <<systemd, unitchanges, units_by_path, path_by_id, update_run, seen_ids>>

OnPropertiesChanged ==
  /\ Received("PropertiesChanged")
  /\ LET s == Head(signals)
     IN IF units_by_path[s.unit] = NoUnit THEN NoRender /\ UNCHANGED units_by_path
        ELSE /\ units_by_path' = [units_by_path EXCEPT ![s.unit].active = s.active]
             /\ Render(units_by_path')
  /\ UNCHANGED <<systemd, unitchanges, calls, path_by_id, update_run, seen_ids>>

\* update_all
OnUnitFilesChanged ==
  /\ Received("UnitFilesChanged")
  /\ update_run' = update_run + 1 /\ seen_ids' = {}
  /\ calls' = Append(calls, Call("ListUnits", "", update_run', ""))
  /\ NoRender /\ UNCHANGED <<systemd, unitchanges, units_by_path, path_by_id>>

ServicesNext ==
  \/ \E u \in Units : JobRuns(u) \/ Unloaded(u)
  \/ \E u \in Units, file \in {"none", "enabled", "disabled"} : UnitFileChanges(u, file)
  \/ SystemdAnswers \/ RenderHoldoffOver
  \/ UnitsListed \/ UnitFilesListed \/ UnitLoaded \/ PropertiesRefreshed
  \/ OnUnitNew \/ OnJob \/ OnPropertiesChanged \/ OnUnitFilesChanged

ServicesSpec == ServicesInit /\ [][ServicesNext]_servicevars
-----------------------------------------------------------------------------
ServicesTypeOK ==
  /\ path_by_id \subseteq Units /\ update_run \in Nat
  /\ render_timer \in BOOLEAN /\ need_render \in BOOLEAN
  /\ \A u \in Units : /\ units_by_path[u].file \in {"unset", "none", "enabled", "disabled"}
                      /\ units_by_path[u].is = "none" => units_by_path[u] = NoUnit

ServicesQuiet == calls = <<>> /\ signals = <<>> /\ ~render_timer

\* Once systemd has answered and the page has rendered, the overview has every
\* unit with a unit file, in its state and with the state of its file: the
\* answers of an update that was overtaken by another do not bring back what
\* they had read, and the holdoff of the rendering loses no change.
TableCurrent ==
  ServicesQuiet =>
    \A u \in Units : systemd[u].file # "none" =>
      table[u] = [is |-> "unit", active |-> systemd[u].active, file |-> systemd[u].file]

\* The comment above ensure_units: "The overview page shows the current state
\* of all units and unit files."  So once an update is complete and nothing is
\* under way, the table has no unit that neither list of the update named and
\* that is neither loaded nor has a file.
TableOnlyUnits ==
  ServicesQuiet => \A u \in Units :
    table[u].is = "unit" => u \in seen_ids \/ systemd[u].loaded \/ systemd[u].file # "none"
=============================================================================
