------------------------------- MODULE Libvirt -------------------------------
(***************************************************************************)
(* The virtual machines page, pkg/machines: libvirt.es6 lists the domains  *)
(* of one connection with virsh, reads each with two more commands, and    *)
(* follows `virsh event'; reducers.es6 keeps the result; uiState.es6 shows *)
(* a placeholder while a machine is created or installed.  Each command    *)
(* reads the state of libvirt at some point while it runs.  A domain keeps *)
(* its name and id, and is undefined only when it is shut off.             *)
(***************************************************************************)
EXTENDS Naturals, Sequences, SequencesExt, FiniteSets

CONSTANTS Vms,
          MaxDomainChanges,  \* bound: changes of domains, stops of libvirtd
          MaxCreates,        \* bound: calls of CREATE_VM and INSTALL_VM
          Hasty              \* domains change also while the page reads them

ASSUME LibvirtAssumption ==
  MaxDomainChanges \in Nat /\ MaxCreates \in Nat /\ Hasty \in BOOLEAN

VARIABLES libvirtd,     \* up, the domains, the number of changes so far
          vms,          \* the store: vms[v]
          monitor,      \* virsh event: "starting", "running", or waiting to be run again
          vmlines,      \* its output
          virsh,        \* the other commands that run, with what they have read
          vmscripts,    \* scripts that create or install a machine
          placeholder,  \* ui.vms[v], and the timeouts of uiState.es6
          creates

virtvars == <<libvirtd, vms, monitor, vmlines, virsh, vmscripts, placeholder, creates>>

NoDomain == [state |-> "none", persistent |-> FALSE]
NotListed == [listed |-> FALSE, state |-> "undefined", persistent |-> FALSE]
NoPlaceholder == [shown |-> FALSE, creating |-> FALSE, installing |-> FALSE]

\* A command for one domain or, "list", for all.  What it has read are domains;
\* it fails when the one it is for is not among them.
Virsh(cmd, v) == [cmd |-> cmd, of |-> v, read |-> FALSE, out |-> {}]

\* GET_ALL_VMS, from INIT_DATA_RETRIEVAL: the monitor and the list are started together.
LibvirtInit ==
  /\ libvirtd = [up |-> TRUE, domain |-> [v \in Vms |-> NoDomain], changes |-> 0]
  /\ vms = [v \in Vms |-> NotListed]
  /\ monitor = "starting" /\ vmlines = <<>> /\ virsh = <<Virsh("list", "none")>>
  /\ vmscripts = <<>> /\ creates = 0
  /\ placeholder = [v \in Vms |-> [ui |-> NoPlaceholder, timers |-> {}, stray |-> 0]]
-----------------------------------------------------------------------------
(* uiState.es6 *)

\* setVmCreateInProgress, setVmInstallInProgress: the timeout of an earlier call
\* is no longer known, and still runs.
InProgress(P, kind) ==
  [ui |-> [P.ui EXCEPT !.shown = TRUE, !.creating = @ \/ kind = "create", !.installing = @ \/ kind = "install"],
   timers |-> P.timers \cup {kind}, stray |-> P.stray + (IF kind \in P.timers THEN 1 ELSE 0)]

\* finishVmCreateInProgress, finishVmInstallInProgress.
FinishProgress(P, kind) ==
  IF ~P.ui.shown THEN P
  ELSE IF kind = "create" THEN [P EXCEPT !.ui.creating = FALSE] ELSE [P EXCEPT !.ui.installing = FALSE]

ClearVmUiState(P) == [P EXCEPT !.ui = NoPlaceholder, !.timers = {}]

\* Mutant: both timeouts are cleared.
RemoveCreateAll(P) == FinishProgress([P EXCEPT !.timers = {}], "create")

\* removeVmCreateInProgress.
RemoveCreate(P) ==
  IF "create" \in P.timers THEN FinishProgress([P EXCEPT !.timers = @ \ {"create"}], "create") ELSE P

\* resolveUiState: the machine is there, and takes the place of the placeholder.
ResolveUiState(P) ==
  CASE ~P.ui.shown -> P
    [] P.ui.shown /\ P.ui.installing -> RemoveCreate(P)
    [] OTHER -> ClearVmUiState(P)

\* CREATE_VM, which may install at once, and INSTALL_VM.
CreateVm(v, kinds) ==
  /\ creates < MaxCreates /\ creates' = creates + 1
  /\ LET P == IF "create" \in kinds THEN InProgress(placeholder[v], "create") ELSE placeholder[v]
     IN placeholder' = [placeholder EXCEPT ![v] = IF "install" \in kinds THEN InProgress(P, "install") ELSE P]
  /\ vmscripts' = Append(vmscripts, [of |-> v, kinds |-> kinds])
  /\ UNCHANGED <<libvirtd, vms, monitor, vmlines, virsh>>

ScriptEnds(i, ok) ==
  LET s == vmscripts[i]
      P == placeholder[s.of]
      Q == IF "create" \in s.kinds THEN FinishProgress(P, "create") ELSE P
  IN
  /\ placeholder' = [placeholder EXCEPT ![s.of] =
       IF ~ok /\ "create" \in s.kinds THEN ClearVmUiState(P)
       ELSE IF "install" \in s.kinds THEN FinishProgress(Q, "install") ELSE Q]
  /\ vmscripts' = RemoveAt(vmscripts, i)
  /\ UNCHANGED <<libvirtd, vms, monitor, vmlines, virsh, creates>>

\* A timeout of setupCleanupTimeout, also one that was overwritten.
CleanupTimeout(v) ==
  LET P == placeholder[v] IN
  /\ \/ P.timers # {} /\ placeholder' = [placeholder EXCEPT ![v] = ClearVmUiState(P)]
     \/ P.stray > 0 /\ placeholder' = [placeholder EXCEPT ![v] = [ClearVmUiState(P) EXCEPT !.stray = @ - 1]]
  /\ UNCHANGED <<libvirtd, vms, monitor, vmlines, virsh, vmscripts, creates>>
-----------------------------------------------------------------------------
(* The reducers *)

UpdateOrAddVm(M, v) == IF M[v].listed THEN M ELSE [M EXCEPT ![v].listed = TRUE]

UpdateVm(M, v, state) == IF M[v].listed THEN [M EXCEPT ![v].state = state] ELSE M

\* parseDominfo.
ParseDominfo(v, info) ==
  IF vms[v].listed THEN [vms EXCEPT ![v].state = info.state, ![v].persistent = info.persistent] ELSE vms

\* Mutant: a machine is removed when it stops, transient or not.
UndefineAny(M, v, transientOnly) == [M EXCEPT ![v] = NotListed]

\* UNDEFINE_VM.  persistent is not yet defined before dominfo has been read.
UndefineVm(M, v, transientOnly) ==
  IF transientOnly /\ M[v].persistent THEN M ELSE [M EXCEPT ![v] = NotListed]

DeleteUnlisted(names) == [v \in Vms |-> IF v \in names THEN vms[v] ELSE NotListed]
-----------------------------------------------------------------------------
(* virsh *)

DomainExists(v) == libvirtd.domain[v].state # "none"

\* A command reads.  The list is cut by awk, and is empty when virsh fails.
VirshReads(i) ==
  LET c == virsh[i]
      asked == IF c.cmd = "list" THEN Vms ELSE {c.of}
  IN
  /\ ~c.read
  /\ virsh' = [virsh EXCEPT ![i].read = TRUE,
                 ![i].out = {[of |-> v, is |-> libvirtd.domain[v]] : v \in {w \in asked : libvirtd.up /\ DomainExists(w)}}]
  /\ UNCHANGED <<libvirtd, vms, monitor, vmlines, vmscripts, placeholder, creates>>

\* doGetAllVms: forget the others, and read each one that is listed.
ListEnds(c, rest) ==
  LET names == {d.of : d \in c.out} IN
  /\ vms' = DeleteUnlisted(names)
  /\ virsh' = rest \o [k \in 1..Cardinality(names) |-> Virsh("dumpxml", SetToSeq(names)[k])]
  /\ UNCHANGED placeholder

\* parseDumpxml, and dominfo is next.
DumpxmlEnds(c, rest) ==
  /\ placeholder' = [placeholder EXCEPT ![c.of] = ResolveUiState(@)]
  /\ vms' = UpdateOrAddVm(vms, c.of)
  /\ virsh' = Append(rest, Virsh("dominfo", c.of))

\* GET_VM goes on with what the command gave, or gives up.
VirshEnds(i) ==
  LET c == virsh[i]
      rest == RemoveAt(virsh, i)
  IN
  /\ c.read
  /\ \/ c.cmd = "list" /\ ListEnds(c, rest)
     \/ c.cmd # "list" /\ c.out = {} /\ virsh' = rest /\ UNCHANGED <<vms, placeholder>>
     \/ c.cmd = "dumpxml" /\ c.out # {} /\ DumpxmlEnds(c, rest)
     \/ /\ c.cmd = "dominfo" /\ c.out # {}
        /\ vms' = ParseDominfo(c.of, (CHOOSE d \in c.out : TRUE).is)
        /\ virsh' = rest /\ UNCHANGED placeholder
  /\ UNCHANGED <<libvirtd, monitor, vmlines, vmscripts, creates>>

\* handleEvent.
HandleEvent ==
  LET v == Head(vmlines).of
      type == Head(vmlines).type
  IN
  /\ vmlines # <<>> /\ vmlines' = Tail(vmlines)
  /\ vms' = CASE type = "Undefined" -> UndefineVm(vms, v, FALSE)
              [] type = "Stopped" -> UndefineVm(UpdateVm(vms, v, "shut off"), v, TRUE)
              [] type = "Suspended" -> UpdateVm(vms, v, "paused")
              [] type = "Resumed" -> UpdateVm(vms, v, "running")
              [] OTHER -> vms
  /\ virsh' = IF type \in {"Defined", "Started"} THEN Append(virsh, Virsh("dumpxml", v)) ELSE virsh
  /\ UNCHANGED <<libvirtd, monitor, vmscripts, placeholder, creates>>

MonitorRuns ==
  /\ monitor = "starting" /\ libvirtd.up /\ monitor' = "running"
  /\ UNCHANGED <<libvirtd, vms, vmlines, virsh, vmscripts, placeholder, creates>>

\* virsh event has failed: its fail handler in startEventMonitor.
MonitorFails ==
  /\ monitor \in {"starting", "running"} /\ ~libvirtd.up /\ vmlines = <<>>
  /\ monitor' = "waiting" /\ vms' = DeleteUnlisted({})
  /\ UNCHANGED <<libvirtd, vmlines, virsh, vmscripts, placeholder, creates>>

\* delayPolling: GET_ALL_VMS again, after ten seconds, by when the commands have ended.
GetAllVms ==
  /\ monitor = "waiting" /\ (Hasty \/ virsh = <<>>) /\ monitor' = "starting"
  /\ virsh' = Append(virsh, Virsh("list", "none"))
  /\ UNCHANGED <<libvirtd, vms, vmlines, vmscripts, placeholder, creates>>
-----------------------------------------------------------------------------
(* libvirt *)

\* Nobody reads the domain, and the monitor sees what happens to it.
Undisturbed(v) ==
  /\ monitor = "running" /\ \A i \in DOMAIN vmlines : vmlines[i].of # v
  /\ \A i \in DOMAIN virsh : virsh[i].of \notin {v, "none"}

DomainChanges(v, type, to) ==
  /\ libvirtd.up /\ libvirtd.changes < MaxDomainChanges
  /\ Hasty \/ Undisturbed(v)
  /\ libvirtd' = [libvirtd EXCEPT !.domain[v] = to, !.changes = @ + 1]
  /\ vmlines' = IF monitor = "running" THEN Append(vmlines, [of |-> v, type |-> type]) ELSE vmlines
  /\ UNCHANGED <<vms, monitor, virsh, vmscripts, placeholder, creates>>

LibvirtChanges(v) ==
  LET d == libvirtd.domain[v] IN
  \/ d.state = "none" /\ DomainChanges(v, "Defined", [state |-> "shut off", persistent |-> TRUE])
  \/ d.state = "none" /\ DomainChanges(v, "Started", [state |-> "running", persistent |-> FALSE])
  \/ d.state = "shut off" /\ DomainChanges(v, "Started", [d EXCEPT !.state = "running"])
  \/ d.state = "shut off" /\ DomainChanges(v, "Undefined", NoDomain)
  \/ d.state = "running" /\ DomainChanges(v, "Suspended", [d EXCEPT !.state = "paused"])
  \/ d.state = "paused" /\ DomainChanges(v, "Resumed", [d EXCEPT !.state = "running"])
  \/ /\ d.state \in {"running", "paused"}
     /\ DomainChanges(v, "Stopped", IF d.persistent THEN [d EXCEPT !.state = "shut off"] ELSE NoDomain)

\* libvirtd stops, with the domains left as they are, or comes back.
LibvirtdStops ==
  /\ libvirtd.up /\ libvirtd.changes < MaxDomainChanges /\ (Hasty \/ virsh = <<>>)
  /\ libvirtd' = [libvirtd EXCEPT !.up = FALSE, !.changes = @ + 1]
  /\ UNCHANGED <<vms, monitor, vmlines, virsh, vmscripts, placeholder, creates>>

LibvirtdStarts ==
  /\ ~libvirtd.up /\ monitor = "waiting"
  /\ libvirtd' = [libvirtd EXCEPT !.up = TRUE]
  /\ UNCHANGED <<vms, monitor, vmlines, virsh, vmscripts, placeholder, creates>>

LibvirtNext ==
  \/ \E v \in Vms : \/ \E kinds \in {{"create"}, {"install"}, {"create", "install"}} : CreateVm(v, kinds)
                    \/ CleanupTimeout(v)
                    \/ LibvirtChanges(v)
  \/ \E i \in DOMAIN vmscripts, ok \in BOOLEAN : ScriptEnds(i, ok)
  \/ \E i \in DOMAIN virsh : VirshReads(i) \/ VirshEnds(i)
  \/ HandleEvent \/ MonitorRuns \/ MonitorFails \/ GetAllVms
  \/ LibvirtdStops \/ LibvirtdStarts

LibvirtSpec == LibvirtInit /\ [][LibvirtNext]_virtvars
-----------------------------------------------------------------------------
LibvirtTypeOK ==
  /\ \A v \in Vms : ~vms[v].listed => vms[v] = NotListed
  /\ \A i \in DOMAIN virsh : virsh[i].cmd \in {"list", "dumpxml", "dominfo"}
  /\ monitor \in {"starting", "running", "waiting"}

\* Once all commands have ended, the page lists the machines that libvirt has, in
\* their state: persistent ones stay when they stop and transient ones go, and
\* libvirtd goes and comes back.  (With Hasty it fails: a machine that stops between
\* dumpxml and dominfo is taken for a transient one and removed.)
MachinesShown ==
  libvirtd.up /\ monitor = "running" /\ vmlines = <<>> /\ virsh = <<>> =>
    \A v \in Vms : vms[v] = IF DomainExists(v) THEN [listed |-> TRUE, state |-> libvirtd.domain[v].state,
                                               persistent |-> libvirtd.domain[v].persistent]
                            ELSE NotListed

\* A placeholder goes away in the end, also when its script fails or the machine
\* never shows up: some timeout is set that removes it.
PlaceholderLeaves ==
  \A v \in Vms : placeholder[v].ui.shown => placeholder[v].timers # {} \/ placeholder[v].stray > 0
=============================================================================
