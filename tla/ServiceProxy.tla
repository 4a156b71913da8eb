---------------------------- MODULE ServiceProxy ----------------------------
(***************************************************************************)
(* service.proxy() of pkg/lib/service.js: the state of one systemd unit,   *)
(* and the promises of start(), stop(), enable() and disable().  Requests  *)
(* reach systemd in order, and its replies, signals and notifications come *)
(* in the order in which it sent them.  restart() and tryRestart() differ  *)
(* from start() in the job they ask for.                                   *)
(***************************************************************************)
EXTENDS Naturals, Sequences, SequencesExt

CONSTANTS MaxProxyCalls,  \* bound: calls of the proxy's methods and changes by others
          Overlap         \* start() may be called again while its job waits

ASSUME ServiceProxyAssumption ==
  MaxProxyCalls \in Nat /\ Overlap \in BOOLEAN

VARIABLES sysd,          \* systemd: the unit, its job, the number of jobs so far
          sproxy,        \* the proxy: LoadUnit's outcome, properties, pending_jobs
          scall,         \* scall[n]: the kind and the promise of the n-th call
          toSystemd, fromSystemd,
          outside        \* changes by others so far

proxyvars == <<sysd, sproxy, scall, toSystemd, fromSystemd, outside>>

JobKinds == {"start", "stop"}
FileKinds == {"enable", "disable"}

AskSystemd(what, n) == [what |-> what, call |-> n]

\* A message from systemd.  arg is the path of a job, or the properties.
FromSystemd(what, n, arg) == [what |-> what, call |-> n, arg |-> arg]

Props(S) == [active |-> S.active, file |-> S.file]

ServiceProxyInit ==
  /\ sysd = [active |-> FALSE, file |-> FALSE, job |-> 0, kind |-> "none", jobs |-> 0,
             watched |-> FALSE, unreloaded |-> FALSE]
  /\ sproxy = [exists |-> "null", known |-> FALSE, data |-> Props(sysd), pending |-> <<>>]
  /\ scall = <<>> /\ fromSystemd = <<>> /\ outside = 0
  /\ toSystemd = <<AskSystemd("load", 0)>>
-----------------------------------------------------------------------------
(* The page *)

\* start, stop, enable, disable: nothing is checked, the call is sent.
CallProxy(kind) ==
  /\ Len(scall) + outside < MaxProxyCalls
  /\ Overlap \/ ~\E n \in DOMAIN scall : scall[n] = [kind |-> kind, status |-> "called"]
  /\ scall' = Append(scall, [kind |-> kind, status |-> "called"])
  /\ toSystemd' = Append(toSystemd, AskSystemd(kind, Len(scall) + 1))
  /\ UNCHANGED <<sysd, sproxy, fromSystemd, outside>>

\* Mutant: the page relies on the notifications of D-Bus.
RefreshProxyNever == <<>>

\* refresh(): nothing before LoadUnit has answered.
RefreshProxy == IF sproxy.exists = "yes" THEN <<AskSystemd("getall", 0)>> ELSE <<>>

SettleCall(n, status) == [scall EXCEPT ![n].status = status]

\* Mutant: only a job that is done settles its promise.
JobRemovedDone(m) ==
  IF m.what = "done" /\ m.arg \in DOMAIN sproxy.pending /\ sproxy.pending[m.arg] # 0
  THEN /\ scall' = SettleCall(sproxy.pending[m.arg], "resolved")
       /\ sproxy' = [sproxy EXCEPT !.pending[m.arg] = 0]
  ELSE UNCHANGED <<scall, sproxy>>

\* The handler of JobRemoved that settles the promise of the job.
JobRemoved(m) ==
  IF m.arg \in DOMAIN sproxy.pending /\ sproxy.pending[m.arg] # 0
  THEN /\ scall' = SettleCall(sproxy.pending[m.arg], IF m.what = "done" THEN "resolved" ELSE "rejected")
       /\ sproxy' = [sproxy EXCEPT !.pending[m.arg] = 0]
  ELSE UNCHANGED <<scall, sproxy>>

\* pending_jobs[path] = dfd, also when another call waits for that path.
RememberJob(n, path) ==
  [sproxy EXCEPT !.pending = [p \in DOMAIN @ \cup {path} |-> IF p = path THEN n ELSE @[p]]]

\* update_from_unit, after the bridge or refresh() has told new properties.
UpdateFromUnit(props) == [sproxy EXCEPT !.known = TRUE, !.data = props]

ProxyReceives ==
  /\ fromSystemd # <<>>
  /\ fromSystemd' = Tail(fromSystemd)
  /\ LET m == Head(fromSystemd) IN
     CASE m.what = "loaded" ->
            /\ sproxy' = [sproxy EXCEPT !.exists = "yes"]
            /\ toSystemd' = Append(toSystemd, AskSystemd("watch", 0))
            /\ UNCHANGED scall
       [] m.what = "notloaded" ->
            sproxy' = [sproxy EXCEPT !.exists = "no"] /\ UNCHANGED <<scall, toSystemd>>
       [] m.what = "props" -> sproxy' = UpdateFromUnit(m.arg) /\ UNCHANGED <<scall, toSystemd>>
       [] m.what = "active" ->
            sproxy' = UpdateFromUnit([sproxy.data EXCEPT !.active = m.arg]) /\ UNCHANGED <<scall, toSystemd>>
       [] m.what \in {"done", "failed", "canceled"} ->
            toSystemd' = toSystemd \o RefreshProxy /\ JobRemoved(m)
       [] m.what \in {"new", "reloaded"} ->
            toSystemd' = toSystemd \o RefreshProxy /\ UNCHANGED <<scall, sproxy>>
       [] m.what = "job" -> sproxy' = RememberJob(m.call, m.arg) /\ UNCHANGED <<scall, toSystemd>>
       [] m.what = "installed" ->
            toSystemd' = Append(toSystemd, AskSystemd("reload", m.call)) /\ UNCHANGED <<scall, sproxy>>
       [] m.what = "ok" -> scall' = SettleCall(m.call, "resolved") /\ UNCHANGED <<sproxy, toSystemd>>
       [] m.what = "noreply" ->
            /\ scall' = SettleCall(m.call, "resolved") /\ toSystemd' = toSystemd \o RefreshProxy
            /\ UNCHANGED sproxy
       [] m.what = "error" -> scall' = SettleCall(m.call, "rejected") /\ UNCHANGED <<sproxy, toSystemd>>
  /\ UNCHANGED <<sysd, outside>>
-----------------------------------------------------------------------------
(* systemd, as far as the proxy can tell *)

Says(S, messages) == sysd' = S /\ fromSystemd' = fromSystemd \o messages

\* A job for the unit replaces one of the other kind, and joins one of its own.
QueueJob(n, kind) ==
  IF sysd.job # 0 /\ sysd.kind = kind
  THEN Says(sysd, <<FromSystemd("job", n, sysd.job)>>)
  ELSE LET path == sysd.jobs + 1
           old == IF sysd.job = 0 THEN <<>> ELSE <<FromSystemd("canceled", 0, sysd.job)>>
       IN Says([sysd EXCEPT !.job = path, !.kind = kind, !.jobs = path],
               old \o <<FromSystemd("job", n, path), FromSystemd("new", 0, path)>>)

SystemdReplies(r) ==
  \/ /\ r.what = "load"
     /\ \E what \in {"loaded", "notloaded"} : Says(sysd, <<FromSystemd(what, 0, 0)>>)
  \/ /\ r.what = "watch"
     /\ Says([sysd EXCEPT !.watched = TRUE], <<FromSystemd("props", 0, Props(sysd))>>)
  \/ r.what = "getall" /\ Says(sysd, <<FromSystemd("props", 0, Props(sysd))>>)
  \/ r.what \in JobKinds /\ QueueJob(r.call, r.what)
  \/ /\ r.what \in FileKinds
     /\ Says([sysd EXCEPT !.file = r.what = "enable"], <<FromSystemd("installed", r.call, 0)>>)
  \/ r.what \in JobKinds \cup FileKinds /\ Says(sysd, <<FromSystemd("error", r.call, 0)>>)
  \/ /\ r.what = "reload"
     /\ \/ Says(sysd, <<FromSystemd("reloaded", 0, 0), FromSystemd("ok", r.call, 0)>>)
        \/ Says(sysd, <<FromSystemd("noreply", r.call, 0)>>)
        \/ Says([sysd EXCEPT !.unreloaded = TRUE], <<FromSystemd("error", r.call, 0)>>)

SystemdReceives ==
  /\ toSystemd # <<>>
  /\ toSystemd' = Tail(toSystemd)
  /\ SystemdReplies(Head(toSystemd))
  /\ UNCHANGED <<sproxy, scall, outside>>

\* PropertiesChanged is sent on by the bridge to those who watch the unit.
Notification(active) == IF sysd.watched THEN <<FromSystemd("active", 0, active)>> ELSE <<>>

JobEnds(ok) ==
  LET active == IF ok THEN sysd.kind = "start" ELSE sysd.active IN
  /\ sysd.job # 0
  /\ Says([sysd EXCEPT !.job = 0, !.kind = "none", !.active = active],
          <<FromSystemd(IF ok THEN "done" ELSE "failed", 0, sysd.job)>> \o Notification(active))
  /\ UNCHANGED <<sproxy, scall, toSystemd, outside>>

\* The service ends by itself, or systemctl enables or disables it.
OutsideChange ==
  /\ Len(scall) + outside < MaxProxyCalls /\ outside' = outside + 1
  /\ \/ sysd.active /\ Says([sysd EXCEPT !.active = FALSE], Notification(FALSE))
     \/ Says([sysd EXCEPT !.file = ~@], <<FromSystemd("reloaded", 0, 0)>>)
  /\ UNCHANGED <<sproxy, scall, toSystemd>>

ServiceProxyNext ==
  \/ \E kind \in JobKinds \cup FileKinds : CallProxy(kind)
  \/ ProxyReceives
  \/ SystemdReceives
  \/ \E ok \in BOOLEAN : JobEnds(ok)
  \/ OutsideChange

ServiceProxySpec == ServiceProxyInit /\ [][ServiceProxyNext]_proxyvars
-----------------------------------------------------------------------------
ServiceProxyTypeOK ==
  /\ sproxy.exists \in {"null", "yes", "no"}
  /\ sproxy.data \in [active : BOOLEAN, file : BOOLEAN]
  /\ DOMAIN sproxy.pending \subseteq 1..sysd.jobs
  /\ \A p \in DOMAIN sproxy.pending : sproxy.pending[p] \in 0..Len(scall)

\* Once everything is answered, the proxy has the state of the unit and of its
\* file, although jobs replace each other, systemd does not announce changes of
\* the file, and some versions never answer Reload.
ProxyCurrent ==
  toSystemd = <<>> /\ fromSystemd = <<>> /\ sproxy.exists = "yes" /\ ~sysd.unreloaded
    => sproxy.known /\ sproxy.data = Props(sysd)

\* A promise that is not settled has a request or a reply under way, or a job
\* whose end will settle it; also when another job replaced its own.
JobsSettle ==
  \A n \in DOMAIN scall : scall[n].status = "called" =>
    \/ \E i \in DOMAIN toSystemd : toSystemd[i].call = n
    \/ \E i \in DOMAIN fromSystemd :
         \/ fromSystemd[i].call = n
         \/ /\ fromSystemd[i].what \in {"done", "failed", "canceled"}
            /\ fromSystemd[i].arg \in DOMAIN sproxy.pending /\ sproxy.pending[fromSystemd[i].arg] = n
    \/ sysd.job \in DOMAIN sproxy.pending /\ sproxy.pending[sysd.job] = n
=============================================================================
