------------------------------ MODULE Firewall ------------------------------
(***************************************************************************)
(* pkg/networkmanager/firewall-client.es6: which services the firewall     *)
(* lets through.  The page hears of firewalld's name, and of services that *)
(* are added and removed, and asks for the details of each service before  *)
(* it shows it.  Replies and signals come in the order in which firewalld  *)
(* sent them, but the functions after a reply run later.                   *)
(***************************************************************************)
EXTENDS Naturals, Sequences, SequencesExt, FiniteSets

CONSTANTS FwServices,     \* services that may be let through
          MaxFwChanges    \* bound: starts and stops of firewalld, changes of the zone

ASSUME FirewallAssumption == IsFiniteSet(FwServices) /\ MaxFwChanges \in Nat

VARIABLES firewalld,      \* the daemon: its name is owned, the services of the zone
          firewall,       \* the exported object, with the services whose details are known
          fetches,        \* calls of fetchServiceInfos, with the details that are missing
          fasks, ftells,  \* messages to and from firewalld
          changing,       \* the page's own addService and removeService, at most one
          raced,          \* services removed, or firewalld gone, while they were fetched
          fwchanges

fwvars == <<firewalld, firewall, fetches, fasks, ftells, changing, raced, fwchanges>>

\* what is "services" (getServices), "info", or a step of a change.
AskFirewalld(what, arg) == [what |-> what, arg |-> arg]

FirewallInit ==
  /\ firewalld = [up |-> FALSE, zone |-> {}, permanent |-> {}]
  /\ firewall = [enabled |-> FALSE, services |-> {}, enabledServices |-> {}]
  /\ fetches = <<>> /\ fasks = <<>> /\ ftells = <<>>
  /\ changing = [step |-> "none", service |-> "none", add |-> FALSE]
  /\ raced = {} /\ fwchanges = 0
-----------------------------------------------------------------------------
(* The client *)

\* fetchServiceInfos: those that are known are not asked for.
Fetch(services) ==
  LET missing == services \ firewall.services IN
  /\ fetches' = Append(fetches, [services |-> services, missing |-> missing])
  /\ fasks' = fasks \o [i \in 1..Cardinality(missing) |->
                          AskFirewalld("info", SetToSeq(missing)[i])]

Fetching == UNION {fetches[i].services : i \in DOMAIN fetches}

\* Mutant: the list is kept until the new one has come.
OwnerKeepsList(up) ==
  /\ firewall' = [firewall EXCEPT !.enabled = up, !.services = {}]
  /\ fasks' = IF up THEN Append(fasks, AskFirewalld("services", "none")) ELSE fasks
  /\ raced' = IF fetches = <<>> THEN {} ELSE raced \cup Fetching
  /\ UNCHANGED <<fetches, changing>>

\* The owner event: all is forgotten, and fetched anew.
Owner(up) ==
  /\ firewall' = [enabled |-> up, services |-> {}, enabledServices |-> {}]
  /\ fasks' = IF up THEN Append(fasks, AskFirewalld("services", "none")) ELSE fasks
  /\ raced' = IF fetches = <<>> THEN {} ELSE raced \cup Fetching
  /\ UNCHANGED <<fetches, changing>>

ServiceAdded(s) == Fetch({s}) /\ UNCHANGED <<firewall, changing, raced>>

ServiceRemoved(s) ==
  /\ firewall' = [firewall EXCEPT !.enabledServices = @ \ {s}]
  /\ raced' = IF s \in Fetching THEN raced \cup {s} ELSE raced
  /\ UNCHANGED <<fetches, fasks, changing>>

\* getServiceSettings was answered; fetches that wait for it have one less to wait for.
\* Each fetch asks by itself, so that the first answer is not for all of them.
GotInfo(s) ==
  LET i == CHOOSE k \in DOMAIN fetches :
             s \in fetches[k].missing /\ \A j \in 1..(k - 1) : s \notin fetches[j].missing
  IN
  /\ firewall' = [firewall EXCEPT !.services = @ \cup {s}]
  /\ fetches' = IF \E k \in DOMAIN fetches : s \in fetches[k].missing
                THEN [fetches EXCEPT ![i].missing = @ \ {s}] ELSE fetches
  /\ UNCHANGED <<fasks, changing, raced>>

\* A call failed, since firewalld has gone: what waits for it gives up.
FetchFailed(s) ==
  /\ fetches' = SelectSeq(fetches, LAMBDA f : s \notin f.missing)
  /\ UNCHANGED <<firewall, fasks, changing, raced>>

\* The steps of addService and removeService: at runtime, the name of the
\* default zone, its object, and there again.
NextStep == [runtime |-> "zone", zone |-> "path", path |-> "permanent", permanent |-> "none"]

ChangeAnswered ==
  /\ changing' = [changing EXCEPT !.step = NextStep[@]]
  /\ fasks' = IF changing.step = "permanent" THEN fasks
              ELSE Append(fasks, AskFirewalld(NextStep[changing.step], changing.service))
  /\ UNCHANGED <<firewall, fetches, raced>>

ChangeFailed ==
  /\ changing' = [changing EXCEPT !.step = "none"]
  /\ UNCHANGED <<firewall, fetches, fasks, raced>>

FirewallReceives ==
  /\ ftells # <<>> /\ ftells' = Tail(ftells)
  /\ LET m == Head(ftells) IN
     \/ m.what = "owner" /\ Owner(m.arg)
     \/ m.what = "added" /\ ServiceAdded(m.arg)
     \/ m.what = "removed" /\ ServiceRemoved(m.arg)
     \/ m.what = "services" /\ Fetch(m.arg) /\ UNCHANGED <<firewall, changing, raced>>
     \/ m.what = "info" /\ GotInfo(m.arg)
     \/ m.what = "noinfo" /\ FetchFailed(m.arg)
     \/ m.what = "noservices" /\ UNCHANGED <<firewall, fetches, fasks, changing, raced>>
     \/ m.what = "changed" /\ ChangeAnswered
     \/ m.what = "unchanged" /\ ChangeFailed
  /\ UNCHANGED <<firewalld, fwchanges>>

\* The functions after a fetch of which nothing is missing.
Fetched(i) ==
  /\ fetches[i].missing = {}
  /\ firewall' = [firewall EXCEPT !.enabledServices = @ \cup fetches[i].services]
  /\ fetches' = RemoveAt(fetches, i)
  /\ UNCHANGED <<firewalld, fasks, ftells, changing, raced, fwchanges>>

\* addService, removeService, by a button of the page.
ChangeService(s, add) ==
  /\ changing.step = "none" /\ fwchanges < MaxFwChanges
  /\ fwchanges' = fwchanges + 1
  /\ changing' = [step |-> "runtime", service |-> s, add |-> add]
  /\ fasks' = Append(fasks, AskFirewalld("runtime", s))
  /\ UNCHANGED <<firewalld, firewall, fetches, ftells, raced>>
-----------------------------------------------------------------------------
(* firewalld, and the bus *)

FirewallSignal(s, add) == AskFirewalld(IF add THEN "added" ELSE "removed", s)

With(set, s, add) == IF add THEN set \cup {s} ELSE set \ {s}

\* firewalld answers, or the bus does when it is not there.  A change that is
\* in place already is refused.
FirewalldReceives ==
  /\ fasks # <<>> /\ fasks' = Tail(fasks)
  /\ LET m == Head(fasks)
         s == changing.service
         add == changing.add
     IN
     \/ /\ ~firewalld.up /\ UNCHANGED firewalld
        /\ ftells' = Append(ftells, CASE m.what = "services" -> AskFirewalld("noservices", "none")
                                      [] m.what = "info" -> AskFirewalld("noinfo", m.arg)
                                      [] OTHER -> AskFirewalld("unchanged", m.arg))
     \/ /\ firewalld.up /\ m.what \in {"services", "info", "zone", "path"} /\ UNCHANGED firewalld
        /\ ftells' = Append(ftells, CASE m.what = "services" -> AskFirewalld("services", firewalld.zone)
                                      [] m.what = "info" -> AskFirewalld("info", m.arg)
                                      [] OTHER -> AskFirewalld("changed", m.arg))
     \/ /\ firewalld.up /\ m.what = "runtime" /\ (s \in firewalld.zone) # add
        /\ firewalld' = [firewalld EXCEPT !.zone = With(@, s, add)]
        /\ ftells' = ftells \o <<FirewallSignal(s, add), AskFirewalld("changed", s)>>
     \/ /\ firewalld.up /\ m.what = "permanent" /\ (s \in firewalld.permanent) # add
        /\ firewalld' = [firewalld EXCEPT !.permanent = With(@, s, add)]
        /\ ftells' = Append(ftells, AskFirewalld("changed", s))
     \/ /\ firewalld.up /\ UNCHANGED firewalld
        /\ \/ m.what = "runtime" /\ (s \in firewalld.zone) = add
           \/ m.what = "permanent" /\ (s \in firewalld.permanent) = add
        /\ ftells' = Append(ftells, AskFirewalld("unchanged", s))
  /\ UNCHANGED <<firewall, fetches, changing, raced, fwchanges>>

\* firewalld starts with the permanent configuration, or stops.
NameOwnerChanged ==
  /\ fwchanges < MaxFwChanges /\ fwchanges' = fwchanges + 1
  /\ firewalld' = [firewalld EXCEPT !.up = ~@, !.zone = firewalld.permanent]
  /\ ftells' = Append(ftells, AskFirewalld("owner", ~firewalld.up))
  /\ UNCHANGED <<firewall, fetches, fasks, changing, raced>>

\* Another program changes the zone.
ZoneChanges(s) ==
  /\ fwchanges < MaxFwChanges /\ fwchanges' = fwchanges + 1
  /\ firewalld.up
  /\ LET add == s \notin firewalld.zone IN
       /\ firewalld' = [firewalld EXCEPT !.zone = With(@, s, add)]
       /\ ftells' = Append(ftells, FirewallSignal(s, add))
  /\ UNCHANGED <<firewall, fetches, fasks, changing, raced>>

FirewallNext ==
  \/ FirewallReceives
  \/ \E i \in DOMAIN fetches : Fetched(i)
  \/ \E s \in FwServices : ZoneChanges(s) \/ \E add \in BOOLEAN : ChangeService(s, add)
  \/ FirewalldReceives
  \/ NameOwnerChanged

FirewallSpec == FirewallInit /\ [][FirewallNext]_fwvars
-----------------------------------------------------------------------------
FirewallTypeOK ==
  /\ firewall.services \subseteq FwServices /\ firewall.enabledServices \subseteq FwServices
  /\ \A i \in DOMAIN fetches : fetches[i].missing \subseteq fetches[i].services
  /\ changing.step \in DOMAIN NextStep \cup {"none"}

\* Once everything is answered, the page lists the services that the firewall
\* lets through: whatever order signals, the first list and details came in,
\* and although firewalld comes and goes.  A service that was removed while its
\* details were asked for is the exception (raced).
FirewallShown ==
  fasks = <<>> /\ ftells = <<>> /\ fetches = <<>> =>
    /\ firewall.enabled = firewalld.up
    /\ firewall.enabledServices \ raced = (IF firewalld.up THEN firewalld.zone ELSE {}) \ raced
=============================================================================
