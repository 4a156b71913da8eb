------------------------------- MODULE MCPages -------------------------------
(***************************************************************************)
(* The models behind the pages of the packages, each by itself: they run   *)
(* in frames of their own and share no state.  In a behaviour one of them, *)
(* chosen at the start, takes the steps.                                   *)
(***************************************************************************)
EXTENDS Hosts, Kube, Select, Updates, AutoUpdates, Checkpoint, NetModel,
        JournalBox, Login, Docker, Services, Realmd, Subscriptions,
        ServiceProxy, Firewall, OSTree, Libvirt

VARIABLE part

\* The parts that are not chosen start in one state.
Init ==
  /\ part \in {"hosts", "kube", "select", "updates", "auto", "checkpoint", "net", "journal",
              "login", "docker", "services", "realmd", "subscriptions",
              "proxy", "firewall", "ostree", "libvirt"}
  /\ HostsInit /\ KubeInit /\ SelectInit /\ CheckpointInit /\ NetModelInit
  /\ LoginInit /\ DockerInit /\ RealmdInit /\ SubscriptionsInit
  /\ ServiceProxyInit /\ FirewallInit /\ LibvirtInit
  /\ OSTreeInit /\ (part # "ostree" => rpmostree = "none")
  /\ UpdatesInit /\ (part # "updates" => foreign = <<>> /\ U.boot = "list")
  /\ AutoUpdatesInit /\ (part # "auto" => system.enabled /\ system.type = "all")
  /\ JournalBoxInit /\ (part # "journal" => journal = <<>>)
  /\ ServicesInit /\ (part # "services" => \A u \in Units : systemd[u].file = "none")

group1 == <<hostvars, kubevars, selectvars, updatevars>>
group2 == <<autovars, cpvars, netvars, journalvars>>
group3 == <<loginvars, dockervars, servicevars, realmvars, subscriptionvars>>
group4 == <<proxyvars, fwvars, ostvars, virtvars>>

Next ==
  /\ UNCHANGED part
  /\ \/ /\ part = "hosts" /\ HostsNext
        /\ UNCHANGED <<kubevars, selectvars, updatevars, group2, group3, group4>>
     \/ /\ part = "kube" /\ KubeNext
        /\ UNCHANGED <<hostvars, selectvars, updatevars, group2, group3, group4>>
     \/ /\ part = "select" /\ SelectNext
        /\ UNCHANGED <<hostvars, kubevars, updatevars, group2, group3, group4>>
     \/ /\ part = "updates" /\ UpdatesNext
        /\ UNCHANGED <<hostvars, kubevars, selectvars, group2, group3, group4>>
     \/ /\ part = "auto" /\ AutoUpdatesNext
        /\ UNCHANGED <<cpvars, netvars, journalvars, group1, group3, group4>>
     \/ /\ part = "checkpoint" /\ CheckpointNext
        /\ UNCHANGED <<autovars, netvars, journalvars, group1, group3, group4>>
     \/ /\ part = "net" /\ NetModelNext
        /\ UNCHANGED <<autovars, cpvars, journalvars, group1, group3, group4>>
     \/ /\ part = "journal" /\ JournalBoxNext
        /\ UNCHANGED <<autovars, cpvars, netvars, group1, group3, group4>>
     \/ /\ part = "login" /\ LoginNext
        /\ UNCHANGED <<dockervars, servicevars, realmvars, subscriptionvars, group1, group2, group4>>
     \/ /\ part = "docker" /\ DockerNext
        /\ UNCHANGED <<loginvars, servicevars, realmvars, subscriptionvars, group1, group2, group4>>
     \/ /\ part = "services" /\ ServicesNext
        /\ UNCHANGED <<loginvars, dockervars, realmvars, subscriptionvars, group1, group2, group4>>
     \/ /\ part = "realmd" /\ RealmdNext
        /\ UNCHANGED <<loginvars, dockervars, servicevars, subscriptionvars, group1, group2, group4>>
     \/ /\ part = "subscriptions" /\ SubscriptionsNext
        /\ UNCHANGED <<loginvars, dockervars, servicevars, realmvars, group1, group2, group4>>
     \/ /\ part = "proxy" /\ ServiceProxyNext
        /\ UNCHANGED <<fwvars, ostvars, virtvars, group1, group2, group3>>
     \/ /\ part = "firewall" /\ FirewallNext
        /\ UNCHANGED <<proxyvars, ostvars, virtvars, group1, group2, group3>>
     \/ /\ part = "ostree" /\ OSTreeNext
        /\ UNCHANGED <<proxyvars, fwvars, virtvars, group1, group2, group3>>
     \/ /\ part = "libvirt" /\ LibvirtNext
        /\ UNCHANGED <<proxyvars, fwvars, ostvars, group1, group2, group3>>

vars == <<part, group1, group2, group3, group4>>

Spec == Init /\ [][Next]_vars /\ CheckpointFairness
-----------------------------------------------------------------------------
\* The models keep the shape that their methods expect.
PagesTypeOK ==
  /\ HostsTypeOK /\ KubeTypeOK /\ SelectTypeOK /\ UpdatesTypeOK
  /\ AutoUpdatesTypeOK /\ CheckpointTypeOK /\ NetModelTypeOK
  /\ JournalBoxTypeOK /\ LoginTypeOK /\ DockerTypeOK
  /\ ServicesTypeOK /\ RealmdTypeOK /\ SubscriptionsTypeOK
  /\ ServiceProxyTypeOK /\ FirewallTypeOK /\ OSTreeTypeOK /\ LibvirtTypeOK

\* A page that is busy has something under way that will end it: a
\* transaction of PackageKit or rpm-ostree, the operation of the realmd dialog,
\* a job of systemd, or a timeout that takes the placeholder of a machine away;
\* and the login page, when it waits for the user, has a form that can be sent.
BusyHasCause ==
  /\ BusyHasTransaction /\ BusyEnds /\ JobsSettle /\ RunningHasCause /\ PlaceholderLeaves
  /\ FormCanBeSent

\* Once a page has all the answers and notifications it waits for, it shows
\* the state of what it watches, in whatever order they came: the objects of
\* kubernetes, the connections of NetworkManager, the settings of automatic
\* updates, containers, services, the realm that would be joined, the
\* subscription status, a unit, the services of the firewall, the running
\* transaction of rpm-ostree, virtual machines, and the entries of the journal.
ShownWhenQuiet ==
  /\ ReaderCurrent /\ LiveShown /\ NetCurrent /\ ShownIsSet
  /\ ContainersFollow /\ TableCurrent /\ RealmOfAddress /\ StatusShown
  /\ ProxyCurrent /\ FirewallShown /\ RunningShown /\ MachinesShown
  /\ BoxRendered
=============================================================================
