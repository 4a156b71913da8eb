------------------------------ MODULE NetModel -------------------------------
(***************************************************************************)
(* NetworkManagerModel (interfaces.js): the copy of NetworkManager's       *)
(* objects that the networking page works with.  Signals, property changes *)
(* and replies arrive in order; GetSettings is called for each connection  *)
(* object; and the derived data (interfaces, masters and slaves) is built  *)
(* by exporters, 300 ms after export_model.                                *)
(***************************************************************************)
EXTENDS Naturals, Sequences, FiniteSets

CONSTANTS Paths,       \* connection objects; NetworkManager does not use a path twice
          Ifaces,      \* names of interfaces
          MaxNMChanges \* bound: changes made in NetworkManager

ASSUME NetModelAssumption == MaxNMChanges \in Nat

VARIABLES nm,        \* NetworkManager: connections, devices, calls it has to answer
          bus,       \* messages to the page, in order
          model,     \* NetworkManagerModel
          nmchanges

netvars == <<nm, bus, model, nmchanges>>

NoSettings == [iface |-> "none", master |-> "none"]
Settings == [iface : Ifaces, master : Ifaces \cup {"none"}]

\* The exporters.  Settings: a connection counts when it has its settings.
Known(connections, settings) == {c \in connections : settings[c] # NoSettings}

\* Connection: the masters of c are the connections of the interface it names.
Masters(c, known, settings) ==
  {d \in known : c \in known /\ settings[d].iface = settings[c].master}

\* Interface: there is one for each device and each connection.
Derived(connections, devices, settings) ==
  LET known == Known(connections, settings)
  IN [interfaces |-> devices \cup {settings[c].iface : c \in known},
      connections |-> [i \in Ifaces |-> {c \in known : settings[c].iface = i}],
      masters |-> [c \in Paths |-> Masters(c, known, settings)]]

NoneKnown == [c \in Paths |-> NoSettings]

NetModelInit ==
  /\ nm = [conns |-> NoneKnown, used |-> {}, devices |-> {}, calls |-> [c \in Paths |-> 0]]
  /\ bus = <<>> /\ nmchanges = 0
  /\ model = [objects |-> {}, settings |-> NoneKnown, connections |-> {}, devices |-> {},
              refreshes |-> 0, pending |-> FALSE, exported |-> Derived({}, {}, NoneKnown)]

-----------------------------------------------------------------------------
(* The generic part of the model.                                          *)

ExportModel(M) == [M EXCEPT !.pending = TRUE]

PopRefreshLate(M) ==
  IF M.refreshes = 0 THEN ExportModel(M) ELSE [M EXCEPT !.refreshes = @ - 1]

\* pop_refresh()
PopRefresh(M) ==
  IF M.refreshes = 1 THEN ExportModel([M EXCEPT !.refreshes = 0])
  ELSE [M EXCEPT !.refreshes = @ - 1]

\* push_refresh(), n times
PushRefresh(M, n) == [M EXCEPT !.refreshes = @ + n]

\* get_object() for each path: a new object refreshes its settings.
GetObjects(M, paths) ==
  PushRefresh([M EXCEPT !.objects = @ \cup paths], Cardinality(paths \ M.objects))

\* drop_object() and the drop function of the type.
DropObject(M, c) ==
  IF c \in M.objects
  THEN ExportModel([M EXCEPT !.objects = @ \ {c}, !.settings[c] = NoSettings])
  ELSE M

\* The calls of GetSettings go out for the paths.
Calling(paths) == [c \in Paths |-> nm.calls[c] + IF c \in paths THEN 1 ELSE 0]

\* signal_emitted() with PropertiesChanged of the Settings object.
ListChanged(list) ==
  /\ model' = PopRefresh(GetObjects(PushRefresh([model EXCEPT !.connections = list], 1), list))
  /\ nm' = [nm EXCEPT !.calls = Calling(list \ model.objects)]

\* and of the Manager object.
DevicesChanged(list) ==
  /\ model' = PopRefresh(PushRefresh([model EXCEPT !.devices = list], 1))
  /\ UNCHANGED nm

\* signal_emitted() with Updated: refresh_settings().
SettingsUpdated(c) ==
  IF c \in model.objects
  THEN model' = PushRefresh(model, 1) /\ nm' = [nm EXCEPT !.calls = Calling({c})]
  ELSE UNCHANGED <<model, nm>>

\* The reply to GetSettings; always(pop_refresh) comes before done().
SettingsReply(c, settings) ==
  /\ model' = LET M == PopRefresh(model)
              IN IF settings = NoSettings THEN M ELSE [M EXCEPT !.settings[c] = settings]
  /\ UNCHANGED nm

Receive ==
  /\ bus # <<>>
  /\ LET msg == Head(bus)
     IN CASE msg.kind = "list" -> ListChanged(msg.paths)
          [] msg.kind = "devices" -> DevicesChanged(msg.names)
          [] msg.kind = "updated" -> SettingsUpdated(msg.path)
          [] msg.kind = "reply" -> SettingsReply(msg.path, msg.settings)
          [] msg.kind = "gone" -> model' = DropObject(model, msg.path) /\ UNCHANGED nm
  /\ bus' = Tail(bus)
  /\ UNCHANGED nmchanges

\* The timeout of export_model: doit().  An interface that has lost its device and
\* its connections is dropped, and that exports once more.
Export ==
  /\ model.pending
  /\ LET new == Derived(model.connections, model.devices, model.settings)
     IN model' = [model EXCEPT !.exported = new,
                               !.pending = ~(model.exported.interfaces \subseteq new.interfaces)]
  /\ UNCHANGED <<nm, bus, nmchanges>>

-----------------------------------------------------------------------------
(* NetworkManager.                                                         *)

Present(conns) == {c \in Paths : conns[c] # NoSettings}

ListOf(conns) == [kind |-> "list", paths |-> Present(conns)]

Counted == nmchanges < MaxNMChanges /\ nmchanges' = nmchanges + 1

ConnectionChanges(c, settings) ==
  /\ Counted /\ settings # nm.conns[c] /\ (c \in nm.used => nm.conns[c] # NoSettings)
  /\ nm' = [nm EXCEPT !.conns[c] = settings, !.used = @ \cup {c}]
  /\ bus' = Append(bus, IF nm.conns[c] = NoSettings THEN ListOf(nm'.conns)
                        ELSE [kind |-> "updated", path |-> c])
  /\ UNCHANGED model

Delete(c, listfirst) ==
  /\ Counted /\ nm.conns[c] # NoSettings
  /\ nm' = [nm EXCEPT !.conns[c] = NoSettings]
  /\ LET gone == [kind |-> "gone", path |-> c]
     IN bus' = bus \o IF listfirst THEN <<ListOf(nm'.conns), gone>> ELSE <<gone, ListOf(nm'.conns)>>
  /\ UNCHANGED model

Devices(names) ==
  /\ Counted /\ names # nm.devices
  /\ nm' = [nm EXCEPT !.devices = names]
  /\ bus' = Append(bus, [kind |-> "devices", names |-> names])
  /\ UNCHANGED model

\* GetSettings is answered, with an error when the connection is gone.
Answer(c) ==
  /\ nm.calls[c] > 0
  /\ nm' = [nm EXCEPT !.calls[c] = @ - 1]
  /\ bus' = Append(bus, [kind |-> "reply", path |-> c, settings |-> nm.conns[c]])
  /\ UNCHANGED <<model, nmchanges>>

NetModelNext ==
  \/ Receive \/ Export
  \/ \E c \in Paths, settings \in Settings : ConnectionChanges(c, settings)
  \/ \E c \in Paths, listfirst \in BOOLEAN : Delete(c, listfirst)
  \/ \E names \in SUBSET Ifaces : Devices(names)
  \/ \E c \in Paths : Answer(c)

NetModelSpec == NetModelInit /\ [][NetModelNext]_netvars

-----------------------------------------------------------------------------
NetModelTypeOK ==
  /\ model.objects \subseteq nm.used /\ model.refreshes \in Nat
  /\ model.settings \in [Paths -> Settings \cup {NoSettings}]
  /\ model.exported.interfaces \subseteq Ifaces

\* Once nothing is on its way and no export is pending, the page shows the
\* interfaces, connections and masters that NetworkManager has, whatever order
\* changes, replies and exports came in.
NetCurrent ==
  bus = <<>> /\ ~model.pending /\ (\A c \in Paths : nm.calls[c] = 0) =>
    /\ model.refreshes = 0
    /\ model.exported = Derived(Present(nm.conns), nm.devices, nm.conns)

\* "you should always see it in a complete state": when the exporters run and
\* 'changed' is triggered, every connection has its settings.
ExportComplete ==
  [][Export => \A c \in model.connections \cap model.objects : model.settings[c] # NoSettings]_netvars
=============================================================================
