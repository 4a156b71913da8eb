----------------------------- MODULE DBusClient ------------------------------
(***************************************************************************)
(* cockpit.dbus(): DBusClient, DBusCache, DBusProxy and DBusProxies of     *)
(* cockpit.js, for one interface, on the objects of one service.  The      *)
(* properties of an object are represented by a version number, 0 when the *)
(* object does not exist.  The bridge's end of the channel notifies of the *)
(* objects a watch covers, and answers a call or a watch after the         *)
(* notifications that precede it.                                          *)
(***************************************************************************)
EXTENDS Naturals, Sequences, SequencesExt, FiniteSets

CONSTANTS Objects,       \* object paths
          Single,        \* the path of the one proxy made by itself
          MaxVersion,    \* bound: versions of an object's properties
          MaxChanges,    \* bound: changes of objects
          MaxCookie,     \* bound: calls and watches
          MaxLosses      \* bound: 1 if the bridge may close the channel

ASSUME DBusAssumption == /\ Single \in Objects /\ MaxVersion \in Nat /\ MaxChanges \in Nat
                         /\ MaxCookie \in Nat

VARIABLES channel,       \* "open" or "closed"
          last_cookie,   \* calls and watches so far
          calls,         \* the cookies without an answer
          told,          \* the cookies whose handlers have run
          refused,       \* those of them that were told of an error
          dlater,        \* functions passed to later_invoke
          cache,         \* cache.data: the version of each object
          proxy,         \* the proxy of Single
          group,         \* group[k]: the k-th result of proxies()
          skewed,        \* a handler ran with a cache that is too old or new
          world,         \* the service
          changes,       \* changes of objects so far
          watched,       \* the bridge's rules: "all" or a path
          known,         \* what the bridge last said of each object
          dsent, drecv   \* the channel's messages

dbusvars == <<channel, last_cookie, calls, told, refused, dlater, cache, proxy,
              group, skewed, world, changes, watched, known, dsent, drecv>>

Groups == {1, 2}

Nothing == [o \in Objects |-> 0]

DBusInit ==
  /\ channel = "open" /\ last_cookie = 0 /\ calls = {} /\ told = {} /\ refused = {}
  /\ dlater = <<>>
  /\ cache = Nothing
  /\ proxy = [made |-> FALSE, valid |-> FALSE, data |-> 0, wait |-> 0]
  /\ group = [k \in Groups |-> [made |-> FALSE, has |-> Nothing, wait |-> 0]]
  /\ skewed = FALSE
  /\ world = Nothing /\ changes = 0 /\ watched = {} /\ known = Nothing
  /\ dsent = <<>> /\ drecv = <<>>

bridge == <<world, changes, watched, known>>

-----------------------------------------------------------------------------
(* The client.                                                             *)

\* self.call and self.watch: a cookie, a message, an entry in calls; without
\* a channel the promise is rejected.
SendCall(msg) ==
  /\ last_cookie < MaxCookie
  /\ last_cookie' = last_cookie + 1
  /\ IF channel = "open"
     THEN /\ dsent' = Append(dsent, [msg |-> msg, id |-> last_cookie + 1])
          /\ calls' = calls \cup {last_cookie + 1}
          /\ dlater' = dlater
     ELSE /\ dlater' = Append(dlater, [do |-> "rejected", id |-> last_cookie + 1])
          /\ UNCHANGED <<dsent, calls>>

DBusCall ==
  /\ SendCall("call")
  /\ UNCHANGED <<channel, told, refused, cache, proxy, group, skewed, bridge, drecv>>

\* new DBusProxy: update() from the cache, then a watch for wait().
MakeProxy ==
  /\ ~proxy.made
  /\ SendCall(Single)
  /\ proxy' = [made |-> TRUE, valid |-> cache[Single] # 0, data |-> cache[Single],
               wait |-> last_cookie + 1]
  /\ UNCHANGED <<channel, told, refused, cache, group, skewed, bridge, drecv>>

\* cache.each compares the wrong variable and never calls back.
EachCached == Nothing

\* new DBusProxies: a watch for the namespace.
MakeProxies(k) ==
  /\ ~group[k].made /\ k > 1 => group[k - 1].made
  /\ SendCall("all")
  /\ group' = [group EXCEPT ![k] = [made |-> TRUE, has |-> EachCached,
                                    wait |-> last_cookie + 1]]
  /\ UNCHANGED <<channel, told, refused, cache, proxy, skewed, bridge, drecv>>

\* remove() of a watch that was not answered yet.
Cancel(id) ==
  /\ id \in calls /\ id \in {group[k].wait : k \in Groups} \cup {proxy.wait}
  /\ calls' = calls \ {id}
  /\ dlater' = Append(dlater, [do |-> "rejected", id |-> id])
  /\ dsent' = IF channel = "open"
              THEN Append(dsent, [msg |-> IF id = proxy.wait THEN "unwatch" ELSE "unwatch-all",
                                  id |-> 0])
              ELSE dsent
  /\ UNCHANGED <<channel, last_cookie, told, refused, cache, proxy, group, skewed, bridge, drecv>>

NotifyAtOnce(m) == FALSE

\* Signals and notifications take the way of the promises, through
\* later_invoke, to keep their order.
NotifyLater(m) == TRUE

\* on_message
DBusMessage ==
  /\ channel = "open" /\ drecv # <<>>
  /\ drecv' = Tail(drecv)
  /\ LET m == Head(drecv) IN
     \/ /\ m.do = "notify"
        /\ IF NotifyLater(m)
           THEN dlater' = Append(dlater, m) /\ UNCHANGED cache
           ELSE cache' = [o \in Objects |-> IF o \in DOMAIN m.data THEN m.data[o] ELSE cache[o]]
                /\ UNCHANGED dlater
        /\ UNCHANGED calls
     \/ /\ m.do = "reply"
        /\ dlater' = IF m.id \in calls THEN Append(dlater, m) ELSE dlater
        /\ calls' = calls \ {m.id}
        /\ UNCHANGED cache
  /\ UNCHANGED <<channel, last_cookie, told, refused, proxy, group, skewed, bridge, dsent>>

CloseForget ==
  /\ channel' = "closed" /\ calls' = {} /\ dlater' = dlater
  /\ dsent' = <<>> /\ drecv' = <<>>
  /\ UNCHANGED <<last_cookie, told, refused, cache, proxy, group, skewed, bridge>>

\* close_perform, after the channel is gone: everything outstanding fails.
Rejections == SetToSeq({[do |-> "rejected", id |-> id] : id \in calls})

ClosePerform ==
  /\ channel' = "closed" /\ calls' = {} /\ dlater' = dlater \o Rejections
  /\ dsent' = <<>> /\ drecv' = <<>>
  /\ UNCHANGED <<last_cookie, told, refused, cache, proxy, group, skewed, bridge>>

\* The page closes the client, or the channel closes.
DBusClose == channel = "open" /\ MaxLosses > 0 /\ ClosePerform

-----------------------------------------------------------------------------
(* Functions of the queue.                                                 *)

\* DBusProxy connects its callback before those that are there already.
ProxyFirst == TRUE

\* cache.update or cache.remove of one object, and emit.
Seen(data) == [o \in Objects |-> IF o \in DOMAIN data THEN data[o] ELSE cache[o]]

\* The version a group's own proxy of o has when the group's handlers run.
Shown(has, o, v) == IF has = 0 \/ ProxyFirst THEN v ELSE has

RunNotify(m) ==
  /\ cache' = Seen(m.data)
  /\ proxy' = IF proxy.made /\ Single \in DOMAIN m.data
              THEN [proxy EXCEPT !.valid = m.data[Single] # 0,
                                 !.data = IF m.data[Single] = 0 THEN @ ELSE m.data[Single]]
              ELSE proxy
  /\ group' = [k \in Groups |->
                 IF group[k].made
                 THEN [group[k] EXCEPT !.has = [o \in Objects |->
                         IF o \in DOMAIN m.data THEN m.data[o] ELSE @[o]]]
                 ELSE group[k]]
  /\ skewed' = (skewed \/ \E k \in Groups, o \in DOMAIN m.data :
                            group[k].made /\ m.data[o] # 0
                              /\ Shown(group[k].has[o], o, m.data[o]) # m.data[o])
  /\ UNCHANGED <<told, refused>>

\* A handler of a promise: it sees the cache the bridge had described.
RunReply(m) ==
  /\ told' = told \cup {m.id}
  /\ refused' = IF m.do = "rejected" THEN refused \cup {m.id} ELSE refused
  /\ skewed' = (skewed \/ (m.do = "reply" /\ cache # m.data))
  /\ UNCHANGED <<cache, proxy, group>>

DBusLater ==
  /\ dlater # <<>>
  /\ dlater' = Tail(dlater)
  /\ LET m == Head(dlater) IN
       IF m.do = "notify" THEN RunNotify(m) ELSE RunReply(m)
  /\ UNCHANGED <<channel, last_cookie, calls, bridge, dsent, drecv>>

-----------------------------------------------------------------------------
(* The bridge.                                                             *)

Covered(rules) == IF "all" \in rules THEN Objects ELSE rules \cap Objects

\* What a notification says: the covered objects that changed.
News(rules) == {o \in Covered(rules) : world[o] # known[o]}

Notice(rules) ==
  IF News(rules) = {} THEN <<>>
  ELSE <<[do |-> "notify", data |-> [o \in News(rules) |-> world[o]]]>>

Told(rules) == [o \in Objects |-> IF o \in News(rules) THEN world[o] ELSE known[o]]

BridgeNotify ==
  /\ channel = "open" /\ News(watched) # {}
  /\ drecv' = drecv \o Notice(watched)
  /\ known' = Told(watched)
  /\ UNCHANGED <<channel, last_cookie, calls, told, refused, dlater, cache, proxy, group, skewed,
                 world, changes, watched, dsent>>

\* A watch that is there already finds nothing new to say.
BridgeReceive ==
  /\ channel = "open" /\ dsent # <<>>
  /\ dsent' = Tail(dsent)
  /\ LET m == Head(dsent)
         rules == CASE m.msg = "unwatch" -> watched \ {Single}
                    [] m.msg = "unwatch-all" -> watched \ {"all"}
                    [] m.msg = "call" -> watched
                    [] OTHER -> watched \cup {m.msg}
     IN /\ watched' = rules
        /\ known' = Told(rules)
        /\ drecv' = drecv \o Notice(rules)
                      \o IF m.id = 0 THEN <<>>
                         ELSE <<[do |-> "reply", id |-> m.id, data |-> Told(rules)]>>
  /\ UNCHANGED <<channel, last_cookie, calls, told, refused, dlater, cache, proxy, group, skewed,
                 world, changes>>

\* An object appears, changes or goes.
WorldChanges(o) ==
  /\ channel = "open" /\ changes < MaxChanges
  /\ changes' = changes + 1
  /\ \E v \in 0..MaxVersion \ {world[o]} : world' = [world EXCEPT ![o] = v]
  /\ UNCHANGED <<channel, last_cookie, calls, told, refused, dlater, cache, proxy, group, skewed,
                 watched, known, dsent, drecv>>

DBusNext ==
  \/ DBusCall
  \/ MakeProxy
  \/ \E k \in Groups : MakeProxies(k)
  \/ \E id \in 1..MaxCookie : Cancel(id)
  \/ DBusMessage
  \/ DBusClose
  \/ DBusLater
  \/ BridgeNotify
  \/ BridgeReceive
  \/ \E o \in Objects : WorldChanges(o)

\* Events are handled, and the bridge answers.
DBusFairness ==
  WF_dbusvars(DBusLater) /\ WF_dbusvars(DBusMessage) /\ WF_dbusvars(BridgeReceive)

DBusSpec == DBusInit /\ [][DBusNext]_dbusvars /\ DBusFairness

-----------------------------------------------------------------------------
DBusTypeOK ==
  /\ channel \in {"open", "closed"} /\ calls \subseteq 1..MaxCookie
  /\ cache \in [Objects -> 0..MaxVersion]
  /\ channel = "closed" => calls = {}
  /\ told \cap calls = {}

\* When the handler of a reply runs, the cache holds exactly what the bridge
\* had announced before that reply, and when a handler of a group of proxies
\* runs, the proxy it is given has the new properties.
HandlersSeeCache == ~skewed

\* Every call and every watch is answered, at the latest when the channel
\* closes (close_perform).
CallsAnswered == \A id \in 1..MaxCookie : (last_cookie >= id) ~> (id \in told)

\* doc/guide/cockpit-dbus.xml: proxies.wait() tells when the initial set of
\* proxies has been populated.
InitialSet ==
  \A k \in Groups :
    group[k].made /\ group[k].wait \in told \ refused /\ channel = "open"
      => \A o \in Objects : cache[o] # 0 => group[k].has[o] # 0
=============================================================================
