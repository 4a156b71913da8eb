------------------------------- MODULE OSTree -------------------------------
(***************************************************************************)
(* RPMOSTreeDBusClient, pkg/ostree/client.js: the connection to            *)
(* rpm-ostree, the transactions that the page runs there, each over a bus  *)
(* of its own, and what the page shows as running.  Handlers of a promise  *)
(* run before the next event, so an action is a whole chain of calls.      *)
(* Deployments, packages and origins are data.                             *)
(***************************************************************************)
EXTENDS Naturals, Sequences

CONSTANTS OsTransactions,  \* transactions of the page, each run once
          Rebases,         \* those of them that check another branch for updates
          MaxCloses,       \* bound: losses of the connection
          MaxOthers        \* bound: starts and ends of transactions by others

ASSUME OSTreeAssumption ==
  /\ Rebases \subseteq OsTransactions /\ {"none", "other"} \cap OsTransactions = {}
  /\ MaxCloses \in Nat /\ MaxOthers \in Nat

VARIABLES ost,         \* the client and the scope of the page
          tx,          \* tx[t]: how far run_transaction has come
          rpmostree,   \* the daemon's ActiveTransaction
          ostnotices,  \* changes of it that the client has not handled yet
          closes, others

ostvars == <<ost, tx, rpmostree, ostnotices, closes, others>>

\* As the page starts, mainController and indexController connect.
OSTreeInit ==
  /\ ost = [client |-> "connecting",  \* "ready" once waits is resolved
            local_running |-> "none",
            active |-> "none",        \* sysroot.ActiveTransaction
            timer |-> FALSE, skipped |-> FALSE,
            listening |-> FALSE,      \* indexController has on_changed in place
            runningMethod |-> "none"] \* in its scope
  /\ tx = [t \in OsTransactions |-> "idle"]
  /\ rpmostree \in {"none", "other"} /\ ostnotices = <<>>
  /\ closes = 0 /\ others = 0
-----------------------------------------------------------------------------
RunningMethod(S) == IF S.local_running # "none" THEN S.local_running ELSE S.active

\* The "changed" event.
SysrootChanged(S) == IF S.listening THEN [S EXCEPT !.runningMethod = RunningMethod(S)] ELSE S

\* Mutant: what comes while the timer runs is left to the next event.
TriggerDropped(S) == IF S.timer THEN S ELSE [SysrootChanged(S) EXCEPT !.timer = TRUE]

TriggerChanged(S) ==
  IF S.timer THEN [S EXCEPT !.skipped = TRUE] ELSE [SysrootChanged(S) EXCEPT !.timer = TRUE]

TimerFires ==
  /\ ost.timer
  /\ ost' = [(IF ost.skipped THEN SysrootChanged([ost EXCEPT !.timer = FALSE]) ELSE ost)
               EXCEPT !.timer = FALSE, !.skipped = FALSE]
  /\ UNCHANGED <<tx, rpmostree, ostnotices, closes, others>>

\* get_client() starts anew when there is no client.
GetClient(S) ==
  IF S.client # "none" THEN S
  ELSE [S EXCEPT !.client = "connecting", !.local_running = "none", !.active = "none"]

\* The Reconnect button.
Reconnect ==
  /\ ost.client = "none"
  /\ ost' = GetClient(ost)
  /\ UNCHANGED <<tx, rpmostree, ostnotices, closes, others>>

\* Mutant: a transaction that fails stays in local_running.
CleanupKeeps(S) == TriggerChanged(S)

\* cleanup() of run_transaction.
Cleanup(S) == TriggerChanged([S EXCEPT !.local_running = "none"])

\* run_transaction up to the point where it has to wait for something.
RunTransaction(t) ==
  /\ tx[t] = "idle"
  /\ ost' = GetClient([ost EXCEPT !.local_running = t])
  /\ tx' = [tx EXCEPT ![t] = IF ost.client = "ready" THEN "reload" ELSE "waiting"]
  /\ UNCHANGED <<rpmostree, ostnotices, closes, others>>

\* The proxies are there: waits is resolved, and with it connect().
ClientConnected ==
  /\ ost.client = "connecting"
  /\ LET S == [ost EXCEPT !.client = "ready", !.active = rpmostree] IN
       ost' = IF S.listening THEN TriggerChanged(S)
              ELSE SysrootChanged([TriggerChanged(S) EXCEPT !.listening = TRUE])
  /\ tx' = [t \in OsTransactions |-> IF tx[t] = "waiting" THEN "reload" ELSE tx[t]]
  /\ UNCHANGED <<rpmostree, ostnotices, closes, others>>

\* Those that need the connection: the transactions that wait for it or for a
\* reply, and the download whose result is being fetched.
NeedClient == {t \in OsTransactions : tx[t] \in {"waiting", "reload", "call", "caching"}}

\* closing(), tear_down(), and the handlers of all that fails with the client.
ClientClosed ==
  /\ closes < MaxCloses /\ closes' = closes + 1
  /\ ost.client # "none"
  /\ LET S == [ost EXCEPT !.client = "none", !.active = "none"]
         T == IF ost.client = "connecting" THEN TriggerChanged(S) ELSE S
     IN ost' = CASE NeedClient = {} -> T
                 [] \E t \in NeedClient : NeedClient = {t} -> Cleanup(T)
                 [] OTHER -> TriggerChanged(Cleanup(T))  \* cleanup() of each of them
  /\ tx' = [t \in OsTransactions |-> IF t \in NeedClient THEN "failed" ELSE tx[t]]
  /\ ostnotices' = <<>>
  /\ UNCHANGED <<rpmostree, others>>

\* reload() resolves also when ReloadConfig fails.
Reloaded(t) ==
  /\ tx[t] = "reload" /\ tx' = [tx EXCEPT ![t] = "call"]
  /\ UNCHANGED <<ost, rpmostree, ostnotices, closes, others>>

\* fail() of run_transaction: the OS is not known, or the method failed.
Failed(t) ==
  /\ tx[t] \in {"reload", "call"}
  /\ ost' = Cleanup(ost) /\ tx' = [tx EXCEPT ![t] = "failed"]
  /\ UNCHANGED <<rpmostree, ostnotices, closes, others>>

Tell(value) ==
  /\ rpmostree' = value
  /\ ostnotices' = IF ost.client = "ready" THEN Append(ostnotices, value) ELSE ostnotices

\* The method was answered with the address of the transaction, which is started.
RunStarted(t) ==
  /\ tx[t] = "call" /\ rpmostree = "none"
  /\ tx' = [tx EXCEPT ![t] = "running"] /\ Tell(t)
  /\ UNCHANGED <<ost, closes, others>>

\* The Finished signal.  check_for_updates goes on to fetch what was downloaded.
RunFinished(t) ==
  /\ tx[t] = "running"
  /\ IF t \in Rebases /\ ost.client = "ready"
     THEN /\ tx' = [tx EXCEPT ![t] = "caching"]
          /\ ost' = [Cleanup(ost) EXCEPT !.local_running = t]
     ELSE tx' = [tx EXCEPT ![t] = "done"] /\ ost' = Cleanup(ost)
  /\ Tell("none")
  /\ UNCHANGED <<closes, others>>

\* Finished with an error, or the bus of the transaction is closed.
TransactionFailed(t) ==
  /\ tx[t] = "running"
  /\ tx' = [tx EXCEPT ![t] = "failed"] /\ ost' = Cleanup(ost)
  /\ Tell("none")
  /\ UNCHANGED <<closes, others>>

\* GetCachedRebaseRpmDiff was answered, in either way.
Cached(t) ==
  /\ tx[t] = "caching"
  /\ tx' = [tx EXCEPT ![t] = "done"]
  /\ ost' = TriggerChanged([ost EXCEPT !.local_running = "none"])
  /\ UNCHANGED <<rpmostree, ostnotices, closes, others>>

OnSysrootChanged ==
  /\ ostnotices # <<>> /\ ostnotices' = Tail(ostnotices)
  /\ ost' = TriggerChanged([ost EXCEPT !.active = Head(ostnotices)])
  /\ UNCHANGED <<tx, rpmostree, closes, others>>

OtherTransaction ==
  /\ others < MaxOthers /\ others' = others + 1
  /\ rpmostree \in {"none", "other"}
  /\ Tell(IF rpmostree = "none" THEN "other" ELSE "none")
  /\ UNCHANGED <<ost, tx, closes>>

OSTreeNext ==
  \/ TimerFires \/ Reconnect \/ ClientConnected \/ ClientClosed \/ OnSysrootChanged \/ OtherTransaction
  \/ \E t \in OsTransactions : \/ RunTransaction(t) \/ Reloaded(t) \/ Failed(t) \/ RunStarted(t)
                               \/ RunFinished(t) \/ TransactionFailed(t) \/ Cached(t)

OSTreeSpec == OSTreeInit /\ [][OSTreeNext]_ostvars
-----------------------------------------------------------------------------
OSTreeTypeOK ==
  /\ ost.client \in {"none", "connecting", "ready"}
  /\ {ost.local_running, ost.active, ost.runningMethod} \subseteq OsTransactions \cup {"none", "other"}
  /\ \A t \in OsTransactions :
       tx[t] \in {"idle", "waiting", "reload", "call", "running", "caching", "done", "failed"}
  /\ ost.skipped => ost.timer

\* What the client takes for running here is under way, wherever a transaction
\* fails and although the connection closes and transactions overlap.
RunningHasCause ==
  ost.local_running # "none" =>
    tx[ost.local_running] \in {"waiting", "reload", "call", "running", "caching"}

\* While connected, once the notifications are handled and none waits for the
\* timer, the page shows nothing as running that is not: its buttons work again.
RunningShown ==
  ost.client = "ready" /\ ostnotices = <<>> /\ ~ost.skipped /\ ost.runningMethod # "none"
    => RunningMethod(ost) # "none"
=============================================================================
