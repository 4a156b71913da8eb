------------------------------- MODULE Updates -------------------------------
(***************************************************************************)
(* The software update page (updates.jsx), the dialog that installs a      *)
(* missing package (cockpit-components-install-dialog.jsx) and the         *)
(* PackageKit transactions both of them run (packagekit.es6): one frame    *)
(* shows the page, or another page with the dialog.  Handlers of a promise *)
(* run before the next event, so an action is a whole chain of calls.      *)
(***************************************************************************)
EXTENDS Naturals, Sequences

CONSTANTS MaxTransactions,  \* bound: transactions made by the page and the dialog
          MaxCrashes        \* bound: times PackageKit goes away

ASSUME UpdatesAssumption == MaxTransactions \in Nat /\ MaxCrashes \in Nat

VARIABLES U,         \* page, dialog and their transactions, as a record
          foreign,   \* what GetTransactionList returns
          crashes

updatevars == <<U, foreign, crashes>>

PageStates == {"loading", "refreshing", "locked", "available", "uptodate", "loadError",
               "applying", "updateSuccess", "updateError", "restart"}

PageKinds == {"RefreshCache", "GetUpdates", "GetUpdateDetail"}
CheckKinds == {"dialog-refresh", "dialog-resolve", "dialog-simulate", "dialog-details"}

\* phase: the call that is outstanding, then "run" and "over"; "missed": it ended before
\* the bridge was told to watch it.  progress: there is a progress callback.  timer: the
\* first second is not over.
Transaction ==
  [kind : PageKinds \cup CheckKinds \cup {"install", "UpdatePackages", "found"},
   phase : {"create", "watch", "call", "run", "over", "missed"},
   progress : BOOLEAN, settled : BOOLEAN, timer : BOOLEAN]

Lists == {<<>>, <<"update">>, <<"other">>, <<"other", "update">>}

UpdatesInit ==
  /\ foreign \in Lists /\ crashes = 0
  /\ U \in [state : {"loading"}, boot : {"list", "dialog"}, tx : {<<>>},
             dialog : {"closed"}, message : {FALSE}, data : {"null"}, cancel : {0}]

Updating(kind) == kind \in {"UpdatePackages", "found"}

-----------------------------------------------------------------------------
(* packagekit.es6                                                          *)

\* transaction(), up to the call of CreateTransaction.
NewTransaction(S, kind) ==
  [S EXCEPT !.tx = Append(@, [kind |-> kind, phase |-> "create", settled |-> FALSE,
                              progress |-> kind # "GetUpdateDetail" /\ ~Updating(kind),
                              timer |-> ~Updating(kind)])]

\* The page's handlers of a transaction that ended: loadUpdates, loadUpdateDetails,
\* handleRefresh.  more: there are updates.
PageSettled(S, kind, ok, more) ==
  CASE kind = "GetUpdateDetail" -> [S EXCEPT !.state = "available"]
    [] kind # "GetUpdateDetail" /\ ~ok -> [S EXCEPT !.state = "loadError"]
    [] kind = "RefreshCache" /\ ok -> NewTransaction(S, "GetUpdates")
    [] kind = "GetUpdates" /\ ok /\ more -> NewTransaction(S, "GetUpdateDetail")
    [] kind = "GetUpdates" /\ ok /\ ~more -> [S EXCEPT !.state = "uptodate"]

\* check_missing_packages: the transaction after kind, if there is more to do.
NextCheck(kind) ==
  CASE kind = "dialog-refresh" -> "dialog-resolve"
    [] kind = "dialog-resolve" -> "dialog-simulate"
    [] kind = "dialog-simulate" -> "dialog-details"

\* The dialog's handlers.  more: the chain goes on.  A chain that ends in resolve
\* without more either has nothing to install or an unavailable package.
DialogSettled(S, kind, ok, more, available) ==
  LET N == [S EXCEPT !.message = FALSE, !.cancel = 0]
  IN CASE kind = "install" -> [S EXCEPT !.dialog = IF ok \/ @ = "closed" THEN "closed" ELSE "open"]
       [] kind \in CheckKinds /\ ok /\ more /\ kind # "dialog-details" ->
            NewTransaction(S, NextCheck(kind))
       [] kind \in CheckKinds /\ ok /\ ~(more /\ kind # "dialog-details") ->
            [N EXCEPT !.data = IF kind # "dialog-resolve" THEN "some"
                               ELSE IF available THEN "nothing" ELSE @]
       [] kind \in CheckKinds /\ ~ok -> N

SettledOften(S, i, ok, more, available) ==
  LET t == S.tx[i]
      N == [S EXCEPT !.tx[i].settled = TRUE]
  IN CASE Updating(t.kind) -> S
       [] ~Updating(t.kind) /\ t.settled -> N
       [] t.kind \in PageKinds /\ ~t.settled -> PageSettled(N, t.kind, ok, more)
       [] ~Updating(t.kind) /\ t.kind \notin PageKinds /\ ~t.settled ->
            DialogSettled(N, t.kind, ok, more, available)

\* The promise of cancellableTransaction for transaction i settles, unless it has.
Settled(S, i, ok, more, available) ==
  LET t == S.tx[i]
      N == [S EXCEPT !.tx[i].settled = TRUE, !.tx[i].progress = FALSE]
  IN CASE Updating(t.kind) -> S
       [] ~Updating(t.kind) /\ t.settled -> N
       [] t.kind \in PageKinds /\ ~t.settled -> PageSettled(N, t.kind, ok, more)
       [] ~Updating(t.kind) /\ t.kind \notin PageKinds /\ ~t.settled ->
            DialogSettled(N, t.kind, ok, more, available)

\* changed(): calls the progress callback of transaction i, if there is one.
Changed(S, i, waiting, allow) ==
  CASE ~S.tx[i].progress -> S
    [] S.tx[i].progress /\ S.tx[i].kind = "GetUpdates" ->
         [S EXCEPT !.state = IF waiting /\ ~S.tx[i].timer THEN "locked" ELSE "loading"]
    [] S.tx[i].progress /\ S.tx[i].kind = "RefreshCache" -> S
    [] S.tx[i].progress /\ S.tx[i].kind \in CheckKinds ->
         [S EXCEPT !.message = TRUE, !.cancel = IF allow THEN i ELSE 0]
    [] S.tx[i].progress /\ S.tx[i].kind = "install" ->
         [S EXCEPT !.cancel = IF allow THEN i ELSE 0]

\* The Finished handler of watchUpdates, with an exit code.
UpdateFinished(S, exit) ==
  CASE exit = "success" -> [S EXCEPT !.state = "updateSuccess"]
    [] exit = "cancelled" -> NewTransaction([S EXCEPT !.state = "loading"], "GetUpdates")
    [] exit = "failed" -> [S EXCEPT !.state = "updateError"]

\* A call made for transaction i fails: the promises of transaction() and
\* watchUpdates() are rejected.  The watch stays.
CallFailed(S, i) ==
  LET N == [S EXCEPT !.tx[i].phase = "over"]
  IN IF S.tx[i].kind = "UpdatePackages" THEN [N EXCEPT !.state = "updateError"]
     ELSE IF S.tx[i].kind = "found" THEN [N EXCEPT !.state = "updateError"]
     ELSE Settled(N, i, FALSE, FALSE, FALSE)

ClosedUnwatched(S, i) == CASE S.tx[i].phase \in {"create", "watch", "call"} -> CallFailed(S, i)
                           [] S.tx[i].phase \in {"run", "over", "missed"} -> [S EXCEPT !.tx[i].phase = "over"]

\* What the end of the D-Bus client does to transaction i: onClose for a watched
\* one, and the calls that are outstanding fail.
NameClosed(S, i) ==
  CASE S.tx[i].phase \in {"create", "watch", "call"} -> CallFailed(S, i)
    [] S.tx[i].phase \in {"run", "missed"} /\ Updating(S.tx[i].kind) ->
         UpdateFinished([S EXCEPT !.tx[i].phase = "over"], "failed")
    [] S.tx[i].phase \in {"run", "missed"} /\ ~Updating(S.tx[i].kind) ->
         Settled([S EXCEPT !.tx[i].phase = "over"], i, FALSE, FALSE, FALSE)
    [] S.tx[i].phase = "over" -> S

-----------------------------------------------------------------------------
RoomLeft == Len(U.tx) < MaxTransactions
Transactions == 1..Len(U.tx)
Phase(i) == U.tx[i].phase

\* The reply to the call that transaction i waits for.
Reply(i) ==
  /\ U' = CASE Phase(i) = "create" /\ Updating(U.tx[i].kind) ->
                 [U EXCEPT !.state = "applying", !.tx[i].phase = "watch"]
            [] Phase(i) = "create" /\ ~Updating(U.tx[i].kind) -> [U EXCEPT !.tx[i].phase = "watch"]
            [] Phase(i) = "watch" /\ U.tx[i].kind = "found" -> [U EXCEPT !.tx[i].phase = "run"]
            [] Phase(i) = "watch" /\ U.tx[i].kind # "found" -> [U EXCEPT !.tx[i].phase = "call"]
            [] Phase(i) = "call" -> [U EXCEPT !.tx[i].phase = "run"]
            [] Phase(i) \in {"run", "over", "missed"} -> U
  /\ UNCHANGED <<foreign, crashes>>

CallFails(i) ==
  /\ Phase(i) \in {"create", "watch", "call"}
  /\ U' = CallFailed(U, i)
  /\ UNCHANGED <<foreign, crashes>>

\* Properties of transaction i change.
TransactionNotify(i, waiting, allow) ==
  /\ Phase(i) = "run"
  /\ U' = Changed(U, i, waiting, allow)
  /\ UNCHANGED <<foreign, crashes>>

\* The timeout of one second, which comes even when the transaction is over.
WaitTimeout(i, waiting) ==
  /\ U.tx[i].timer
  /\ U' = Changed([U EXCEPT !.tx[i].timer = FALSE], i, waiting, FALSE)
  /\ UNCHANGED <<foreign, crashes>>

ErrorCode(i) ==
  /\ Phase(i) = "run" /\ ~U.tx[i].settled
  /\ U' = Settled(U, i, FALSE, FALSE, FALSE)
  /\ UNCHANGED <<foreign, crashes>>

TransactionFinished(i, exit, more, available) ==
  /\ Phase(i) = "run" /\ RoomLeft
  /\ U' = IF Updating(U.tx[i].kind) THEN UpdateFinished([U EXCEPT !.tx[i].phase = "over"], exit)
          ELSE Settled([U EXCEPT !.tx[i].phase = "over"], i, TRUE, more, available)
  /\ UNCHANGED <<foreign, crashes>>

\* An update that was running ends after its role was told and before the bridge has
\* the match for its signals: Finished goes to nobody, and watch and properties are
\* answered all the same.
FoundEnds(i) ==
  /\ U.tx[i].kind = "found" /\ Phase(i) = "watch"
  /\ U' = [U EXCEPT !.tx[i].phase = "missed"]
  /\ UNCHANGED <<foreign, crashes>>

\* PackageKit crashes or ends: the client closes, and the next call makes another.
Crash ==
  /\ crashes < MaxCrashes /\ crashes' = crashes + 1
  /\ LET after[i \in 0..Len(U.tx)] == IF i = 0 THEN U ELSE NameClosed(after[i - 1], i)
     IN U' = after[Len(U.tx)]
  /\ UNCHANGED foreign

\* componentDidMount: the roles of all transactions arrive.  cockpit.all passes the
\* results as arguments, and only the first is looked at.
MountRoles ==
  /\ U.boot = "list" /\ RoomLeft
  /\ U' = IF foreign # <<>> /\ Head(foreign) = "update"
          THEN [U EXCEPT !.state = "applying", !.boot = "done",
                         !.tx = Append(@, [kind |-> "found", phase |-> "watch", settled |-> FALSE,
                                           progress |-> FALSE, timer |-> FALSE])]
          ELSE [U EXCEPT !.boot = "time"]
  /\ UNCHANGED <<foreign, crashes>>

\* A transaction has ended before it was asked for its role, and the call fails.
MountRolesFail(gone) ==
  /\ U.boot = "list" /\ \E k \in 1..Len(foreign) : foreign[k] = gone
  /\ foreign' = SelectSeq(foreign, LAMBDA kind : kind # gone)
  /\ U' = [U EXCEPT !.boot = "time"]
  /\ UNCHANGED crashes

\* initialLoadOrRefresh
MountTime(old) ==
  /\ U.boot = "time" /\ RoomLeft
  /\ U' = IF old THEN NewTransaction([U EXCEPT !.boot = "done", !.state = "refreshing"], "RefreshCache")
          ELSE NewTransaction([U EXCEPT !.boot = "done"], "GetUpdates")
  /\ UNCHANGED <<foreign, crashes>>

MountFails ==
  /\ U.boot \in {"list", "time"}
  /\ U' = [U EXCEPT !.boot = "done", !.state = "loadError"]
  /\ UNCHANGED <<foreign, crashes>>

\* The buttons that the header bar and the page below it show.
CheckOffered == U.state \in {"available", "uptodate"}

Offered(button) ==
  button \in CASE U.state = "available" -> {"apply"}
               [] U.state = "updateSuccess" -> {"ignore", "restart"}
               [] OTHER -> {}

Refresh ==
  /\ CheckOffered /\ RoomLeft
  /\ U' = NewTransaction([U EXCEPT !.state = "refreshing"], "RefreshCache")
  /\ UNCHANGED <<foreign, crashes>>

ApplyUpdates ==
  /\ Offered("apply") /\ RoomLeft
  /\ U' = NewTransaction(U, "UpdatePackages")
  /\ UNCHANGED <<foreign, crashes>>

Ignore ==
  /\ Offered("ignore") /\ RoomLeft
  /\ U' = NewTransaction(U, "GetUpdates")
  /\ UNCHANGED <<foreign, crashes>>

Restart ==
  /\ Offered("restart")
  /\ U' = [U EXCEPT !.state = "restart"]
  /\ UNCHANGED <<foreign, crashes>>

RestartFails ==
  /\ U.state = "restart"
  /\ U' = [U EXCEPT !.state = "updateError"]
  /\ UNCHANGED <<foreign, crashes>>

\* install_dialog
OpenDialog ==
  /\ U.boot = "dialog" /\ U.dialog = "closed" /\ U.tx = <<>> /\ RoomLeft
  /\ U' = NewTransaction([U EXCEPT !.dialog = "open"], "dialog-refresh")
  /\ UNCHANGED <<foreign, crashes>>

Install ==
  /\ U.dialog = "open" /\ U.data # "null" /\ RoomLeft
  /\ U' = IF U.data = "nothing" THEN [U EXCEPT !.dialog = "closed"]
          ELSE NewTransaction([U EXCEPT !.dialog = "installing"], "install")
  /\ UNCHANGED <<foreign, crashes>>

\* The dialog is cancelled: what can be cancelled is, and ends with an ErrorCode.
CancelDialog ==
  /\ U.dialog = "open"
  /\ U' = [U EXCEPT !.dialog = "closed"]
  /\ UNCHANGED <<foreign, crashes>>

UpdatesNext ==
  \/ \E i \in Transactions : Reply(i) \/ CallFails(i) \/ ErrorCode(i) \/ FoundEnds(i)
  \/ \E i \in Transactions, waiting, allow \in BOOLEAN : TransactionNotify(i, waiting, allow)
  \/ \E i \in Transactions, waiting \in BOOLEAN : WaitTimeout(i, waiting)
  \/ \E i \in Transactions, exit \in {"success", "cancelled", "failed"},
        more, available \in BOOLEAN : TransactionFinished(i, exit, more, available)
  \/ Crash
  \/ MountRoles \/ (\E gone \in {"update", "other"} : MountRolesFail(gone))
  \/ (\E old \in BOOLEAN : MountTime(old)) \/ MountFails
  \/ Refresh \/ ApplyUpdates \/ Ignore \/ Restart \/ RestartFails
  \/ OpenDialog \/ Install \/ CancelDialog

UpdatesSpec == UpdatesInit /\ [][UpdatesNext]_updatevars

-----------------------------------------------------------------------------
UpdatesTypeOK ==
  /\ U.state \in PageStates /\ U.tx \in Seq(Transaction) /\ Len(U.tx) <= MaxTransactions
  /\ U.cancel \in 0..Len(U.tx) /\ U.dialog \in {"closed", "open", "installing"}

Live(kinds) ==
  \E i \in Transactions : U.tx[i].kind \in kinds /\ Phase(i) \notin {"over", "missed"}

\* Nothing spins for ever.  While the page shows that it loads, refreshes or
\* applies updates, or the dialog that it checks or installs, a transaction is
\* under way whose end changes that: whatever comes after the end of one
\* (notifications, the timeout of a second) and although PackageKit crashes.
\* One update escapes the page: it was found running and ended before it was watched.
\* "Applying updates" is then shown until PackageKit leaves the bus.
BusyHasTransaction ==
  /\ U.boot = "done" /\ U.state \in {"loading", "refreshing", "locked"} => Live(PageKinds)
  /\ U.state = "applying" => \/ Live({"UpdatePackages", "found"})
                              \/ \E i \in Transactions : Phase(i) = "missed"
  /\ U.message => Live(CheckKinds)
  /\ U.dialog = "installing" => Live({"install"})

\* "any transaction with UPDATE_PACKAGES role?": an update that runs when the page is
\* opened is shown.
RunningUpdateFound ==
  U.boot = "time" => \A i \in 1..Len(foreign) : foreign[i] # "update"
=============================================================================
