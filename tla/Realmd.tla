------------------------------- MODULE Realmd -------------------------------
(***************************************************************************)
(* The dialog to join a domain, instance() in pkg/realmd/operation.js: it  *)
(* discovers the realm for an address as the user types it, and joins that *)
(* realm when asked to.  realmd may answer calls in any order.             *)
(***************************************************************************)
EXTENDS Naturals, FiniteSets

CONSTANTS Addresses,       \* what may be typed, but for the empty address
          MaxChecks,       \* bound: calls of Discover
          MaxPerforms      \* bound: clicks on the button to join

ASSUME RealmdAssumption == MaxChecks \in Nat \ {0} /\ MaxPerforms \in Nat

VARIABLES address,         \* the text in the field
          timeout,         \* the timeout to check the address is set
          checks,          \* for each check(): its name, and the state of its promise
          checking,        \* the number of the last check
          realm,           \* the address that realm and kerberos_membership are for
          operation,       \* the operation under way, 0 for null
          performs,        \* each perform(): the check it waits for, and its call
          cancelled,       \* operations that the user cancelled
          dialog           \* "open" or "closed"

realmvars == <<address, timeout, checks, checking, realm, operation, performs, cancelled, dialog>>

NoRealm == "null"

Started == {i \in 1..MaxChecks : checks[i].state # "none"}

RealmdInit ==
  /\ address = "" /\ timeout = FALSE
  /\ checks = [i \in 1..MaxChecks |-> [name |-> "", state |-> IF i = 1 THEN "discover" ELSE "none"]]
  /\ checking = 1
  /\ realm = NoRealm /\ operation = 0
  /\ performs = [p \in 1..MaxPerforms |-> [state |-> "none", check |-> 0, late |-> FALSE]]
  /\ cancelled = {} /\ dialog = "open"

\* check() of what is in the field, after the checks in c.
Check(c) ==
  /\ checking < MaxChecks
  /\ checking' = checking + 1
  /\ checks' = [c EXCEPT ![checking'] = [name |-> address, state |-> "discover"]]
-----------------------------------------------------------------------------
\* keyup, change; the field is disabled during an operation.
TypeAddress(text) ==
  /\ dialog = "open" /\ operation = 0 /\ text # address
  /\ address' = text
  /\ timeout' = (timeout \/ text # checks[checking].name)
  /\ UNCHANGED <<checks, checking, realm, operation, performs, cancelled, dialog>>

CheckTimeout ==
  /\ timeout /\ timeout' = FALSE
  /\ Check(checks)
  /\ UNCHANGED <<address, realm, operation, performs, cancelled, dialog>>

AnswerUnasked(i, found) ==
  /\ checks' = [checks EXCEPT ![i].state = IF found THEN "wait" ELSE "rejected"]
  /\ realm' = IF found THEN checks[i].name ELSE NoRealm
  /\ UNCHANGED checking

\* The answer of Discover: it is for what the field has, or another check is made.
DiscoverAnswer(i, found) ==
  IF checks[i].name # address
  THEN Check([checks EXCEPT ![i].state = "rejected"]) /\ UNCHANGED realm
  ELSE /\ checks' = [checks EXCEPT ![i].state = IF found THEN "wait" ELSE "rejected"]
       /\ realm' = IF found THEN checks[i].name ELSE NoRealm
       /\ UNCHANGED checking

Discovered(i, found) ==
  /\ checks[i].state = "discover"
  /\ DiscoverAnswer(i, found)
  /\ UNCHANGED <<address, timeout, operation, performs, cancelled, dialog>>

\* realm.wait
RealmReady(i) ==
  /\ checks[i].state = "wait"
  /\ checks' = [checks EXCEPT ![i].state = "resolved"]
  /\ UNCHANGED <<address, timeout, checking, realm, operation, performs, cancelled, dialog>>
-----------------------------------------------------------------------------
\* perform, ensure; the button is disabled during an operation.
Perform(p) ==
  /\ dialog = "open" /\ operation = 0
  /\ performs[p].state = "none" /\ \A q \in 1..p - 1 : performs[q].state # "none"
  /\ operation' = p
  /\ IF address = checks[checking].name THEN UNCHANGED <<checks, checking>> ELSE Check(checks)
  /\ performs' = [performs EXCEPT ![p] = [state |-> "ensure", check |-> checking', late |-> FALSE]]
  /\ UNCHANGED <<address, timeout, realm, cancelled, dialog>>

EnsureQuiet(p) ==
  /\ performs[p].state = "ensure" /\ checks[performs[p].check].state = "rejected"
  /\ performs' = [performs EXCEPT ![p].state = "done"]
  /\ UNCHANGED <<address, timeout, checks, checking, realm, operation, cancelled, dialog>>

\* The handlers of ensure(): busy(null), or the call of Join.
EnsureFailed(p) ==
  /\ performs[p].state = "ensure" /\ checks[performs[p].check].state = "rejected"
  /\ performs' = [performs EXCEPT ![p].state = "done"]
  /\ operation' = 0
  /\ UNCHANGED <<address, timeout, checks, checking, realm, cancelled, dialog>>

EnsureDone(p, supported) ==
  /\ performs[p].state = "ensure" /\ checks[performs[p].check].state = "resolved"
  /\ performs' = [performs EXCEPT ![p].state = IF supported THEN "call" ELSE "done",
                                  ![p].late = supported /\ p \in cancelled]
  /\ operation' = IF supported THEN operation ELSE 0
  /\ UNCHANGED <<address, timeout, checks, checking, realm, cancelled, dialog>>

\* The answer of Join, which realmd may have cancelled.
CallEnds(p, hides) ==
  /\ performs[p].state = "call"
  /\ performs' = [performs EXCEPT ![p].state = "done"]
  /\ operation' = 0
  /\ dialog' = IF hides THEN "closed" ELSE dialog
  /\ UNCHANGED <<address, timeout, checks, checking, realm, cancelled>>

\* The button to cancel: an operation at first, then the dialog.
Cancel ==
  /\ dialog = "open"
  /\ IF operation # 0
     THEN operation' = 0 /\ cancelled' = cancelled \cup {operation} /\ UNCHANGED dialog
     ELSE dialog' = "closed" /\ UNCHANGED <<operation, cancelled>>
  /\ UNCHANGED <<address, timeout, checks, checking, realm, performs>>

RealmdNext ==
  \/ \E text \in Addresses \cup {""} : TypeAddress(text)
  \/ CheckTimeout
  \/ \E i \in 1..MaxChecks, found \in BOOLEAN : Discovered(i, found)
  \/ \E i \in 1..MaxChecks : RealmReady(i)
  \/ \E p \in 1..MaxPerforms : Perform(p) \/ EnsureFailed(p)
  \/ \E p \in 1..MaxPerforms, b \in BOOLEAN : EnsureDone(p, b) \/ CallEnds(p, b)
  \/ Cancel

RealmdSpec == RealmdInit /\ [][RealmdNext]_realmvars
-----------------------------------------------------------------------------
RealmdTypeOK ==
  /\ address \in Addresses \cup {""} /\ realm \in Addresses \cup {"", NoRealm}
  /\ checking = Cardinality(Started) /\ operation \in 0..MaxPerforms
  /\ timeout \in BOOLEAN /\ dialog \in {"open", "closed"}

\* Once no check is under way or to come, what would be joined is the realm of
\* the address in the field, in whatever order realmd answered: an answer for
\* another address is never used.
RealmOfAddress ==
  ~timeout /\ (\A i \in Started : checks[i].state # "discover") => realm \in {NoRealm, address}

\* The dialog is busy only while an operation is under way that will end it.
BusyEnds == operation # 0 => performs[operation].state \in {"ensure", "call"}

\* The comment above the handler: "If in an operation first time cancel is
\* clicked, cancel operation".  So the domain is not joined afterwards.
CancelIsHeeded == \A p \in 1..MaxPerforms : ~performs[p].late
=============================================================================
