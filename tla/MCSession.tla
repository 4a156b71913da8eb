----------------------------- MODULE MCSession -----------------------------
(***************************************************************************)
(* The parts of cockpit-ws: the logins of CockpitAuth, and the             *)
(* CockpitWebService of one session.  In a behaviour one of them, chosen   *)
(* at the start, takes the steps.  The web service has one socket that may *)
(* fail, or two that do not, and the browsers then send no payload.        *)
(***************************************************************************)
EXTENDS Auth, WebService

CONSTANTS k1, k2, c1

VARIABLE part

\* The second socket has no channel: it is there to be closed with the first, and to log out.
OwnerDef == (c1 :> k1)

Init == AuthInit /\ WebServiceInit /\ part \in {"auth", "one", "two"}

Next ==
  /\ UNCHANGED part
  /\ \/ part = "auth" /\ AuthNext /\ UNCHANGED webvars
     \/ part = "one" /\ WebServiceNext /\ UNCHANGED authvars /\ socket'[k2] = NewSocket
     \/ /\ part = "two" /\ WebServiceNext /\ UNCHANGED authvars
        /\ \A s \in Sockets : browser'[s].fault = "none"
        /\ ~\E s \in Sockets : Has(socket'[s].incoming, "data")

vars == <<part, authvars, webvars>>

Spec == Init /\ [][Next]_vars /\ AuthFairness /\ WebServiceFairness
=============================================================================
