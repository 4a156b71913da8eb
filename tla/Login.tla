-------------------------------- MODULE Login --------------------------------
(***************************************************************************)
(* The login page, src/ws/login.js: the form, the handlers on its button   *)
(* and input fields, and the requests to the server.  Return in a field    *)
(* sends the form also while an answer is awaited, so that several         *)
(* requests may be under way.                                              *)
(***************************************************************************)
EXTENDS Naturals, FiniteSets

CONSTANT MaxRequests      \* bound: requests that are sent

ASSUME LoginAssumption == MaxRequests \in Nat

VARIABLES form,           \* "none", "login", "converse", "fatal", or "gone" once logged in
          disabled,       \* the button is disabled
          handlers,       \* call_login and the call_converse of prompts, on the button
          prompts,        \* prompts that the server has sent
          requests,       \* the requests without an answer
          sent,           \* requests so far
          replied         \* replied[p]: replies to prompt p

loginvars == <<form, disabled, handlers, prompts, requests, sent, replied>>

Prompts == 1..MaxRequests

CallLogin == 0            \* the handler for the login form; p is the one for prompt p

\* boot, standard_auto_login
LoginInit ==
  /\ form = "none" /\ disabled = FALSE /\ handlers = {} /\ prompts = 0
  /\ requests = {[id |-> 1, auto |-> TRUE]} /\ sent = 1
  /\ replied = [p \in Prompts |-> 0]

\* send_login_request, n times; before or after it the form may be shown anew.
SendWhile(n, shown) ==
  /\ sent + n <= MaxRequests
  /\ sent' = sent + n
  /\ requests' = requests \cup {[id |-> i, auto |-> FALSE] : i \in sent + 1..sent + n}
  /\ disabled' \in (IF shown THEN BOOLEAN ELSE {TRUE})

Send(n) == SendWhile(n, FALSE)
-----------------------------------------------------------------------------
\* show_form; adding a function that is there already does nothing.
ShowForm(is, h) ==
  /\ form' = is /\ disabled' = FALSE
  /\ handlers' = IF is = "login" THEN h \cup {CallLogin} ELSE h

CallLoginEarly(empty, h) ==
  IF empty THEN handlers' = h \ {CallLogin} /\ form' = "login" /\ disabled' = FALSE /\ UNCHANGED <<sent, requests>>
  ELSE handlers' = h \ {CallLogin} /\ Send(1) /\ UNCHANGED form

\* call_login: without a user name, or a host if one is needed, nothing is sent.
CallLoginForm(empty, h) ==
  IF empty THEN ShowForm("login", h) /\ UNCHANGED <<sent, requests>>
  ELSE handlers' = h \ {CallLogin} /\ Send(1) /\ UNCHANGED form

\* The key Return in the field for the password.
EnterPassword(empty) ==
  /\ form = "login"
  /\ CallLoginForm(empty, handlers)
  /\ UNCHANGED <<prompts, replied>>

ConverseKeeps(asked, h) ==
  /\ Send(Cardinality(asked)) /\ handlers' = h
  /\ replied' = [p \in Prompts |-> IF p \in asked THEN replied[p] + 1 ELSE replied[p]]

\* call_converse of each prompt that has a handler, which removes itself first.
CallConverse(asked, h) ==
  /\ Send(Cardinality(asked)) /\ handlers' = h \ asked
  /\ replied' = [p \in Prompts |-> IF p \in asked THEN replied[p] + 1 ELSE replied[p]]

\* The key Return in the field of the conversation.
EnterReply ==
  /\ form = "converse" /\ handlers \cap Prompts # {}
  /\ CallConverse(handlers \cap Prompts, handlers)
  /\ UNCHANGED <<form, prompts>>

\* A click on the button runs every handler it has.
ClickButton(empty) ==
  /\ form \in {"login", "converse"} /\ ~disabled /\ handlers # {}
  /\ LET asked == handlers \cap Prompts
     IN IF asked = {} THEN CallLoginForm(empty, handlers) /\ UNCHANGED replied
        ELSE IF CallLogin \in handlers
        THEN /\ SendWhile(Cardinality(asked) + (IF empty THEN 0 ELSE 1), empty)
             /\ handlers' = IF empty THEN {CallLogin} ELSE {}
             /\ replied' = [p \in Prompts |-> IF p \in asked THEN replied[p] + 1 ELSE replied[p]]
             /\ form' = IF empty THEN "login" ELSE form
        ELSE CallConverse(asked, handlers) /\ UNCHANGED form
  /\ UNCHANGED prompts
-----------------------------------------------------------------------------
(* onreadystatechange of a request.                                        *)

Answered(r) == r \in requests /\ form # "gone" /\ requests' = requests \ {r}

LoggedIn(r) ==
  /\ Answered(r)
  /\ form' = "gone"
  /\ UNCHANGED <<disabled, handlers, prompts, sent, replied>>

\* get_prompt_from_challenge, show_converse
Challenged(r) ==
  /\ Answered(r) /\ ~r.auto /\ prompts < MaxRequests
  /\ prompts' = prompts + 1
  /\ ShowForm("converse", handlers \cup {prompts'})
  /\ UNCHANGED <<sent, replied>>

\* login_failure, host_failure; show_login after the automatic login.
Refused(r) ==
  /\ Answered(r)
  /\ ShowForm("login", handlers)
  /\ UNCHANGED <<prompts, sent, replied>>

Fatal(r) ==
  /\ Answered(r)
  /\ form' = "fatal" /\ disabled' = FALSE
  /\ UNCHANGED <<handlers, prompts, sent, replied>>

LoginNext ==
  \/ \E empty \in BOOLEAN : EnterPassword(empty) \/ ClickButton(empty)
  \/ EnterReply
  \/ \E r \in requests : LoggedIn(r) \/ Challenged(r) \/ Refused(r) \/ Fatal(r)

LoginSpec == LoginInit /\ [][LoginNext]_loginvars
-----------------------------------------------------------------------------
LoginTypeOK ==
  /\ form \in {"none", "login", "converse", "fatal", "gone"} /\ disabled \in BOOLEAN
  /\ handlers \subseteq 0..prompts /\ prompts \in 0..MaxRequests
  /\ \A r \in requests : r.id \in 1..sent

\* When no answer is awaited, the form that is shown can be sent: its button
\* is enabled and has the handler for it, whatever requests crossed.
FormCanBeSent ==
  form \in {"login", "converse"} /\ requests = {}
    => /\ ~disabled
       /\ IF form = "login" THEN CallLogin \in handlers ELSE prompts \in handlers

\* The reply to a prompt of the conversation is sent once, as its id is good
\* for one reply.
RepliesOnce == \A p \in Prompts : replied[p] <= 1
=============================================================================
