-------------------------------- MODULE Auth --------------------------------
(***************************************************************************)
(* CockpitAuth, src/ws/cockpitauth.c: requests to /login, the session      *)
(* processes they start, conversations that go on over several requests,   *)
(* and the timers of all of these.  A session is counted by reference: the *)
(* tables sessions (by cookie) and conversations, and the result of a      *)
(* login, hold it.  Completing a result runs login_finish at once, on the  *)
(* stack of whoever completes it.                                          *)
(*                                                                         *)
(* Of a session's web service this module has the count of callers and     *)
(* whether it is disposed; module WebService has the rest.  The process is *)
(* cockpit-session: it asks for the authorization ("*"), may prompt, and   *)
(* becomes the bridge, which sends init.  Credentials are left out.        *)
(***************************************************************************)
EXTENDS Integers, FiniteSets

CONSTANTS Sessions,        \* bound: the processes that can be started
          Logins,          \* bound: the requests to /login
          NoLogin,         \* the NULL of session->result
          NoSession,       \* the NULL of a result's session
          MaxPrompts,      \* bound: prompts of one process
          MaxCallers,      \* bound: sockets of one session at a time
          MaxStartups,     \* max_startups
          StartupsBegin,   \* max_startups_begin
          Retry,           \* a client may send a reply to a prompt again
          Mismatch         \* a client may reply with another scheme than it was asked for

ASSUME AuthAssumption ==
  /\ MaxPrompts \in Nat /\ MaxCallers \in Nat
  /\ MaxStartups \in Nat /\ StartupsBegin \in 0..MaxStartups
  /\ Retry \in BOOLEAN /\ Mismatch \in BOOLEAN
  /\ NoLogin \notin Logins /\ NoSession \notin Sessions /\ IsFiniteSet(Logins)

VARIABLES auth,            \* the CockpitAuth, see AuthInit
          given,           \* prompts a client has been told of
          used             \* prompts a client has replied to

authvars == <<auth, given, used>>

Unused == [live |-> FALSE, refs |-> 0, cookie |-> FALSE, conversation |-> 0, result |-> NoLogin,
           authorization |-> FALSE, authorize |-> "none", nonce |-> 0, initialized |-> FALSE,
           connected |-> FALSE, timer |-> "none", callers |-> 0, disposed |-> FALSE,
           pipe |-> "none", process |-> "none"]

AuthInit ==
  /\ auth = [startups |-> 0,
             timeout |-> TRUE,     \* the timer for the whole process is set
             quit |-> FALSE,       \* cockpit-ws has left its main loop
             dangling |-> FALSE,   \* a session was used after it was freed
             session |-> [s \in Sessions |-> Unused],
             login |-> [l \in Logins |-> [state |-> "idle", session |-> NoSession,
                                          error |-> FALSE, answer |-> "none", answers |-> 0]]]
  /\ given = {} /\ used = {}
-----------------------------------------------------------------------------
\* What a function makes of a session, or of the whole CockpitAuth.

\* on_web_service_idling() also restarts the timer of the process.
Idling(a, s) == [a EXCEPT !.session[s] = [@ EXCEPT !.timer = "idle"], !.timeout = TRUE]

Ref(q) == [q EXCEPT !.refs = @ + 1]

\* The transport is told to close, which it does when the process is gone.
Closing(pipe) == IF pipe = "open" THEN "ending" ELSE pipe

\* The last part of cockpit_session_unref(): the service is disposed with its signals
\* disconnected, which closes its transport.
Freed(q) ==
  [q EXCEPT !.refs = 0, !.live = FALSE, !.connected = FALSE, !.timer = "none", !.disposed = TRUE,
            !.pipe = Closing(@)]

Unref(q) == IF q.refs > 1 THEN [q EXCEPT !.refs = @ - 1] ELSE Freed(q)

\* cockpit_session_reset(), once its result is completed.
Forget(q) ==
  LET b == [q EXCEPT !.authorization = FALSE, !.cookie = FALSE, !.conversation = 0]
      c == IF q.cookie THEN Unref(b) ELSE b
  IN IF q.conversation # 0 THEN Unref(c) ELSE c

\* The end of cockpit_auth_login_finish(), and on_login_complete().
AnsweredStuck(a, l, answer) ==
  [a EXCEPT !.startups = IF answer = "error" THEN @ ELSE @ - 1,
            !.login[l] = [@ EXCEPT !.state = "done", !.answer = answer, !.answers = a.login[l].answers + 1]]
Answered(a, l, answer) ==
  [a EXCEPT !.startups = @ - 1,
            !.login[l] = [@ EXCEPT !.state = "done", !.answer = answer, !.answers = a.login[l].answers + 1]]

\* The session waits in the conversations for the client's reply to its last challenge.
Converse(q) ==
  IF q.authorize = "x-conversation"
  THEN [Ref(q) EXCEPT !.conversation = q.nonce, !.timer = "client"] ELSE q

LoggedIn(a, s) ==
  [Idling(a, s) EXCEPT !.session[s] = [Ref(@) EXCEPT !.cookie = TRUE]]

\* cockpit_auth_login_finish() of a result without an error.
Finish(a, l) ==
  LET s == a.login[l].session
      q == Converse(Forget(a.session[s]))
      b == [a EXCEPT !.session[s] = q]
  IN IF q.initialized THEN Answered(LoggedIn(b, s), l, "ok")
     ELSE Answered(b, l, IF q.authorize = "none" THEN "error" ELSE "challenge")

\* Complete the open result of a session, and drop the reference it has on the session.
Complete(a, s) ==
  LET l == a.session[s].result
      b == [a EXCEPT !.session[s] = [@ EXCEPT !.result = NoLogin]]
      c == IF b.login[l].error THEN Answered(b, l, "error") ELSE Finish(b, l)
  IN [c EXCEPT !.session[s] = Unref(@)]

CompleteAny(a, s) == IF a.session[s].result = NoLogin THEN a ELSE Complete(a, s)

\* cockpit_session_reset(), which goes on with the session after it has completed the result.
Reset(a, s) ==
  LET b == CompleteAny(a, s)
  IN IF b.session[s].live THEN [b EXCEPT !.session[s] = Forget(@)] ELSE [b EXCEPT !.dangling = TRUE]

\* cockpit_web_service_dispose(), and on_web_service_destroy() when it is emitted.
DisposedQuietly(a, s) ==
  IF a.session[s].disposed THEN a
  ELSE [a EXCEPT !.session[s] = [@ EXCEPT !.disposed = TRUE, !.pipe = Closing(a.session[s].pipe)]]
Disposed(a, s) ==
  IF a.session[s].disposed THEN a
  ELSE LET b == [a EXCEPT !.session[s] = [@ EXCEPT !.disposed = TRUE, !.pipe = Closing(a.session[s].pipe)]]
       IN IF b.session[s].live THEN Reset(Idling(b, s), s) ELSE b
-----------------------------------------------------------------------------
\* can_start_auth(): at random between the soft and the hard limit.
CanStart(n) ==
  {ok \in BOOLEAN : /\ MaxStartups = 0 \/ n <= StartupsBegin => ok
                    /\ MaxStartups # 0 /\ n > MaxStartups => ~ok}

\* A login that is refused at once is completed in an idle callback.
Refused(a, l) == [a EXCEPT !.login[l] = [@ EXCEPT !.state = "due", !.error = TRUE]]

Started(a, l, s) ==
  [a EXCEPT !.session[s] = [Unused EXCEPT !.live = TRUE, !.refs = 1, !.result = l,
                                          !.authorization = TRUE, !.connected = TRUE,
                                          !.timer = "process", !.pipe = "open", !.process = "start"],
            !.login[l] = [@ EXCEPT !.state = "pending", !.session = s]]

Begun(l) == [auth EXCEPT !.startups = @ + 1]

\* /login with an authorization, which starts a session if it can.
LoginNew(l, s) ==
  /\ ~auth.quit /\ auth.login[l].state = "idle" /\ auth.session[s] = Unused
  /\ \E ok \in CanStart(auth.startups + 1), started \in BOOLEAN :
       auth' = IF ok /\ started THEN Started(Begun(l), l, s) ELSE Refused(Begun(l), l)
  /\ UNCHANGED <<given, used>>

\* The session gets the reply through its transport; a process that waits for it goes on.
Replied(a, l, s) ==
  LET q == Forget(Ref(a.session[s]))
  IN [a EXCEPT !.login[l] = [@ EXCEPT !.state = "pending", !.session = s],
               !.session[s] = [q EXCEPT !.result = l, !.timer = "process",
                                        !.process = IF @ = "prompted" THEN "working" ELSE @]]

\* The wrong scheme: the result is completed with an error and still the session's.
RepliedWrongly(a, l, s) ==
  [a EXCEPT !.login[l] = [@ EXCEPT !.state = "due", !.session = s, !.error = TRUE],
            !.session[s] = [Forget(Ref(@)) EXCEPT !.result = l, !.authorization = TRUE]]

\* /login with the reply to a prompt.
LoginReply(l, s, n) ==
  /\ ~auth.quit /\ auth.login[l].state = "idle"
  /\ <<s, n>> \in given /\ (Retry \/ <<s, n>> \notin used)
  /\ \E ok \in CanStart(auth.startups + 1), match \in {TRUE} \cup {~Mismatch} :
       auth' = IF ~ok \/ ~auth.session[s].live \/ auth.session[s].conversation # n
               THEN Refused(Begun(l), l)
               ELSE IF match THEN Replied(Begun(l), l, s) ELSE RepliedWrongly(Begun(l), l, s)
  /\ used' = used \cup {<<s, n>>}
  /\ UNCHANGED given

\* The idle callback of g_simple_async_result_complete_in_idle().
LoginIdle(l) ==
  /\ ~auth.quit /\ auth.login[l].state = "due"
  /\ auth' = Answered(auth, l, "error")
  /\ UNCHANGED <<given, used>>
-----------------------------------------------------------------------------
Talks(s) == ~auth.quit /\ auth.session[s].connected /\ auth.session[s].pipe = "open"

\* on_transport_control(): "authorize" for any scheme is answered with what the client sent.
ProcessAsks(s) ==
  /\ Talks(s) /\ auth.session[s].process = "start"
  /\ auth' = [auth EXCEPT !.session[s] = [@ EXCEPT !.authorize = "*", !.authorization = FALSE,
                                                   !.process = "working"]]
  /\ UNCHANGED <<given, used>>

\* A prompt: nothing is left to answer it with, so the login goes back to the client.
ProcessPrompts(s) ==
  /\ Talks(s) /\ auth.session[s].process = "working" /\ auth.session[s].nonce < MaxPrompts
  /\ auth' = CompleteAny([auth EXCEPT !.session[s] = [@ EXCEPT !.authorize = "x-conversation",
                                                               !.nonce = auth.session[s].nonce + 1,
                                                               !.process = "prompted"]], s)
  /\ given' = IF auth.session[s].result = NoLogin THEN given
              ELSE given \cup {<<s, auth.session[s].nonce + 1>>}
  /\ UNCHANGED used

\* "init": on_transport_control() of the session, and then, if it is still there, of the service.
ProcessInits(s, how) ==
  /\ Talks(s) /\ auth.session[s].process = "working"
  /\ LET r == auth.session[s].result
         a == [auth EXCEPT !.session[s] = [@ EXCEPT !.connected = FALSE, !.initialized = TRUE,
                                                    !.process = "running"]]
         b == IF how = "problem" /\ r # NoLogin THEN [a EXCEPT !.login[r] = [@ EXCEPT !.error = TRUE]] ELSE a
         c == CompleteAny(b, s)
     IN auth' = IF how = "version" /\ ~c.session[s].disposed
                THEN [c EXCEPT !.session[s] = [@ EXCEPT !.pipe = "ending"]] ELSE c
  /\ UNCHANGED <<given, used>>

\* Any other control message before "init": the transport is told to close, and the login goes
\* back to the client, with the last prompt once more if there was one.
ProcessErrs(s) ==
  /\ Talks(s)
  /\ auth' = CompleteAny([auth EXCEPT !.session[s] = [@ EXCEPT !.pipe = "ending"]], s)
  /\ used' = IF auth.session[s].result = NoLogin THEN used ELSE used \ {<<s, auth.session[s].nonce>>}
  /\ UNCHANGED given

\* on_transport_closed() of the session.
ClosedForLogin(a, s) ==
  LET r == a.session[s].result
  IN IF ~a.session[s].connected THEN a
     ELSE IF r # NoLogin THEN Complete([a EXCEPT !.login[r] = [@ EXCEPT !.error = TRUE]], s)
     ELSE Reset(a, s)

\* The process is gone and the transport closed: the handler of the session comes before the
\* service's, which disposes the service.
TransportClosed(s) ==
  /\ ~auth.quit /\ auth.session[s].pipe \in {"open", "ending"}
  /\ auth' = Disposed(ClosedForLogin([auth EXCEPT !.session[s] =
                                        [@ EXCEPT !.pipe = "closed", !.process = "gone"]], s), s)
  /\ UNCHANGED <<given, used>>
-----------------------------------------------------------------------------
\* on_authorize_timeout(): whatever happens to the session happens when the transport is closed.
AuthorizeTimeout(s) ==
  /\ ~auth.quit /\ auth.session[s].timer \in {"process", "client"}
  /\ auth' = [auth EXCEPT !.session[s] = [@ EXCEPT !.timer = "none",
                                                   !.pipe = Closing(auth.session[s].pipe)]]
  /\ UNCHANGED <<given, used>>

\* on_session_timeout()
SessionTimeout(s) ==
  /\ ~auth.quit /\ auth.session[s].timer = "idle"
  /\ auth' = LET a == [auth EXCEPT !.session[s] = [@ EXCEPT !.timer = "none"]]
             IN IF a.session[s].callers = 0 THEN Reset(a, s) ELSE a
  /\ UNCHANGED <<given, used>>

\* on_process_timeout().  It takes longer than the timer of an idle session, and is started
\* again with each of these.  A cockpit-ws that systemd started for its socket ends.
ProcessTimeout ==
  /\ ~auth.quit /\ auth.timeout /\ \A s \in Sessions : auth.session[s].timer # "idle"
  /\ auth' = [auth EXCEPT !.timeout = FALSE,
                          !.quit = \A s \in Sessions : ~auth.session[s].cookie]
  /\ UNCHANGED <<given, used>>

\* cockpit_auth_check_cookie() and cockpit_web_service_socket()
SocketOpens(s) ==
  /\ ~auth.quit /\ auth.session[s].cookie /\ auth.session[s].callers < MaxCallers
  /\ auth' = [auth EXCEPT !.session[s] = [@ EXCEPT !.callers = auth.session[s].callers + 1]]
  /\ UNCHANGED <<given, used>>

\* caller_end(); the signal is connected while there is a session.
SocketEndsIdle(a, s) == a
SocketEnds(a, s) == IF a.session[s].callers = 0 /\ a.session[s].live THEN Idling(a, s) ELSE a

SocketCloses(s) ==
  /\ ~auth.quit /\ auth.session[s].callers > 0
  /\ auth' = SocketEnds([auth EXCEPT !.session[s] = [@ EXCEPT !.callers = auth.session[s].callers - 1]], s)
  /\ UNCHANGED <<given, used>>

\* process_logout() with "disconnect"
Logout(s) ==
  /\ ~auth.quit /\ auth.session[s].callers > 0 /\ ~auth.session[s].disposed
  /\ auth' = Disposed(auth, s)
  /\ UNCHANGED <<given, used>>

AuthNext ==
  \/ \E l \in Logins, s \in Sessions : LoginNew(l, s)
  \/ \E l \in Logins, s \in Sessions, n \in 1..MaxPrompts : LoginReply(l, s, n)
  \/ \E l \in Logins : LoginIdle(l)
  \/ \E s \in Sessions : ProcessAsks(s)
  \/ \E s \in Sessions : ProcessPrompts(s)
  \/ \E s \in Sessions, how \in {"ok", "problem", "version"} : ProcessInits(s, how)
  \/ \E s \in Sessions : ProcessErrs(s)
  \/ \E s \in Sessions : TransportClosed(s)
  \/ \E s \in Sessions : AuthorizeTimeout(s)
  \/ \E s \in Sessions : SessionTimeout(s)
  \/ ProcessTimeout
  \/ \E s \in Sessions : SocketOpens(s)
  \/ \E s \in Sessions : SocketCloses(s)
  \/ \E s \in Sessions : Logout(s)

\* Of cockpit-ws: idle callbacks and timers.  Of the world: a process whose transport has been
\* closed exits.  Nothing is assumed of a process that is asked to log in, or of clients.
AuthFairness ==
  /\ \A l \in Logins : WF_authvars(LoginIdle(l))
  /\ \A s \in Sessions : /\ WF_authvars(AuthorizeTimeout(s))
                         /\ WF_authvars(SessionTimeout(s))
                         /\ WF_authvars(auth.session[s].pipe = "ending" /\ TransportClosed(s))

AuthSpec == AuthInit /\ [][AuthNext]_authvars /\ AuthFairness
-----------------------------------------------------------------------------
Session == [live : BOOLEAN, refs : Nat, cookie : BOOLEAN, conversation : 0..MaxPrompts,
            result : Logins \cup {NoLogin}, authorization : BOOLEAN,
            authorize : {"none", "*", "x-conversation"}, nonce : 0..MaxPrompts,
            initialized : BOOLEAN, connected : BOOLEAN,
            timer : {"none", "process", "client", "idle"}, callers : 0..MaxCallers,
            disposed : BOOLEAN, pipe : {"none", "open", "ending", "closed"},
            process : {"none", "start", "working", "prompted", "running", "gone"}]

\* The fields of a CockpitAuth and its sessions have the types their declarations say.
AuthTypeOK ==
  /\ auth \in [startups : Int, timeout : BOOLEAN, quit : BOOLEAN, dangling : BOOLEAN,
               session : [Sessions -> Session],
               login : [Logins -> [state : {"idle", "pending", "due", "done"},
                                   session : Sessions \cup {NoSession}, error : BOOLEAN,
                                   answer : {"none", "ok", "challenge", "error"}, answers : Nat]]]
  /\ given \subseteq Sessions \X (1..MaxPrompts) /\ used \subseteq given

Waiting(l) == auth.login[l].state \in {"pending", "due"}
One(b) == IF b THEN 1 ELSE 0

\* What cockpitauth.c counts is right however logins, timers and processes cross: startups is the
\* number of requests without an answer (else logins would be refused for good, or not at
\* all), each request is answered once, and a session is freed when, and only when, the tables and the
\* results have let go of it.
CountsExact ==
  /\ auth.startups = Cardinality({l \in Logins : Waiting(l)})
  /\ \A l \in Logins : auth.login[l].answers = One(auth.login[l].state = "done")
  /\ \A s \in Sessions :
       LET q == auth.session[s]
       IN /\ q.live <=> q.refs > 0
          /\ q.refs = One(q.cookie) + One(q.conversation # 0)
                      + Cardinality({l \in Logins : auth.login[l].session = s /\ Waiting(l)})
  /\ ~auth.dangling

\* No session is forgotten: one that is still there is in use, or has a timer that will look
\* after it, or its process is being ended.  A cookie is never one of a service that is disposed, nor a
\* conversation one of a session that a request is waiting on.
Attended ==
  \A s \in Sessions :
    LET q == auth.session[s]
    IN q.live => /\ q.timer # "none" \/ q.callers > 0 \/ q.pipe = "ending"
                 /\ q.cookie /\ q.callers = 0 => q.timer = "idle" \/ q.pipe = "ending"
                 /\ q.cookie => ~q.disposed
                 /\ q.conversation # 0 => q.result = NoLogin

\* Every request to /login is answered, whatever the process does or does not do.
LoginsAnswered == \A l \in Logins : Waiting(l) ~> (auth.login[l].state = "done" \/ auth.quit)

\* "Start off in the idling state, and begin a timeout during which caller must do something
\* else" (cockpitauth.c, login_finish): who is told that the login worked has a session.
SuccessIsUsable ==
  [][\A l \in Logins : auth'.login[l].answer = "ok" /\ auth.login[l].answer # "ok"
                       => auth'.session[auth'.login[l].session].cookie]_authvars

\* "Timeout of everything when noone is connected": cockpit-ws ends when nobody is logging in.
QuitIsIdle == auth.quit => \A l \in Logins : ~Waiting(l)
=============================================================================
