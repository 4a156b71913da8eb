----------------------------- MODULE AuthProofs ------------------------------
(***************************************************************************)
(* Proofs about module Auth: what cockpitauth.c counts is right, and no    *)
(* session is left without somebody or something that will end it, for any *)
(* number of sessions, requests, prompts and sockets.  The client replies  *)
(* with the scheme it was asked for (~Mismatch).                           *)
(***************************************************************************)
EXTENDS Auth, FiniteSetTheorems, TLAPS

LoginType == [state : {"idle", "pending", "due", "done"}, session : Sessions \cup {NoSession},
              error : BOOLEAN, answer : {"none", "ok", "challenge", "error"}, answers : Nat]

AuthType == [startups : Int, timeout : BOOLEAN, quit : BOOLEAN, dangling : BOOLEAN,
             session : [Sessions -> Session], login : [Logins -> LoginType]]

\* The references of a session and what it must have been through: its service has callers,
\* a cookie or an idle timer only once the process has sent its init.
Counted(q) ==
  /\ q.refs = One(q.cookie) + One(q.conversation # 0) + One(q.result # NoLogin)
  /\ q.live <=> q.refs > 0
  /\ q.result # NoLogin => ~q.cookie /\ q.conversation = 0
  /\ q.connected <=> q.live /\ ~q.initialized
  /\ q.cookie \/ q.callers > 0 \/ q.timer = "idle" => q.initialized
  /\ ~q.live => q.timer = "none"
  /\ q.authorize = "x-conversation" => q.nonce # 0

\* Something will happen to a session that is there.
Tended(q) ==
  q.live => /\ ~q.disposed /\ q.pipe \in {"open", "ending"}
            /\ q.timer # "none" \/ q.callers > 0 \/ q.pipe = "ending"
            /\ q.cookie /\ q.callers = 0 => q.timer = "idle" \/ q.pipe = "ending"

\* The requests that a CockpitAuth has not answered.
Unanswered(a) == {l \in Logins : a.login[l].state \in {"pending", "due"}}

\* A request and the session that it waits for name each other.
Paired(a) ==
  /\ \A s \in Sessions : a.session[s].result # NoLogin =>
       LET r == a.login[a.session[s].result] IN r.state = "pending" /\ r.session = s
  /\ \A l \in Logins :
       LET r == a.login[l]
       IN /\ r.state = "pending" => r.session \in Sessions /\ a.session[r.session].result = l
          /\ r.state \in {"idle", "due"} => r.session = NoSession
          /\ r.answers = One(r.state = "done")

\* The invariant, apart from the states that sessions are in.
Books(a) ==
  /\ a \in AuthType /\ ~a.dangling
  /\ Paired(a)
  /\ a.startups = Cardinality(Unanswered(a))

\* The inductive invariant.
AuthInv ==
  /\ Books(auth)
  /\ \A s \in Sessions : Counted(auth.session[s]) /\ Tended(auth.session[s])
  /\ \A l \in Logins : auth.login[l].state \in {"idle", "pending"} => ~auth.login[l].error
  /\ given \subseteq Sessions \X (1..MaxPrompts) /\ used \subseteq given
-----------------------------------------------------------------------------
(* Sessions. *)

LEMMA SessionFields ==
  ASSUME NEW q \in Session
  PROVE  /\ q.live \in BOOLEAN /\ q.cookie \in BOOLEAN /\ q.authorization \in BOOLEAN
         /\ q.initialized \in BOOLEAN /\ q.connected \in BOOLEAN /\ q.disposed \in BOOLEAN
         /\ q.refs \in Nat /\ q.conversation \in 0..MaxPrompts /\ q.nonce \in 0..MaxPrompts
         /\ q.callers \in 0..MaxCallers
         /\ q.result \in Logins \cup {NoLogin} /\ q.authorize \in {"none", "*", "x-conversation"}
         /\ q.timer \in {"none", "process", "client", "idle"}
         /\ q.pipe \in {"none", "open", "ending", "closed"}
         /\ q.process \in {"none", "start", "working", "prompted", "running", "gone"}
BY DEF Session

\* What Freed() leaves.
LEMMA FreedSession ==
  ASSUME NEW q \in Session
  PROVE  /\ Freed(q) \in Session
         /\ Freed(q).refs = 0 /\ ~Freed(q).live /\ ~Freed(q).connected /\ Freed(q).timer = "none"
         /\ Freed(q).cookie = q.cookie /\ Freed(q).conversation = q.conversation
         /\ Freed(q).result = q.result /\ Freed(q).initialized = q.initialized
         /\ Freed(q).callers = q.callers /\ Freed(q).authorize = q.authorize
         /\ Freed(q).nonce = q.nonce /\ Freed(q).disposed
<1> DEFINE pipe == IF q.pipe = "open" THEN "ending" ELSE q.pipe
<1>1. pipe \in {"none", "open", "ending", "closed"}
  BY DEF Session
<1> HIDE DEF pipe
<1>2. Freed(q) = [q EXCEPT !.refs = 0, !.live = FALSE, !.connected = FALSE, !.timer = "none",
                           !.disposed = TRUE, !.pipe = pipe]
  BY DEF Freed, Closing, pipe, Session
<1>3. Freed(q) \in Session
  <2>1. Freed(q) = [live |-> FALSE, refs |-> 0, cookie |-> q.cookie, conversation |-> q.conversation,
                    result |-> q.result, authorization |-> q.authorization,
                    authorize |-> q.authorize, nonce |-> q.nonce, initialized |-> q.initialized,
                    connected |-> FALSE, timer |-> "none", callers |-> q.callers,
                    disposed |-> TRUE, pipe |-> pipe, process |-> q.process]
    BY <1>2 DEF Session
  <2> QED BY <1>1, <2>1, SessionFields DEF Session
<1>4. /\ Freed(q).refs = 0 /\ Freed(q).timer = "none"
      /\ Freed(q).conversation = q.conversation
      /\ Freed(q).result = q.result
      /\ Freed(q).callers = q.callers /\ Freed(q).authorize = q.authorize
      /\ Freed(q).nonce = q.nonce
  BY <1>2 DEF Session
<1>5. ~Freed(q).live /\ ~Freed(q).connected /\ Freed(q).disposed
  BY <1>2 DEF Session
<1>6. Freed(q).cookie = q.cookie /\ Freed(q).initialized = q.initialized
  BY <1>2, Zenon DEF Session
<1> QED BY <1>3, <1>4, <1>5, <1>6

\* A session that is freed has nothing left to count or to tend.
LEMMA FreedCounted ==
  ASSUME NEW q \in Session, ~q.cookie, q.conversation = 0, q.result = NoLogin,
         q.callers > 0 => q.initialized, q.authorize = "x-conversation" => q.nonce # 0
  PROVE  /\ Freed(q) \in Session /\ Counted(Freed(q)) /\ Tended(Freed(q))
         /\ ~Freed(q).live /\ Freed(q).result = NoLogin
BY FreedSession DEF Counted, Tended, One

\* A session without cookie and conversation, and with n references.
Bare(q, n) == [q EXCEPT !.authorization = FALSE, !.cookie = FALSE, !.conversation = 0, !.refs = n]

LEMMA BareSession ==
  ASSUME NEW q \in Session, NEW n \in Nat
  PROVE  /\ Bare(q, n) \in Session
         /\ Bare(q, n).refs = n /\ Bare(q, n).conversation = 0 /\ ~Bare(q, n).cookie
         /\ Bare(q, n).result = q.result /\ Bare(q, n).timer = q.timer
         /\ Bare(q, n).callers = q.callers /\ Bare(q, n).authorize = q.authorize
         /\ Bare(q, n).nonce = q.nonce /\ Bare(q, n).pipe = q.pipe
         /\ Bare(q, n).live = q.live /\ Bare(q, n).connected = q.connected
         /\ Bare(q, n).initialized = q.initialized /\ Bare(q, n).disposed = q.disposed
<1>1. Bare(q, n) \in Session
  <2>1. \A b, c \in BOOLEAN, m \in 0..MaxPrompts :
          [q EXCEPT !.authorization = b, !.cookie = c, !.conversation = m, !.refs = n] \in Session
    BY DEF Session
  <2>2. 0 \in 0..MaxPrompts /\ FALSE \in BOOLEAN
    BY AuthAssumption
  <2> QED BY <2>1, <2>2, Zenon DEF Bare
<1>2. /\ Bare(q, n).refs = n /\ Bare(q, n).conversation = 0
      /\ Bare(q, n).result = q.result /\ Bare(q, n).timer = q.timer
      /\ Bare(q, n).callers = q.callers /\ Bare(q, n).authorize = q.authorize
      /\ Bare(q, n).nonce = q.nonce /\ Bare(q, n).pipe = q.pipe
  BY DEF Session, Bare
<1>3. ~Bare(q, n).cookie
  BY DEF Session, Bare
<1>4. /\ Bare(q, n).live = q.live /\ Bare(q, n).connected = q.connected
      /\ Bare(q, n).initialized = q.initialized /\ Bare(q, n).disposed = q.disposed
  BY Zenon DEF Session, Bare
<1> QED BY <1>1, <1>2, <1>3, <1>4

\* cockpit_session_reset() of a session that somebody else still holds: the references of the
\* tables are dropped.
LEMMA ForgetKeeps ==
  ASSUME NEW q \in Session, NEW n \in Nat, n # 0,
         q.refs = One(q.cookie) + One(q.conversation # 0) + n
  PROVE  Forget(q) = Bare(q, n)
<1> DEFINE b == [q EXCEPT !.authorization = FALSE, !.cookie = FALSE, !.conversation = 0]
<1>1. b = Bare(q, q.refs) /\ q.refs \in Nat /\ q.cookie \in BOOLEAN
  BY DEF Bare, Session
<1>2. \A m, k \in Nat : [Bare(q, m) EXCEPT !.refs = k] = Bare(q, k)
  BY DEF Bare, Session
<1>3. Forget(q) = LET c == IF q.cookie THEN Unref(b) ELSE b
                  IN IF q.conversation # 0 THEN Unref(c) ELSE c
  BY DEF Forget
<1> HIDE DEF b
<1>4. \A m \in Nat : m > 1 => Unref(Bare(q, m)) = Bare(q, m - 1)
  BY <1>2, BareSession, SMTT(40) DEF Unref
<1>5. CASE q.cookie /\ q.conversation # 0
  <2>1. q.refs = n + 2
    BY <1>5 DEF One
  <2>2. Unref(Bare(q, n + 2)) = Bare(q, n + 1) /\ Unref(Bare(q, n + 1)) = Bare(q, n)
    BY <1>4
  <2> QED BY <1>1, <1>3, <1>5, <2>1, <2>2
<1>6. CASE q.cookie /\ q.conversation = 0
  <2>1. q.refs = n + 1
    BY <1>6 DEF One
  <2>2. Unref(Bare(q, n + 1)) = Bare(q, n)
    BY <1>4
  <2> QED BY <1>1, <1>3, <1>6, <2>1, <2>2
<1>7. CASE ~q.cookie /\ q.conversation # 0
  <2>1. q.refs = n + 1
    BY <1>7 DEF One
  <2>2. Unref(Bare(q, n + 1)) = Bare(q, n)
    BY <1>4
  <2> QED BY <1>1, <1>3, <1>7, <2>1, <2>2
<1>8. CASE ~q.cookie /\ q.conversation = 0
  <2>1. q.refs = n
    BY <1>8 DEF One
  <2> QED BY <1>1, <1>3, <1>8, <2>1
<1> QED BY <1>5, <1>6, <1>7, <1>8

\* ... and of one that nobody else holds: it is freed.
LEMMA ForgetFrees ==
  ASSUME NEW q \in Session, Counted(q), q.live, q.result = NoLogin
  PROVE  /\ Forget(q) \in Session /\ Counted(Forget(q)) /\ Tended(Forget(q))
         /\ ~Forget(q).live /\ Forget(q).result = NoLogin
<1> DEFINE b == [q EXCEPT !.authorization = FALSE, !.cookie = FALSE, !.conversation = 0]
<1>1. b = Bare(q, q.refs) /\ q.refs \in Nat /\ q.cookie \in BOOLEAN
  BY DEF Bare, Session
<1>2. \A m, k \in Nat : [Bare(q, m) EXCEPT !.refs = k] = Bare(q, k)
  BY DEF Bare, Session
<1>3. Forget(q) = LET c == IF q.cookie THEN Unref(b) ELSE b
                  IN IF q.conversation # 0 THEN Unref(c) ELSE c
  BY DEF Forget
<1> HIDE DEF b
<1>4. Unref(Bare(q, 2)) = Bare(q, 1) /\ Unref(Bare(q, 1)) = Freed(Bare(q, 1))
  BY <1>2, BareSession DEF Unref
<1>5. Forget(q) = Freed(Bare(q, 1))
  <2>1. CASE q.cookie /\ q.conversation # 0
    <3>1. q.refs = 2
      BY <2>1 DEF One, Counted
    <3> QED BY <1>1, <1>3, <1>4, <2>1, <3>1
  <2>2. CASE q.cookie /\ q.conversation = 0
    <3>1. q.refs = 1
      BY <2>2 DEF One, Counted
    <3> QED BY <1>1, <1>3, <1>4, <2>2, <3>1
  <2>3. CASE ~q.cookie /\ q.conversation # 0
    <3>1. q.refs = 1
      BY <2>3 DEF One, Counted
    <3> QED BY <1>1, <1>3, <1>4, <2>3, <3>1
  <2>4. CASE ~q.cookie /\ q.conversation = 0
    BY <2>4 DEF One, Counted
  <2> QED BY <2>1, <2>2, <2>3, <2>4
<1> DEFINE p == Bare(q, 1)
<1>6. /\ p \in Session /\ ~p.cookie /\ p.conversation = 0 /\ p.result = NoLogin
      /\ p.callers > 0 => p.initialized
      /\ p.authorize = "x-conversation" => p.nonce # 0
  BY BareSession DEF Counted
<1> HIDE DEF p
<1>7. Forget(q) = Freed(p)
  BY <1>5 DEF p
<1> QED BY <1>6, <1>7, FreedCounted

\* A session with a conversation v, a timer t, a cookie if c holds, and n references.
Granted(q, v, t, c, n) ==
  [q EXCEPT !.conversation = v, !.timer = t, !.cookie = c, !.refs = n]

LEMMA GrantedSession ==
  ASSUME NEW q \in Session, NEW v \in 0..MaxPrompts,
         NEW t \in {"none", "process", "client", "idle"}, NEW c \in BOOLEAN, NEW n \in Nat
  PROVE  LET p == Granted(q, v, t, c, n)
         IN /\ p \in Session
            /\ p.conversation = v /\ p.timer = t /\ p.cookie = c /\ p.refs = n
            /\ p.result = q.result /\ p.callers = q.callers /\ p.authorize = q.authorize
            /\ p.nonce = q.nonce /\ p.pipe = q.pipe /\ p.live = q.live
            /\ p.connected = q.connected /\ p.initialized = q.initialized /\ p.disposed = q.disposed
<1> DEFINE p == Granted(q, v, t, c, n)
<1>1. p \in Session
  BY DEF Session, Granted
<1>2. /\ p.conversation = v /\ p.timer = t /\ p.refs = n
      /\ p.result = q.result /\ p.callers = q.callers /\ p.authorize = q.authorize
      /\ p.nonce = q.nonce /\ p.pipe = q.pipe
  BY DEF Session, Granted
<1>3. p.cookie = c
  BY DEF Session, Granted
<1>4. /\ p.live = q.live
      /\ p.connected = q.connected /\ p.initialized = q.initialized /\ p.disposed = q.disposed
  BY Zenon DEF Session, Granted
<1> HIDE DEF p
<1>5. QED BY <1>1, <1>2, <1>3, <1>4 DEF p

\* What cockpit_auth_login_finish() makes of the session of a result that it has no error for.
Finished(q) ==
  LET p == Converse(Forget([q EXCEPT !.result = NoLogin]))
  IN IF p.initialized THEN [Ref([p EXCEPT !.timer = "idle"]) EXCEPT !.cookie = TRUE]
     ELSE p

\* A session whose result is completed and let go.
LEMMA ResultOff ==
  ASSUME NEW q \in Session
  PROVE  LET p == [q EXCEPT !.result = NoLogin]
         IN /\ p \in Session /\ p.result = NoLogin
            /\ p.conversation = q.conversation /\ p.timer = q.timer /\ p.refs = q.refs
            /\ p.callers = q.callers /\ p.authorize = q.authorize /\ p.nonce = q.nonce
            /\ p.pipe = q.pipe /\ p.live = q.live /\ p.cookie = q.cookie
            /\ p.connected = q.connected /\ p.initialized = q.initialized /\ p.disposed = q.disposed
<1> DEFINE p == [q EXCEPT !.result = NoLogin]
<1>1. /\ p \in Session /\ p.result = NoLogin
      /\ p.conversation = q.conversation /\ p.timer = q.timer /\ p.refs = q.refs
      /\ p.callers = q.callers /\ p.authorize = q.authorize /\ p.nonce = q.nonce
      /\ p.pipe = q.pipe
  BY DEF Session
<1>2. /\ p.live = q.live /\ p.cookie = q.cookie
      /\ p.connected = q.connected /\ p.initialized = q.initialized /\ p.disposed = q.disposed
  BY Zenon DEF Session
<1> HIDE DEF p
<1>3. QED BY <1>1, <1>2 DEF p

\* With an error the session is freed: a session that a request waits for has no cookie and
\* no conversation.
LEMMA ErrorFrees ==
  ASSUME NEW q \in Session, Counted(q), q.result # NoLogin
  PROVE  LET p == Unref([q EXCEPT !.result = NoLogin])
         IN p \in Session /\ Counted(p) /\ Tended(p) /\ ~p.live /\ p.result = NoLogin
<1> DEFINE r == [q EXCEPT !.result = NoLogin]
<1>1. /\ r \in Session /\ ~r.cookie /\ r.conversation = 0 /\ r.result = NoLogin /\ r.refs = 1
      /\ r.callers > 0 => r.initialized
      /\ r.authorize = "x-conversation" => r.nonce # 0
  BY ResultOff DEF Counted, One
<1> HIDE DEF r
<1>2. Unref(r) = Freed(r)
  BY <1>1 DEF Unref
<1> QED BY <1>1, <1>2, FreedCounted DEF r

\* Without one the session is held by the tables from now on: the conversations if there is a
\* challenge, and the sessions if its process has sent init.
LEMMA FinishedHeld ==
  ASSUME NEW q \in Session, Counted(q), q.result # NoLogin
  PROVE  LET p == Unref(Finished(q))
         IN /\ p \in Session /\ Counted(p) /\ p.result = NoLogin
            /\ q.initialized => p.live
            /\ ~q.disposed /\ q.pipe \in {"open", "ending"} => Tended(p)
<1> DEFINE r == [q EXCEPT !.result = NoLogin]
           f == Bare(r, 1)
<1>1. /\ r \in Session /\ ~r.cookie /\ r.conversation = 0 /\ r.result = NoLogin /\ r.refs = 1
      /\ r.live /\ (r.connected <=> ~r.initialized) /\ r.initialized = q.initialized
      /\ r.callers > 0 \/ r.timer = "idle" => r.initialized
      /\ r.authorize = "x-conversation" => r.nonce # 0
      /\ r.disposed = q.disposed /\ r.pipe = q.pipe
  BY ResultOff DEF Counted, One
<1> HIDE DEF r
<1>2. Forget(r) = f
  BY <1>1, ForgetKeeps DEF One
<1>3. /\ f \in Session /\ ~f.cookie /\ f.conversation = 0 /\ f.result = NoLogin /\ f.refs = 1
      /\ f.live /\ (f.connected <=> ~f.initialized) /\ f.initialized = q.initialized
      /\ f.callers > 0 \/ f.timer = "idle" => f.initialized
      /\ f.authorize = "x-conversation" => f.nonce # 0
      /\ f.disposed = q.disposed /\ f.pipe = q.pipe
      /\ f.nonce \in 0..MaxPrompts /\ f.initialized \in BOOLEAN
  <2>1. /\ f \in Session /\ f.refs = 1 /\ f.conversation = 0 /\ ~f.cookie
        /\ f.result = r.result /\ f.timer = r.timer
        /\ f.callers = r.callers /\ f.authorize = r.authorize /\ f.nonce = r.nonce
        /\ f.pipe = r.pipe /\ f.live = r.live /\ f.connected = r.connected
        /\ f.initialized = r.initialized /\ f.disposed = r.disposed
    BY <1>1, 1 \in Nat, BareSession, ZenonT(60)
  <2> HIDE DEF f
  <2>2. f.nonce \in 0..MaxPrompts /\ f.initialized \in BOOLEAN
    BY <2>1, SessionFields
  <2> QED BY <1>1, <2>1, <2>2
<1>4. Finished(q) =
        IF Converse(f).initialized
        THEN [Ref([Converse(f) EXCEPT !.timer = "idle"]) EXCEPT !.cookie = TRUE]
        ELSE Converse(f)
  BY <1>2 DEF Finished, r
<1>5. f.cookie = FALSE
  BY <1>3, SessionFields
<1> HIDE DEF f
<1>6. ASSUME NEW v \in 0..MaxPrompts, NEW t \in {"none", "process", "client", "idle"},
             NEW c \in BOOLEAN, NEW n \in Nat,
             n # 0, n = One(c) + One(v # 0), c => t = "idle", t # "none",
             t = "idle" => f.initialized
      PROVE  LET p == Granted(f, v, t, c, n)
             IN /\ p \in Session /\ Counted(p) /\ p.result = NoLogin /\ p.live
                /\ ~q.disposed /\ q.pipe \in {"open", "ending"} => Tended(p)
  <2> DEFINE p == Granted(f, v, t, c, n)
  <2>0. f \in Session
    BY <1>3
  <2>1. /\ p \in Session
        /\ p.conversation = v /\ p.timer = t /\ p.cookie = c /\ p.refs = n
        /\ p.result = f.result /\ p.callers = f.callers /\ p.authorize = f.authorize
        /\ p.nonce = f.nonce /\ p.pipe = f.pipe /\ p.live = f.live
        /\ p.connected = f.connected /\ p.initialized = f.initialized /\ p.disposed = f.disposed
    BY <2>0, GrantedSession, SMTT(40)
  <2> HIDE DEF p
  <2>2. Counted(p)
    BY <1>3, <1>6, <2>1 DEF Counted, One
  <2>3. ~q.disposed /\ q.pipe \in {"open", "ending"} => Tended(p)
    BY <1>3, <1>6, <2>1 DEF Tended
  <2> QED BY <1>3, <2>1, <2>2, <2>3 DEF p
<1>7. /\ 0 \in 0..MaxPrompts /\ f.nonce \in 0..MaxPrompts /\ f \in Session
      /\ TRUE \in BOOLEAN /\ FALSE \in BOOLEAN /\ 1 \in Nat /\ 2 \in Nat /\ 3 \in Nat
      /\ "client" \in {"none", "process", "client", "idle"}
      /\ "idle" \in {"none", "process", "client", "idle"}
  BY <1>3, AuthAssumption
<1>8. CASE f.authorize = "x-conversation"
  <2> DEFINE g == Granted(f, f.nonce, "client", FALSE, 2)
             h == Granted(f, f.nonce, "idle", TRUE, 3)
             k == Granted(f, f.nonce, "idle", TRUE, 2)
             j == Granted(f, f.nonce, "client", FALSE, 1)
  <2>1. Converse(f) = g
    <3>1. Converse(f) = [f EXCEPT !.conversation = f.nonce, !.timer = "client", !.refs = f.refs + 1]
      BY <1>7, <1>8 DEF Converse, Ref, Session
    <3>3. f.refs + 1 = 2
      BY <1>3
    <3>2. [f EXCEPT !.conversation = f.nonce, !.timer = "client", !.refs = 2]
            = Granted(f, f.nonce, "client", f.cookie, 2)
      BY <1>7 DEF Granted, Session
    <3> QED BY <1>5, <3>1, <3>2, <3>3
  <2>2. g.initialized = f.initialized /\ g.refs = 2 /\ h.refs = 3
    <3>1. g.initialized = f.initialized /\ g.refs = 2
      BY <1>7 DEF Granted, Session
    <3>2. h.refs = 3
      BY <1>7 DEF Granted, Session
    <3> QED BY <3>1, <3>2
  <2>3. /\ [Ref([g EXCEPT !.timer = "idle"]) EXCEPT !.cookie = TRUE] = h
        /\ [h EXCEPT !.refs = 2] = k /\ [g EXCEPT !.refs = 1] = j
    <3>1. [Ref([g EXCEPT !.timer = "idle"]) EXCEPT !.cookie = TRUE]
            = Granted(f, f.nonce, "idle", TRUE, g.refs + 1)
      BY <1>7 DEF Granted, Session, Ref
    <3>4. g.refs + 1 = 3
      <4>1. g.refs = 2
        BY <1>7 DEF Granted, Session
      <4> HIDE DEF g
      <4> QED BY <4>1
    <3>2. [h EXCEPT !.refs = 2] = k
      BY <1>7 DEF Granted, Session
    <3>3. [g EXCEPT !.refs = 1] = j
      BY <1>7 DEF Granted, Session
    <3> QED BY <3>1, <3>2, <3>3, <3>4
  <2>4. CASE f.initialized
    <3>1. /\ k \in Session /\ Counted(k) /\ k.result = NoLogin /\ k.live
          /\ ~q.disposed /\ q.pipe \in {"open", "ending"} => Tended(k)
      <4>1. 2 = One(TRUE) + One(f.nonce # 0)
        BY <1>3, <1>8 DEF One
      <4>2. 2 # 0 /\ "idle" # "none"
        OBVIOUS
      <4> QED BY <1>6, <1>7, <2>4, <4>1, <4>2, Zenon
    <3> HIDE DEF g, h, k
    <3>2. Finished(q) = h
      BY <1>4, <2>1, <2>2, <2>3, <2>4
    <3>3. Unref(h) = k
      BY <2>2, <2>3 DEF Unref
    <3> QED BY <3>1, <3>2, <3>3
  <2>5. CASE ~f.initialized
    <3>1. /\ j \in Session /\ Counted(j) /\ j.result = NoLogin /\ j.live
          /\ ~q.disposed /\ q.pipe \in {"open", "ending"} => Tended(j)
      <4>1. 1 = One(FALSE) + One(f.nonce # 0)
        BY <1>3, <1>8 DEF One
      <4>2. 1 # 0 /\ "client" # "none" /\ "client" # "idle"
        OBVIOUS
      <4> QED BY <1>6, <1>7, <2>5, <4>1, <4>2, Zenon
    <3> HIDE DEF g, j
    <3>2. Finished(q) = g
      BY <1>4, <2>1, <2>2, <2>5
    <3>3. Unref(g) = j
      BY <2>2, <2>3 DEF Unref
    <3> QED BY <3>1, <3>2, <3>3
  <2> QED BY <2>4, <2>5
<1>9. CASE f.authorize # "x-conversation"
  <2>1. Converse(f) = f
    BY <1>9 DEF Converse
  <2>2. CASE f.initialized
    <3> DEFINE h == Granted(f, 0, "idle", TRUE, 2)
               k == Granted(f, 0, "idle", TRUE, 1)
    <3>0. f.conversation = 0
      BY <1>3
    <3>1. h.refs = 2 /\ [h EXCEPT !.refs = 1] = k
          /\ [Ref([f EXCEPT !.timer = "idle"]) EXCEPT !.cookie = TRUE] = h
      <4>1. h.refs = 2
        BY <1>7 DEF Granted, Session
      <4>2. [h EXCEPT !.refs = 1] = k
        BY <1>7 DEF Granted, Session
      <4>3. [Ref([f EXCEPT !.timer = "idle"]) EXCEPT !.cookie = TRUE]
              = Granted(f, f.conversation, "idle", TRUE, f.refs + 1)
        BY <1>7 DEF Granted, Session, Ref
      <4>4. f.refs + 1 = 2
        BY <1>3
      <4> QED BY <3>0, <4>1, <4>2, <4>3, <4>4
    <3>2. /\ k \in Session /\ Counted(k) /\ k.result = NoLogin /\ k.live
          /\ ~q.disposed /\ q.pipe \in {"open", "ending"} => Tended(k)
      <4>1. 1 = One(TRUE) + One(0 # 0)
        BY DEF One
      <4>2. 1 # 0 /\ "idle" # "none"
        OBVIOUS
      <4> QED BY <1>6, <1>7, <2>2, <4>1, <4>2, Zenon
    <3> HIDE DEF h, k
    <3>3. Finished(q) = h
      BY <1>4, <2>1, <2>2, <3>1
    <3>4. Unref(h) = k
      BY <3>1 DEF Unref
    <3> QED BY <3>2, <3>3, <3>4
  <2>3. CASE ~f.initialized
    <3>1. Finished(q) = f
      BY <1>4, <2>1, <2>3
    <3>2. Unref(f) = Freed(f)
      BY <1>3 DEF Unref
    <3> QED BY <1>3, <2>3, <3>1, <3>2, FreedCounted
  <2> QED BY <2>2, <2>3
<1> QED BY <1>8, <1>9
\* The sessions on the way there.
LEMMA FinishedTypes ==
  ASSUME NEW q \in Session, Counted(q), q.result # NoLogin
  PROVE  /\ Converse(Forget([q EXCEPT !.result = NoLogin])) \in Session
         /\ Finished(q) \in Session
<1> DEFINE r == [q EXCEPT !.result = NoLogin]
           f == Bare(r, 1)
           c == Converse(f)
<1>1. r \in Session /\ r.refs = One(r.cookie) + One(r.conversation # 0) + 1
  BY ResultOff DEF Counted, One
<1> HIDE DEF r
<1>2. Forget(r) = f /\ f \in Session
  BY <1>1, BareSession, ForgetKeeps
<1> HIDE DEF f
<1>3. c \in Session
  <2>1. f.refs + 1 \in Nat /\ f.nonce \in 0..MaxPrompts
    BY <1>2, SessionFields
  <2>2. CASE f.authorize = "x-conversation"
    <3>1. c = [f EXCEPT !.conversation = f.nonce, !.timer = "client", !.refs = f.refs + 1]
      BY <1>2, <2>2 DEF Converse, Ref, Session
    <3> HIDE DEF c
    <3> QED BY <1>2, <2>1, <3>1, ZenonT(60) DEF Session
  <2>3. CASE f.authorize # "x-conversation"
    BY <1>2, <2>3 DEF Converse
  <2> QED BY <2>2, <2>3
<1> HIDE DEF c
<1>4. [Ref([c EXCEPT !.timer = "idle"]) EXCEPT !.cookie = TRUE] \in Session
  <2>1. c.refs + 1 \in Nat
    BY <1>3, SessionFields
  <2>2. [Ref([c EXCEPT !.timer = "idle"]) EXCEPT !.cookie = TRUE]
          = [c EXCEPT !.timer = "idle", !.refs = c.refs + 1, !.cookie = TRUE]
    BY <1>3 DEF Session, Ref
  <2>3. \A n \in Nat, t \in {"none", "process", "client", "idle"}, d \in BOOLEAN :
          [c EXCEPT !.timer = t, !.refs = n, !.cookie = d] \in Session
    BY <1>3 DEF Session
  <2> QED BY <2>1, <2>2, <2>3
<1> QED BY <1>2, <1>3, <1>4 DEF c, r, Finished

-----------------------------------------------------------------------------
(* A CockpitAuth. *)

With(a, s, q) == [a EXCEPT !.session[s] = q]

LEMMA WithAuth ==
  ASSUME NEW a \in AuthType, NEW s \in Sessions, NEW q \in Session
  PROVE  /\ With(a, s, q) \in AuthType
         /\ With(a, s, q).session = [a.session EXCEPT ![s] = q] /\ With(a, s, q).session[s] = q
         /\ With(a, s, q).login = a.login /\ With(a, s, q).startups = a.startups
         /\ With(a, s, q).dangling = a.dangling
<1>1. With(a, s, q) \in AuthType
  BY DEF With, AuthType
<1>2. /\ With(a, s, q).session = [a.session EXCEPT ![s] = q] /\ With(a, s, q).session[s] = q
      /\ With(a, s, q).login = a.login /\ With(a, s, q).startups = a.startups
  BY DEF With, AuthType
<1>3. With(a, s, q).dangling = a.dangling
  BY DEF With, AuthType
<1> QED BY <1>1, <1>2, <1>3

LEMMA IdlingAuth ==
  ASSUME NEW a \in AuthType, NEW s \in Sessions
  PROVE  /\ Idling(a, s) \in AuthType
         /\ Idling(a, s).session = [a.session EXCEPT ![s] = [@ EXCEPT !.timer = "idle"]]
         /\ Idling(a, s).login = a.login /\ Idling(a, s).startups = a.startups
         /\ Idling(a, s).dangling = a.dangling
<1> DEFINE q == [a.session[s] EXCEPT !.timer = "idle"]
<1>1. q \in Session
  BY DEF AuthType, Session
<1>2. Idling(a, s) = [a EXCEPT !.session = [a.session EXCEPT ![s] = q], !.timeout = TRUE]
  BY DEF Idling, AuthType
<1> HIDE DEF q
<1>3. Idling(a, s) \in AuthType
  BY <1>1, <1>2, ZenonT(60) DEF AuthType
<1>4. /\ Idling(a, s).session = [a.session EXCEPT ![s] = q]
      /\ Idling(a, s).login = a.login /\ Idling(a, s).startups = a.startups
  BY <1>2 DEF AuthType
<1>5. Idling(a, s).dangling = a.dangling
  BY <1>2 DEF AuthType
<1> QED BY <1>3, <1>4, <1>5 DEF q

\* A request is answered.
LEMMA AnsweredAuth ==
  ASSUME NEW a \in AuthType, NEW l \in Logins, NEW answer \in {"ok", "challenge", "error"}
  PROVE  LET b == Answered(a, l, answer)
         IN /\ b \in AuthType /\ b.session = a.session /\ b.startups = a.startups - 1
            /\ b.dangling = a.dangling
            /\ \A k \in Logins \ {l} : b.login[k] = a.login[k]
            /\ b.login[l].state = "done" /\ b.login[l].answers = a.login[l].answers + 1
<1> DEFINE b == Answered(a, l, answer)
           r == [a.login[l] EXCEPT !.state = "done", !.answer = answer, !.answers = @ + 1]
<1>1. a.login[l] \in LoginType
  BY DEF AuthType
<1>2. r \in LoginType /\ r.state = "done" /\ r.answers = a.login[l].answers + 1
  <2> DEFINE q == a.login[l]
             n == q.answers + 1
  <2>1. q \in LoginType /\ n \in Nat
    BY <1>1 DEF LoginType
  <2>2. r = [q EXCEPT !.state = "done", !.answer = answer, !.answers = n]
    OBVIOUS
  <2> HIDE DEF q, n, r
  <2> QED BY <2>1, <2>2 DEF LoginType, n, q
<1>3. b = [a EXCEPT !.startups = a.startups - 1, !.login = [a.login EXCEPT ![l] = r]]
  <2> HIDE DEF r
  <2>1. b = [a EXCEPT !.startups = @ - 1, !.login[l] = r]
    BY Zenon DEF Answered, r
  <2> QED BY <2>1 DEF AuthType
<1> HIDE DEF r, b
<1>4. b \in AuthType
  <2> DEFINE n == a.startups - 1
             logins == [a.login EXCEPT ![l] = r]
  <2>1. n \in Int /\ logins \in [Logins -> LoginType]
    BY <1>2 DEF AuthType
  <2> HIDE DEF n, logins
  <2> QED BY <1>3, <2>1 DEF AuthType, n, logins
<1>5. /\ b.session = a.session /\ b.startups = a.startups - 1
      /\ b.login = [a.login EXCEPT ![l] = r]
  BY <1>3 DEF AuthType
<1>6. b.dangling = a.dangling
  BY <1>3 DEF AuthType
<1>7. (\A k \in Logins \ {l} : b.login[k] = a.login[k]) /\ b.login[l] = r
  BY <1>5 DEF AuthType
<1> QED BY <1>2, <1>4, <1>5, <1>6, <1>7 DEF b

\* A result is completed: its request is answered and the session p no longer waits for one.
LEMMA Settled ==
  ASSUME NEW a, NEW b \in AuthType, Books(a), NEW s \in Sessions, NEW p \in Session,
         NEW l \in Logins, a.session[s].result = l, p.result = NoLogin,
         b.session = [a.session EXCEPT ![s] = p], b.dangling = a.dangling,
         b.startups = a.startups - 1,
         \A k \in Logins \ {l} : b.login[k] = a.login[k],
         b.login[l].state = "done", b.login[l].answers = a.login[l].answers + 1
  PROVE  Books(b)
<1>1. /\ a \in AuthType /\ l # NoLogin /\ Paired(a) /\ ~a.dangling
      /\ a.startups = Cardinality(Unanswered(a))
  BY AuthAssumption DEF Books
<1>2. /\ \A t \in Sessions \ {s} : b.session[t] = a.session[t]
      /\ b.session[s] = p
  BY <1>1 DEF AuthType
<1>3. a.login[l].state = "pending" /\ a.login[l].session = s /\ a.login[l].answers = 0
  BY <1>1 DEF Paired, One
<1>4. Paired(b)
  <2>1. ASSUME NEW t \in Sessions, b.session[t].result # NoLogin
        PROVE  LET r == b.login[b.session[t].result] IN r.state = "pending" /\ r.session = t
    <3>1. t # s /\ b.session[t] = a.session[t]
      BY <1>2, <2>1
    <3>2. a.session[t].result \in Logins
      BY <1>1, <2>1, <3>1, SessionFields DEF AuthType
    <3>3. a.login[a.session[t].result].state = "pending" /\ a.login[a.session[t].result].session = t
      BY <1>1, <2>1, <3>1 DEF Paired
    <3> QED BY <1>3, <3>1, <3>2, <3>3
  <2>2. ASSUME NEW k \in Logins
        PROVE  LET r == b.login[k]
               IN /\ r.state = "pending" => r.session \in Sessions /\ b.session[r.session].result = k
                  /\ r.state \in {"idle", "due"} => r.session = NoSession
                  /\ r.answers = One(r.state = "done")
    <3>1. CASE k = l
      BY <1>3, <3>1 DEF One
    <3>2. CASE k # l
      <4>1. b.login[k] = a.login[k]
        BY <3>2
      <4>2. /\ a.login[k].state = "pending" => a.login[k].session \in Sessions /\ a.session[a.login[k].session].result = k
            /\ a.login[k].state \in {"idle", "due"} => a.login[k].session = NoSession
            /\ a.login[k].answers = One(a.login[k].state = "done")
        BY <1>1 DEF Paired
      <4>3. a.login[k].state = "pending" => a.login[k].session # s
        BY <3>2, <4>2
      <4> QED BY <1>2, <4>1, <4>2, <4>3
    <3> QED BY <3>1, <3>2
  <2> QED BY <2>1, <2>2 DEF Paired
<1>5. b.startups = Cardinality(Unanswered(b))
  <2>1. Unanswered(b) = Unanswered(a) \ {l} /\ l \in Unanswered(a)
    BY <1>3 DEF Unanswered
  <2>2. IsFiniteSet(Unanswered(a))
    BY AuthAssumption, FS_Subset DEF Unanswered
  <2> DEFINE U == Unanswered(a)
  <2>3. Cardinality(U \ {l}) = Cardinality(U) - 1
    <3> HIDE DEF U
    <3>1. IsFiniteSet(U) /\ l \in U
      BY <2>1, <2>2 DEF U
    <3> QED BY <3>1, FS_RemoveElement
  <2> QED BY <1>1, <2>1, <2>3
<1> QED BY <1>1, <1>4, <1>5 DEF Books

\* Only the state of a session changes.
LEMMA Adjusted ==
  ASSUME NEW a, NEW b \in AuthType, Books(a), NEW s \in Sessions, NEW p \in Session,
         p.result = a.session[s].result,
         b.session = [a.session EXCEPT ![s] = p], b.dangling = a.dangling,
         b.startups = a.startups, b.login = a.login
  PROVE  Books(b)
<1>1. /\ a \in AuthType /\ Paired(a) /\ ~a.dangling /\ a.startups = Cardinality(Unanswered(a))
  BY DEF Books
<1>2. \A t \in Sessions : b.session[t].result = a.session[t].result
  BY <1>1 DEF AuthType
<1>3. Paired(b)
  BY <1>1, <1>2 DEF Paired
<1>4. Unanswered(b) = Unanswered(a)
  BY DEF Unanswered
<1> QED BY <1>1, <1>3, <1>4 DEF Books

\* Complete(): the request is answered, and its session freed or held by the tables.
LEMMA CompleteBooks ==
  ASSUME NEW a, Books(a), NEW s \in Sessions, Counted(a.session[s]), a.session[s].result # NoLogin
  PROVE  LET q == a.session[s]
             b == Complete(a, s)
             p == IF a.login[q.result].error THEN Unref([q EXCEPT !.result = NoLogin])
                  ELSE Unref(Finished(q))
         IN /\ Books(b) /\ b.session = [a.session EXCEPT ![s] = p]
            /\ \A k \in Logins \ {q.result} : b.login[k] = a.login[k]
            /\ b.login[q.result].state = "done"
<1> DEFINE q == a.session[s]
           l == q.result
           r == [q EXCEPT !.result = NoLogin]
           b == Complete(a, s)
           e == a.login[l].error
           p == IF e THEN Unref(r) ELSE Unref(Finished(q))
           a0 == With(a, s, r)
<1>1. a \in AuthType /\ q \in Session /\ l \in Logins /\ Counted(q) /\ q.result # NoLogin
  <2>1. a \in AuthType /\ q \in Session
    BY DEF Books, AuthType
  <2> QED BY <2>1, SessionFields
<1>2. a.login[l].session = s
  BY DEF Books, Paired
<1>3. r \in Session
  BY <1>1, ResultOff
<1>4. p \in Session /\ p.result = NoLogin
  BY <1>1, ErrorFrees, FinishedHeld
<1>5. /\ a0 \in AuthType /\ a0.session = [a.session EXCEPT ![s] = r] /\ a0.session[s] = r
      /\ a0.login = a.login /\ a0.startups = a.startups /\ a0.dangling = a.dangling
  BY <1>1, <1>3, WithAuth
<1> DEFINE c == IF e THEN Answered(a0, l, "error") ELSE Finish(a0, l)
<1>6. b = With(c, s, Unref(c.session[s]))
  BY <1>1 DEF Complete, With
<1> HIDE DEF a0, r
<1>7. /\ c \in AuthType /\ c.session = [a.session EXCEPT ![s] = IF e THEN r ELSE Finished(q)]
      /\ c.dangling = a.dangling /\ c.startups = a.startups - 1
      /\ \A k \in Logins \ {l} : c.login[k] = a.login[k]
      /\ c.login[l].state = "done" /\ c.login[l].answers = a.login[l].answers + 1
  <2>1. CASE e
    <3>1. c = Answered(a0, l, "error")
      BY <2>1
    <3>2. a0 \in AuthType /\ l \in Logins /\ "error" \in {"ok", "challenge", "error"}
      BY <1>1, <1>5
    <3> HIDE DEF c, l, e
    <3>3. /\ c \in AuthType /\ c.session = a0.session /\ c.startups = a0.startups - 1
          /\ c.dangling = a0.dangling
          /\ \A k \in Logins \ {l} : c.login[k] = a0.login[k]
          /\ c.login[l].state = "done" /\ c.login[l].answers = a0.login[l].answers + 1
      BY <3>1, <3>2, AnsweredAuth
    <3> QED BY <1>5, <2>1, <3>3
  <2>2. CASE ~e
    <3> DEFINE f == Converse(Forget(r))
               b1 == With(a0, s, f)
               b2 == IF f.initialized THEN LoggedIn(b1, s) ELSE b1
               x == IF f.initialized THEN "ok"
                    ELSE IF f.authorize = "none" THEN "error" ELSE "challenge"
    <3>1. f \in Session /\ Finished(q) \in Session
      BY <1>1, FinishedTypes DEF r
    <3>2. c = Answered(b2, l, x)
      BY <1>2, <1>5, <2>2 DEF Finish, With
    <3>3. /\ b1 \in AuthType /\ b1.session = [a0.session EXCEPT ![s] = f] /\ b1.session[s] = f
          /\ b1.login = a0.login /\ b1.startups = a0.startups /\ b1.dangling = a0.dangling
      <4> HIDE DEF f
      <4> QED BY <1>5, <3>1, WithAuth
    <3>4. Finished(q) = IF f.initialized
                        THEN [Ref([f EXCEPT !.timer = "idle"]) EXCEPT !.cookie = TRUE] ELSE f
      BY DEF Finished, r
    <3> HIDE DEF f, b1
    <3>5. /\ b2 \in AuthType /\ b2.session = [a.session EXCEPT ![s] = Finished(q)]
          /\ b2.login = a.login /\ b2.startups = a.startups /\ b2.dangling = a.dangling
      <4>1. CASE f.initialized
        <5> DEFINE i == Idling(b1, s)
        <5>1. /\ i \in AuthType /\ i.session = [b1.session EXCEPT ![s] = [f EXCEPT !.timer = "idle"]]
              /\ i.login = b1.login /\ i.startups = b1.startups /\ i.dangling = b1.dangling
          BY <3>3, IdlingAuth
        <5>2. LoggedIn(b1, s) = With(i, s, [Ref(i.session[s]) EXCEPT !.cookie = TRUE])
          BY DEF LoggedIn, With
        <5> HIDE DEF i
        <5>3. i.session[s] = [f EXCEPT !.timer = "idle"]
          BY <3>3, <5>1 DEF AuthType
        <5>4. b2 = With(i, s, Finished(q))
          BY <3>4, <4>1, <5>2, <5>3
        <5> HIDE DEF b2
        <5>5. /\ b2 \in AuthType /\ b2.session = [i.session EXCEPT ![s] = Finished(q)]
              /\ b2.login = i.login /\ b2.startups = i.startups /\ b2.dangling = i.dangling
          BY <3>1, <5>1, <5>4, WithAuth
        <5>6. [i.session EXCEPT ![s] = Finished(q)] = [a.session EXCEPT ![s] = Finished(q)]
          BY <1>1, <1>5, <3>3, <5>1 DEF AuthType
        <5> QED BY <1>5, <3>3, <5>1, <5>5, <5>6
      <4>2. CASE ~f.initialized
        <5>1. b2 = b1 /\ Finished(q) = f
          BY <3>4, <4>2
        <5>2. [a0.session EXCEPT ![s] = f] = [a.session EXCEPT ![s] = f]
          BY <1>1, <1>5 DEF AuthType
        <5> QED BY <1>5, <3>3, <5>1, <5>2
      <4> QED BY <4>1, <4>2
    <3>6. x \in {"ok", "challenge", "error"}
      OBVIOUS
    <3> HIDE DEF c, b2, x, l, e
    <3>7. l \in Logins /\ b2 \in AuthType
      BY <1>1, <3>5 DEF l
    <3>8. /\ c \in AuthType /\ c.session = b2.session /\ c.startups = b2.startups - 1
          /\ c.dangling = b2.dangling
          /\ \A k \in Logins \ {l} : c.login[k] = b2.login[k]
          /\ c.login[l].state = "done" /\ c.login[l].answers = b2.login[l].answers + 1
      <4> DEFINE d == Answered(b2, l, x)
      <4>1. /\ d \in AuthType /\ d.session = b2.session /\ d.startups = b2.startups - 1
            /\ d.dangling = b2.dangling
            /\ \A k \in Logins \ {l} : d.login[k] = b2.login[k]
            /\ d.login[l].state = "done" /\ d.login[l].answers = b2.login[l].answers + 1
        BY <3>6, <3>7, AnsweredAuth
      <4> HIDE DEF d
      <4> QED BY <3>2, <4>1 DEF d
    <3> QED BY <2>2, <3>5, <3>8
  <2> QED BY <2>1, <2>2
<1> HIDE DEF c
<1>8. c.session[s] = IF e THEN r ELSE Finished(q)
  BY <1>1, <1>7 DEF AuthType
<1>9. b = With(c, s, p)
  BY <1>6, <1>8
<1> HIDE DEF p, b
<1>10. /\ b \in AuthType /\ b.session = [c.session EXCEPT ![s] = p]
       /\ b.login = c.login /\ b.startups = c.startups /\ b.dangling = c.dangling
  BY <1>4, <1>7, <1>9, WithAuth
<1>11. b.session = [a.session EXCEPT ![s] = p]
  BY <1>1, <1>7, <1>10 DEF AuthType
<1>12. Books(b)
  <2> HIDE DEF l
  <2>1. a.session[s].result = l
    BY DEF l
  <2> QED BY <1>1, <1>4, <1>7, <1>10, <1>11, <2>1, Settled
<1> QED BY <1>7, <1>10, <1>11, <1>12 DEF b, p, r

\* From a to b nothing changes but the session s and requests that are answered.
Touches(a, b, s) ==
  /\ \A t \in Sessions \ {s} : b.session[t] = a.session[t]
  /\ \A k \in Logins : b.login[k] = a.login[k] \/ b.login[k].state = "done"

LEMMA WithBooks ==
  ASSUME NEW a, Books(a), NEW s \in Sessions, NEW p \in Session, p.result = a.session[s].result
  PROVE  Books(With(a, s, p)) /\ Touches(a, With(a, s, p), s) /\ With(a, s, p).session[s] = p
<1> DEFINE b == With(a, s, p)
<1>1. a \in AuthType
  BY DEF Books
<1>2. /\ b \in AuthType /\ b.session = [a.session EXCEPT ![s] = p] /\ b.session[s] = p
      /\ b.login = a.login /\ b.startups = a.startups /\ b.dangling = a.dangling
  BY <1>1, WithAuth
<1> HIDE DEF b
<1>3. Books(b)
  BY <1>2, Adjusted
<1>4. Touches(a, b, s)
  BY <1>1, <1>2 DEF Touches, AuthType
<1> QED BY <1>2, <1>3, <1>4 DEF b

\* cockpit_session_reset(): the session is freed, and was there to the end.
LEMMA ResetFrees ==
  ASSUME NEW a, Books(a), NEW s \in Sessions, Counted(a.session[s]), a.session[s].live,
         a.session[s].result # NoLogin =>
           a.session[s].initialized /\ ~a.login[a.session[s].result].error
  PROVE  LET b == Reset(a, s)
         IN /\ Books(b) /\ Touches(a, b, s)
            /\ Counted(b.session[s]) /\ Tended(b.session[s]) /\ ~b.session[s].live
<1> DEFINE q == a.session[s]
           c == CompleteAny(a, s)
           p == c.session[s]
<1>1. a \in AuthType /\ q \in Session
  BY DEF Books, AuthType
<1>2. /\ Books(c) /\ Touches(a, c, s)
      /\ p \in Session /\ Counted(p) /\ p.live /\ p.result = NoLogin
  <2>1. CASE q.result = NoLogin
    <3>1. c = a
      BY <2>1 DEF CompleteAny
    <3> QED BY <1>1, <2>1, <3>1 DEF Touches
  <2>2. CASE q.result # NoLogin
    <3> DEFINE h == Unref(Finished(q))
    <3>1. c = Complete(a, s)
      BY <2>2 DEF CompleteAny
    <3>2. /\ Books(c) /\ c.session = [a.session EXCEPT ![s] = h]
          /\ \A k \in Logins \ {q.result} : c.login[k] = a.login[k]
          /\ c.login[q.result].state = "done"
      <4> DEFINE d == Complete(a, s)
                 j == IF a.login[q.result].error THEN Unref([q EXCEPT !.result = NoLogin]) ELSE h
      <4>1. /\ Books(d) /\ d.session = [a.session EXCEPT ![s] = j]
            /\ \A k \in Logins \ {q.result} : d.login[k] = a.login[k]
            /\ d.login[q.result].state = "done"
        BY <2>2, CompleteBooks
      <4>2. j = h
        BY <2>2
      <4> HIDE DEF d, h, j
      <4> QED BY <3>1, <4>1, <4>2 DEF d
    <3>3. h \in Session /\ Counted(h) /\ h.live /\ h.result = NoLogin
      BY <1>1, <2>2, FinishedHeld
    <3> HIDE DEF h, c
    <3>4. p = h /\ Touches(a, c, s)
      BY <1>1, <3>2 DEF AuthType, Touches
    <3> QED BY <3>2, <3>3, <3>4
  <2> QED BY <2>1, <2>2
<1> DEFINE g == Forget(p)
<1>3. Reset(a, s) = With(c, s, g)
  BY <1>2 DEF Reset, With
<1>4. g \in Session /\ Counted(g) /\ Tended(g) /\ ~g.live /\ g.result = NoLogin
  BY <1>2, ForgetFrees
<1> HIDE DEF c, g
<1>5. Books(With(c, s, g)) /\ Touches(c, With(c, s, g), s) /\ With(c, s, g).session[s] = g
  BY <1>2, <1>4, WithBooks
<1>6. Touches(a, With(c, s, g), s)
  <2>1. \A k \in Logins : With(c, s, g).login[k] = c.login[k]
    <3>1. c \in AuthType /\ g \in Session
      BY <1>2, <1>4 DEF Books
    <3>2. With(c, s, g).login = c.login
      BY <3>1, WithAuth, ZenonT(60)
    <3> QED BY <3>2
  <2> QED BY <1>2, <1>5, <2>1 DEF Touches
<1> QED BY <1>3, <1>4, <1>5, <1>6

\* The result is given an error.
LEMMA ErrorMarked ==
  ASSUME NEW a, Books(a), NEW l \in Logins
  PROVE  LET b == [a EXCEPT !.login[l] = [@ EXCEPT !.error = TRUE]]
         IN /\ Books(b) /\ b.session = a.session /\ b.login[l].error
            /\ \A k \in Logins \ {l} : b.login[k] = a.login[k]
<1> DEFINE r == [a.login[l] EXCEPT !.error = TRUE]
           b == [a EXCEPT !.login[l] = r]
<1>1. a \in AuthType /\ a.login[l] \in LoginType
  BY DEF Books, AuthType
<1>2. r \in LoginType /\ r.error
  BY <1>1 DEF LoginType
<1>3. /\ r.state = a.login[l].state /\ r.session = a.login[l].session
      /\ r.answers = a.login[l].answers
  BY <1>1 DEF LoginType
<1> HIDE DEF r
<1>4. b \in AuthType /\ b.session = a.session /\ b.startups = a.startups
  BY <1>1, <1>2 DEF AuthType
<1>5. b.dangling = a.dangling
  BY <1>1 DEF AuthType
<1>6. b.login[l] = r /\ \A k \in Logins \ {l} : b.login[k] = a.login[k]
  BY <1>1 DEF AuthType
<1>7. [a EXCEPT !.login[l] = [@ EXCEPT !.error = TRUE]] = b
  BY DEF r
<1> HIDE DEF b
<1>8. \A k \in Logins : /\ b.login[k].state = a.login[k].state
                        /\ b.login[k].session = a.login[k].session
                        /\ b.login[k].answers = a.login[k].answers
  BY <1>3, <1>6
<1>9. Paired(b)
  <2>1. Paired(a)
    BY DEF Books
  <2>2. \A t \in Sessions : b.session[t].result # NoLogin => b.session[t].result \in Logins
    BY <1>1, <1>4, SessionFields DEF AuthType
  <2> QED BY <1>4, <1>8, <2>1, <2>2 DEF Paired
<1>10. Unanswered(b) = Unanswered(a)
  BY <1>8 DEF Unanswered
<1>11. Books(b)
  BY <1>4, <1>5, <1>9, <1>10 DEF Books
<1> QED BY <1>2, <1>4, <1>6, <1>7, <1>11

LEMMA TouchesTransitive ==
  ASSUME NEW a, NEW b, NEW c, NEW s \in Sessions, Touches(a, b, s), Touches(b, c, s)
  PROVE  Touches(a, c, s)
BY DEF Touches

\* The service of a session is disposed: if there is a session, it has been initialized, and
\* is freed now.
LEMMA DisposedFrees ==
  ASSUME NEW a, Books(a), NEW s \in Sessions, Counted(a.session[s]),
         a.session[s].live => a.session[s].initialized /\ ~a.session[s].disposed,
         a.session[s].result # NoLogin => ~a.login[a.session[s].result].error
  PROVE  LET b == Disposed(a, s)
         IN /\ Books(b) /\ Touches(a, b, s) /\ Counted(b.session[s]) /\ ~b.session[s].live
<1> DEFINE q == a.session[s]
<1>1. a \in AuthType /\ q \in Session
  BY DEF Books, AuthType
<1>2. CASE q.disposed
  BY <1>2 DEF Disposed, Touches
<1>3. CASE ~q.disposed
  <2> DEFINE p == [q EXCEPT !.disposed = TRUE, !.pipe = Closing(q.pipe)]
             b == With(a, s, p)
  <2>1. Disposed(a, s) = IF b.session[s].live THEN Reset(Idling(b, s), s) ELSE b
    BY <1>3 DEF Disposed, With
  <2>2. p \in Session
    <3>1. Closing(q.pipe) \in {"none", "open", "ending", "closed"}
      BY <1>1, SessionFields DEF Closing
    <3>2. \A x \in {"none", "open", "ending", "closed"}, d \in BOOLEAN :
            [q EXCEPT !.disposed = d, !.pipe = x] \in Session
      BY <1>1 DEF Session
    <3> QED BY <3>1, <3>2
  <2>3. /\ p.conversation = q.conversation /\ p.timer = q.timer /\ p.refs = q.refs
        /\ p.callers = q.callers /\ p.authorize = q.authorize /\ p.nonce = q.nonce
        /\ p.result = q.result
    BY <1>1 DEF Session
  <2>4. /\ p.live = q.live /\ p.cookie = q.cookie
        /\ p.connected = q.connected /\ p.initialized = q.initialized
    BY <1>1, Zenon DEF Session
  <2> HIDE DEF p
  <2>5. Books(b) /\ Touches(a, b, s) /\ b.session[s] = p
    BY <2>2, <2>3, WithBooks
  <2>6. b.login = a.login
    BY <1>1 DEF With, AuthType
  <2>7. Counted(p)
    BY <2>3, <2>4 DEF Counted
  <2> HIDE DEF b
  <2>8. CASE ~q.live
    BY <2>1, <2>4, <2>5, <2>7, <2>8
  <2>9. CASE q.live
    <3> DEFINE c == Idling(b, s)
               r == [p EXCEPT !.timer = "idle"]
    <3>1. Disposed(a, s) = Reset(c, s)
      BY <2>1, <2>4, <2>5, <2>9
    <3>2. b \in AuthType
      BY <2>5 DEF Books
    <3>3. /\ c \in AuthType /\ c.session = [b.session EXCEPT ![s] = r]
          /\ c.login = b.login /\ c.startups = b.startups /\ c.dangling = b.dangling
      <4>1. /\ c \in AuthType /\ c.session = [b.session EXCEPT ![s] = [@ EXCEPT !.timer = "idle"]]
            /\ c.login = b.login /\ c.startups = b.startups /\ c.dangling = b.dangling
        BY <3>2, IdlingAuth
      <4> QED BY <2>5, <4>1
    <3>4. r \in Session /\ r.result = p.result
          /\ r.conversation = p.conversation /\ r.timer = "idle" /\ r.refs = p.refs
          /\ r.callers = p.callers /\ r.authorize = p.authorize /\ r.nonce = p.nonce
      BY <2>2 DEF Session
    <3>5. /\ r.live = p.live /\ r.cookie = p.cookie
          /\ r.connected = p.connected /\ r.initialized = p.initialized
      BY <2>2, Zenon DEF Session
    <3> HIDE DEF c, r
    <3>6. Counted(r) /\ r.live /\ r.initialized
      BY <2>4, <2>7, <2>9, <3>4, <3>5 DEF Counted
    <3>7. c.session[s] = r /\ Touches(b, c, s)
      BY <3>2, <3>3 DEF AuthType, Touches
    <3>8. Books(c)
      BY <2>5, <3>3, <3>4, Adjusted
    <3>9. r.result # NoLogin => ~c.login[r.result].error
      BY <2>3, <2>6, <3>3, <3>4
    <3>10. LET d == Reset(c, s)
           IN Books(d) /\ Touches(c, d, s) /\ Counted(d.session[s]) /\ ~d.session[s].live
      BY <3>6, <3>7, <3>8, <3>9, ResetFrees
    <3> QED BY <2>5, <3>1, <3>7, <3>10, TouchesTransitive
  <2> QED BY <2>8, <2>9
<1> QED BY <1>2, <1>3

\* on_transport_closed() of the session: one that waits for its process's init is freed.
LEMMA ClosedFrees ==
  ASSUME NEW a, Books(a), NEW s \in Sessions, Counted(a.session[s]),
         a.session[s].live => ~a.session[s].disposed,
         a.session[s].result # NoLogin => ~a.login[a.session[s].result].error
  PROVE  LET b == ClosedForLogin(a, s)
             p == b.session[s]
         IN /\ Books(b) /\ Touches(a, b, s) /\ Counted(p)
            /\ p.live => p.initialized /\ ~p.disposed
            /\ p.result # NoLogin => ~b.login[p.result].error
<1> DEFINE q == a.session[s]
           b == ClosedForLogin(a, s)
<1>1. a \in AuthType /\ q \in Session
  BY DEF Books, AuthType
<1>2. CASE ~q.connected
  <2>1. b = a
    BY <1>2 DEF ClosedForLogin
  <2>2. q.live => q.initialized
    BY <1>2 DEF Counted
  <2>3. Touches(a, a, s)
    BY DEF Touches
  <2> QED BY <2>1, <2>2, <2>3
<1>3. CASE q.connected /\ q.result = NoLogin
  <2>1. b = Reset(a, s) /\ q.live
    BY <1>3 DEF ClosedForLogin, Counted
  <2>2. Books(b) /\ Touches(a, b, s) /\ Counted(b.session[s]) /\ ~b.session[s].live
    BY <1>3, <2>1, ResetFrees
  <2> HIDE DEF b
  <2>3. b.session[s].result = NoLogin
    BY <2>2 DEF Counted, One
  <2> QED BY <2>2, <2>3 DEF b
<1>4. CASE q.connected /\ q.result # NoLogin
  <2> DEFINE l == q.result
             c == [a EXCEPT !.login[l] = [@ EXCEPT !.error = TRUE]]
             p == Unref([q EXCEPT !.result = NoLogin])
  <2>1. b = Complete(c, s)
    BY <1>4 DEF ClosedForLogin
  <2>2. l \in Logins /\ l # NoLogin
    BY <1>1, <1>4, SessionFields
  <2>3. /\ Books(c) /\ c.session = a.session /\ c.login[l].error
        /\ \A k \in Logins \ {l} : c.login[k] = a.login[k]
    BY <2>2, ErrorMarked
  <2> HIDE DEF c
  <2>4. /\ Books(b) /\ b.session = [a.session EXCEPT ![s] = p]
        /\ \A k \in Logins \ {l} : b.login[k] = c.login[k]
        /\ b.login[l].state = "done"
    <3> DEFINE d == Complete(c, s)
               j == IF c.login[l].error THEN p ELSE Unref(Finished(q))
    <3>1. /\ Books(d) /\ d.session = [c.session EXCEPT ![s] = j]
          /\ \A k \in Logins \ {l} : d.login[k] = c.login[k]
          /\ d.login[l].state = "done"
      BY <1>4, <2>3, CompleteBooks
    <3>2. j = p
      BY <2>3
    <3> HIDE DEF d, j, p
    <3> QED BY <2>1, <2>3, <3>1, <3>2 DEF d
  <2>5. p \in Session /\ Counted(p) /\ ~p.live /\ p.result = NoLogin
    BY <1>1, <1>4, ErrorFrees
  <2> HIDE DEF b, p
  <2>6. b.session[s] = p /\ Touches(a, b, s)
    BY <1>1, <2>3, <2>4 DEF AuthType, Touches
  <2> QED BY <2>4, <2>5, <2>6 DEF b
<1> QED BY <1>2, <1>3, <1>4

\* A request is begun, and refused.
LEMMA RefusedBooks ==
  ASSUME Books(auth), NEW l \in Logins, auth.login[l].state = "idle"
  PROVE  LET b == Refused(Begun(l), l)
         IN /\ Books(b) /\ b.session = auth.session /\ b.login[l].state = "due"
            /\ \A k \in Logins \ {l} : b.login[k] = auth.login[k]
<1> DEFINE r == [auth.login[l] EXCEPT !.state = "due", !.error = TRUE]
           b == Refused(Begun(l), l)
<1>1. auth \in AuthType /\ auth.login[l] \in LoginType /\ Paired(auth)
  BY DEF Books, AuthType
<1>2. r \in LoginType
  <2>1. \A e \in BOOLEAN : [auth.login[l] EXCEPT !.state = "due", !.error = e] \in LoginType
    BY <1>1 DEF LoginType
  <2> QED BY <2>1
<1>3. r.state = "due" /\ r.session = NoSession /\ r.answers = 0
  <2>1. r.state = "due" /\ r.session = auth.login[l].session /\ r.answers = auth.login[l].answers
    BY <1>1 DEF LoginType
  <2> QED BY <1>1, <2>1 DEF Paired, One
<1>4. b = [auth EXCEPT !.startups = auth.startups + 1, !.login = [auth.login EXCEPT ![l] = r]]
  BY <1>1 DEF Refused, Begun, AuthType
<1> HIDE DEF r, b
<1>5. b \in AuthType /\ b.session = auth.session /\ b.startups = auth.startups + 1
      /\ b.login = [auth.login EXCEPT ![l] = r]
  <2> DEFINE n == auth.startups + 1
             logins == [auth.login EXCEPT ![l] = r]
  <2>1. n \in Int /\ logins \in [Logins -> LoginType]
    BY <1>1, <1>2 DEF AuthType
  <2> HIDE DEF n, logins
  <2> QED BY <1>1, <1>4, <2>1 DEF AuthType, n, logins
<1>6. b.dangling = auth.dangling
  BY <1>1, <1>4 DEF AuthType
<1>7. b.login[l] = r /\ \A k \in Logins \ {l} : b.login[k] = auth.login[k]
  BY <1>1, <1>5 DEF AuthType
<1>8. Paired(b)
  <2>1. ASSUME NEW t \in Sessions, b.session[t].result # NoLogin
        PROVE  LET x == b.login[b.session[t].result] IN x.state = "pending" /\ x.session = t
    <3>1. auth.session[t].result \in Logins
      BY <1>1, <1>5, <2>1, SessionFields DEF AuthType
    <3>2. auth.login[auth.session[t].result].state = "pending" /\ auth.login[auth.session[t].result].session = t
      BY <1>1, <1>5, <2>1 DEF Paired
    <3> QED BY <1>5, <1>7, <3>1, <3>2
  <2>2. ASSUME NEW k \in Logins
        PROVE  LET x == b.login[k]
               IN /\ x.state = "pending" => x.session \in Sessions /\ b.session[x.session].result = k
                  /\ x.state \in {"idle", "due"} => x.session = NoSession
                  /\ x.answers = One(x.state = "done")
    <3>1. CASE k = l
      BY <1>3, <1>7, <3>1 DEF One
    <3>2. CASE k # l
      BY <1>1, <1>5, <1>7, <3>2 DEF Paired
    <3> QED BY <3>1, <3>2
  <2> QED BY <2>1, <2>2 DEF Paired
<1>9. b.startups = Cardinality(Unanswered(b))
  <2> DEFINE U == Unanswered(auth)
  <2>1. Unanswered(b) = U \cup {l} /\ l \notin U
    BY <1>3, <1>7 DEF Unanswered
  <2>2. IsFiniteSet(U)
    BY AuthAssumption, FS_Subset DEF Unanswered
  <2>3. auth.startups = Cardinality(U)
    BY DEF Books
  <2> HIDE DEF U
  <2>4. Cardinality(U \cup {l}) = Cardinality(U) + 1
    BY <2>1, <2>2, FS_AddElement
  <2> QED BY <1>5, <2>1, <2>3, <2>4
<1>10. Books(b)
  BY <1>5, <1>6, <1>8, <1>9 DEF Books
<1> QED BY <1>3, <1>5, <1>7, <1>10 DEF b

\* A request is begun, and waits for the session s, which is p from now on.
Pending(l, s, p) ==
  [auth EXCEPT !.startups = auth.startups + 1, !.session = [auth.session EXCEPT ![s] = p],
               !.login = [auth.login EXCEPT
                            ![l] = [auth.login[l] EXCEPT !.state = "pending", !.session = s]]]

LEMMA PendingBooks ==
  ASSUME Books(auth), NEW l \in Logins, auth.login[l].state = "idle", NEW s \in Sessions,
         NEW p \in Session, p.result = l, auth.session[s].result = NoLogin,
         NEW b, b = Pending(l, s, p)
  PROVE  /\ Books(b) /\ b.session = [auth.session EXCEPT ![s] = p]
         /\ b.login[l].state = "pending" /\ b.login[l].error = auth.login[l].error
         /\ \A k \in Logins \ {l} : b.login[k] = auth.login[k]
<1> DEFINE r == [auth.login[l] EXCEPT !.state = "pending", !.session = s]
<1>1. auth \in AuthType /\ auth.login[l] \in LoginType /\ Paired(auth) /\ l # NoLogin
  BY AuthAssumption DEF Books, AuthType
<1>2. r \in LoginType /\ r.state = "pending" /\ r.session = s /\ r.answers = auth.login[l].answers
  BY <1>1 DEF LoginType
<1>3. r.answers = 0
  BY <1>1, <1>2 DEF Paired, One
<1>4. r.error = auth.login[l].error
  BY <1>1, Zenon DEF LoginType
<1> HIDE DEF r
<1>5. /\ b \in AuthType /\ b.session = [auth.session EXCEPT ![s] = p]
      /\ b.startups = auth.startups + 1 /\ b.login = [auth.login EXCEPT ![l] = r]
  <2> DEFINE n == auth.startups + 1
             logins == [auth.login EXCEPT ![l] = r]
             sessions == [auth.session EXCEPT ![s] = p]
  <2>1. n \in Int /\ logins \in [Logins -> LoginType] /\ sessions \in [Sessions -> Session]
    BY <1>1, <1>2 DEF AuthType
  <2>2. b = [auth EXCEPT !.startups = n, !.session = sessions, !.login = logins]
    BY DEF r, Pending
  <2> HIDE DEF n, logins, sessions
  <2> QED BY <1>1, <2>1, <2>2 DEF AuthType, n, logins, sessions
<1>6. b.dangling = auth.dangling
  BY <1>1 DEF AuthType, Pending
<1>7. /\ b.login[l] = r /\ \A k \in Logins \ {l} : b.login[k] = auth.login[k]
      /\ b.session[s] = p /\ \A t \in Sessions \ {s} : b.session[t] = auth.session[t]
  BY <1>1, <1>5 DEF AuthType
<1>8. Paired(b)
  <2>1. ASSUME NEW t \in Sessions, b.session[t].result # NoLogin
        PROVE  LET x == b.login[b.session[t].result] IN x.state = "pending" /\ x.session = t
    <3>1. CASE t = s
      BY <1>2, <1>7, <3>1
    <3>2. CASE t # s
      <4>1. b.session[t] = auth.session[t]
        BY <1>7, <3>2
      <4>2. auth.session[t].result \in Logins
        BY <1>1, <2>1, <4>1, SessionFields DEF AuthType
      <4>3. auth.login[auth.session[t].result].state = "pending" /\ auth.login[auth.session[t].result].session = t
        BY <1>1, <2>1, <4>1 DEF Paired
      <4> QED BY <1>7, <4>1, <4>2, <4>3
    <3> QED BY <3>1, <3>2
  <2>2. ASSUME NEW k \in Logins
        PROVE  LET x == b.login[k]
               IN /\ x.state = "pending" => x.session \in Sessions /\ b.session[x.session].result = k
                  /\ x.state \in {"idle", "due"} => x.session = NoSession
                  /\ x.answers = One(x.state = "done")
    <3>1. CASE k = l
      <4>1. b.login[k].state = "pending" /\ b.login[k].session = s /\ b.login[k].answers = 0
        BY <1>2, <1>3, <1>7, <3>1
      <4>2. b.session[s].result = k
        BY <1>7, <3>1
      <4>3. One(b.login[k].state = "done") = 0
        BY <4>1 DEF One
      <4> QED BY <4>1, <4>2, <4>3
    <3>2. CASE k # l
      <4>1. b.login[k] = auth.login[k]
        BY <1>7, <3>2
      <4>2. /\ auth.login[k].state = "pending" => auth.login[k].session \in Sessions /\ auth.session[auth.login[k].session].result = k
            /\ auth.login[k].state \in {"idle", "due"} => auth.login[k].session = NoSession
            /\ auth.login[k].answers = One(auth.login[k].state = "done")
        BY <1>1 DEF Paired
      <4>3. auth.login[k].state = "pending" => auth.login[k].session # s
        BY <4>2, AuthAssumption
      <4> QED BY <1>7, <4>1, <4>2, <4>3
    <3> QED BY <3>1, <3>2
  <2> QED BY <2>1, <2>2 DEF Paired
<1>9. b.startups = Cardinality(Unanswered(b))
  <2> DEFINE U == Unanswered(auth)
  <2>1. Unanswered(b) = U \cup {l} /\ l \notin U
    BY <1>2, <1>7 DEF Unanswered
  <2>2. IsFiniteSet(U)
    BY AuthAssumption, FS_Subset DEF Unanswered
  <2>3. auth.startups = Cardinality(U)
    BY DEF Books
  <2> HIDE DEF U
  <2>4. Cardinality(U \cup {l}) = Cardinality(U) + 1
    BY <2>1, <2>2, FS_AddElement
  <2> QED BY <1>5, <2>1, <2>3, <2>4
<1>10. Books(b)
  BY <1>5, <1>6, <1>8, <1>9 DEF Books
<1> QED BY <1>2, <1>4, <1>5, <1>7, <1>10
-----------------------------------------------------------------------------
(* The actions. *)

\* A step that touches the session s, and leaves it as it should be.
LEMMA Kept ==
  ASSUME AuthInv, NEW s \in Sessions, Books(auth'), Touches(auth, auth', s),
         Counted(auth'.session[s]), Tended(auth'.session[s]),
         given' \subseteq Sessions \X (1..MaxPrompts), used' \subseteq given'
  PROVE  AuthInv'
<1>1. \A t \in Sessions : Counted(auth'.session[t]) /\ Tended(auth'.session[t])
  BY DEF AuthInv, Touches
<1>2. \A l \in Logins : auth'.login[l].state \in {"idle", "pending"} => ~auth'.login[l].error
  BY DEF AuthInv, Touches
<1> QED BY <1>1, <1>2 DEF AuthInv, Books, AuthType, Paired, Unanswered, Counted, Tended

\* ... if the session is all that changes.
LEMMA KeptWith ==
  ASSUME AuthInv, NEW s \in Sessions, NEW p \in Session, auth' = With(auth, s, p),
         p.result = auth.session[s].result, Counted(p), Tended(p), UNCHANGED <<given, used>>
  PROVE  AuthInv'
<1>1. Books(auth)
  BY DEF AuthInv
<1>2. Books(With(auth, s, p)) /\ Touches(auth, With(auth, s, p), s) /\ With(auth, s, p).session[s] = p
  BY <1>1, WithBooks
<1> QED BY <1>2, Kept DEF AuthInv

LEMMA InvSession ==
  ASSUME AuthInv, NEW s \in Sessions
  PROVE  /\ auth.session[s] \in Session /\ Counted(auth.session[s]) /\ Tended(auth.session[s])
         /\ auth.session[s].result # NoLogin =>
              /\ auth.session[s].result \in Logins
              /\ ~auth.login[auth.session[s].result].error
<1>1. auth.session[s] \in Session /\ Counted(auth.session[s]) /\ Tended(auth.session[s])
  BY DEF AuthInv, Books, AuthType
<1>2. auth.session[s].result # NoLogin => auth.session[s].result \in Logins
  BY <1>1, SessionFields
<1>3. auth.session[s].result # NoLogin => auth.login[auth.session[s].result].state = "pending"
  BY DEF AuthInv, Books, Paired
<1> QED BY <1>1, <1>2, <1>3 DEF AuthInv

\* reply_authorize_challenge() with what the client sent.
LEMMA ProcessAsksInv ==
  ASSUME AuthInv, NEW s \in Sessions, ProcessAsks(s)
  PROVE  AuthInv'
<1> DEFINE q == auth.session[s]
           p == [q EXCEPT !.authorize = "*", !.authorization = FALSE, !.process = "working"]
<1>1. auth' = With(auth, s, p) /\ UNCHANGED <<given, used>>
  BY DEF ProcessAsks, With
<1>2. q \in Session /\ Counted(q) /\ Tended(q)
  BY InvSession
<1>3. p \in Session
  <2>1. \A b \in BOOLEAN :
          [q EXCEPT !.authorize = "*", !.authorization = b, !.process = "working"] \in Session
    BY <1>2 DEF Session
  <2> QED BY <2>1
<1>4. /\ p.conversation = q.conversation /\ p.timer = q.timer /\ p.refs = q.refs
      /\ p.callers = q.callers /\ p.authorize = "*" /\ p.result = q.result /\ p.pipe = q.pipe
  BY <1>2 DEF Session
<1>5. /\ p.live = q.live /\ p.cookie = q.cookie /\ p.disposed = q.disposed
      /\ p.connected = q.connected /\ p.initialized = q.initialized
  BY <1>2, Zenon DEF Session
<1> HIDE DEF p
<1>6. Counted(p) /\ Tended(p)
  BY <1>2, <1>4, <1>5 DEF Counted, Tended
<1> QED BY <1>1, <1>3, <1>4, <1>6, KeptWith

\* on_authorize_timeout(): without a timer, the session is one whose process is being ended.
LEMMA AuthorizeTimeoutInv ==
  ASSUME AuthInv, NEW s \in Sessions, AuthorizeTimeout(s)
  PROVE  AuthInv'
<1> DEFINE q == auth.session[s]
           pipe == Closing(q.pipe)
           p == [q EXCEPT !.timer = "none", !.pipe = pipe]
<1>1. auth' = With(auth, s, p) /\ UNCHANGED <<given, used>>
  BY DEF AuthorizeTimeout, With
<1>2. q \in Session /\ Counted(q) /\ Tended(q)
  BY InvSession
<1>3. pipe \in {"none", "open", "ending", "closed"}
      /\ (q.pipe \in {"open", "ending"} => pipe = "ending")
  BY <1>2, SessionFields DEF Closing
<1> HIDE DEF pipe
<1>4. /\ p \in Session /\ p.conversation = q.conversation /\ p.timer = "none" /\ p.refs = q.refs
      /\ p.callers = q.callers /\ p.authorize = q.authorize /\ p.result = q.result /\ p.pipe = pipe
      /\ p.nonce = q.nonce
  BY <1>2, <1>3 DEF Session
<1>5. /\ p.live = q.live /\ p.cookie = q.cookie /\ p.disposed = q.disposed
      /\ p.connected = q.connected /\ p.initialized = q.initialized
  BY <1>2, Zenon DEF Session
<1> HIDE DEF p
<1>6. Counted(p) /\ Tended(p)
  BY <1>2, <1>3, <1>4, <1>5 DEF Counted, Tended
<1> QED BY <1>1, <1>4, <1>6, KeptWith

\* cockpit_auth_check_cookie()
LEMMA SocketOpensInv ==
  ASSUME AuthInv, NEW s \in Sessions, SocketOpens(s)
  PROVE  AuthInv'
<1> DEFINE q == auth.session[s]
           n == q.callers + 1
           p == [q EXCEPT !.callers = n]
<1>1. auth' = With(auth, s, p) /\ UNCHANGED <<given, used>> /\ q.cookie /\ q.callers < MaxCallers
  BY DEF SocketOpens, With
<1>2. q \in Session /\ Counted(q) /\ Tended(q)
  BY InvSession
<1>3. n \in 0..MaxCallers /\ n > 0
  BY <1>1, <1>2, SessionFields, AuthAssumption
<1> HIDE DEF n
<1>4. /\ p \in Session /\ p.conversation = q.conversation /\ p.timer = q.timer /\ p.refs = q.refs
      /\ p.callers = n /\ p.authorize = q.authorize /\ p.result = q.result /\ p.pipe = q.pipe
      /\ p.nonce = q.nonce
  BY <1>2, <1>3 DEF Session
<1>5. /\ p.live = q.live /\ p.cookie = q.cookie /\ p.disposed = q.disposed
      /\ p.connected = q.connected /\ p.initialized = q.initialized
  BY <1>2, Zenon DEF Session
<1> HIDE DEF p
<1>6. Counted(p) /\ Tended(p)
  <2>1. q.initialized
    BY <1>1, <1>2 DEF Counted
  <2>2. Counted(p)
    BY <1>2, <1>4, <1>5, <2>1 DEF Counted
  <2>3. Tended(p)
    BY <1>2, <1>3, <1>4, <1>5 DEF Tended
  <2> QED BY <2>2, <2>3
<1> QED BY <1>1, <1>4, <1>6, KeptWith

\* caller_end(): the last caller leaves the session its idle timer.
LEMMA SocketClosesInv ==
  ASSUME AuthInv, NEW s \in Sessions, SocketCloses(s)
  PROVE  AuthInv'
<1> DEFINE q == auth.session[s]
           n == q.callers - 1
           p == [q EXCEPT !.callers = n]
           a == With(auth, s, p)
<1>1. auth' = SocketEnds(a, s) /\ UNCHANGED <<given, used>> /\ q.callers > 0
  BY DEF SocketCloses, With
<1>2. q \in Session /\ Counted(q) /\ Tended(q)
  BY InvSession
<1>3. n \in 0..MaxCallers
  BY <1>1, <1>2, SessionFields, AuthAssumption
<1> HIDE DEF n
<1>4. /\ p \in Session /\ p.conversation = q.conversation /\ p.timer = q.timer /\ p.refs = q.refs
      /\ p.callers = n /\ p.authorize = q.authorize /\ p.result = q.result /\ p.pipe = q.pipe
      /\ p.nonce = q.nonce
  BY <1>2, <1>3 DEF Session
<1>5. /\ p.live = q.live /\ p.cookie = q.cookie /\ p.disposed = q.disposed
      /\ p.connected = q.connected /\ p.initialized = q.initialized
  BY <1>2, Zenon DEF Session
<1> HIDE DEF p
<1>6. Counted(p) /\ (n = 0 => q.initialized)
  BY <1>1, <1>2, <1>4, <1>5 DEF Counted
<1>7. Books(auth) /\ auth \in AuthType
  BY DEF AuthInv, Books
<1>8. Books(a) /\ Touches(auth, a, s) /\ a.session[s] = p
  BY <1>4, <1>7, WithBooks
<1> HIDE DEF a
<1>9. CASE ~(n = 0 /\ p.live)
  <2>1. auth' = a
    BY <1>1, <1>4, <1>8, <1>9 DEF SocketEnds
  <2>2. Tended(p)
    BY <1>2, <1>3, <1>4, <1>5, <1>9 DEF Tended
  <2> QED BY <1>1, <1>6, <1>8, <2>1, <2>2, Kept DEF AuthInv
<1>10. CASE n = 0 /\ p.live
  <2> DEFINE r == [p EXCEPT !.timer = "idle"]
             c == Idling(a, s)
  <2>1. auth' = c
    BY <1>1, <1>4, <1>8, <1>10 DEF SocketEnds
  <2>2. a \in AuthType
    BY <1>8 DEF Books
  <2>3. /\ c \in AuthType /\ c.session = [a.session EXCEPT ![s] = [@ EXCEPT !.timer = "idle"]]
        /\ c.login = a.login /\ c.startups = a.startups /\ c.dangling = a.dangling
    BY <2>2, IdlingAuth
  <2>4. r \in Session /\ r.result = p.result
        /\ r.conversation = p.conversation /\ r.timer = "idle" /\ r.refs = p.refs
        /\ r.callers = p.callers /\ r.authorize = p.authorize /\ r.nonce = p.nonce
        /\ r.pipe = p.pipe
    BY <1>4 DEF Session
  <2>5. /\ r.live = p.live /\ r.cookie = p.cookie /\ r.disposed = p.disposed
        /\ r.connected = p.connected /\ r.initialized = p.initialized
    BY <1>4, Zenon DEF Session
  <2>6. c.session = [a.session EXCEPT ![s] = r]
    BY <1>8, <2>3
  <2> HIDE DEF r, c
  <2>7. Counted(r)
    BY <1>5, <1>6, <1>10, <2>4, <2>5 DEF Counted
  <2>8. Tended(r)
    BY <1>2, <1>4, <1>5, <2>4, <2>5 DEF Tended
  <2>9. Books(c)
    BY <1>8, <2>3, <2>4, <2>6, Adjusted
  <2>10. c.session[s] = r /\ Touches(auth, c, s)
    BY <1>8, <2>2, <2>3, <2>6 DEF AuthType, Touches
  <2> QED BY <1>1, <2>1, <2>7, <2>8, <2>9, <2>10, Kept DEF AuthInv
<1> QED BY <1>9, <1>10

\* on_session_timeout()
LEMMA SessionTimeoutInv ==
  ASSUME AuthInv, NEW s \in Sessions, SessionTimeout(s)
  PROVE  AuthInv'
<1> DEFINE q == auth.session[s]
           p == [q EXCEPT !.timer = "none"]
           a == With(auth, s, p)
<1>1. /\ auth' = IF a.session[s].callers = 0 THEN Reset(a, s) ELSE a
      /\ UNCHANGED <<given, used>> /\ q.timer = "idle"
  BY DEF SessionTimeout, With
<1>2. q \in Session /\ Counted(q) /\ Tended(q)
  BY InvSession
<1>3. /\ p \in Session /\ p.conversation = q.conversation /\ p.timer = "none" /\ p.refs = q.refs
      /\ p.callers = q.callers /\ p.authorize = q.authorize /\ p.result = q.result
      /\ p.pipe = q.pipe /\ p.nonce = q.nonce
  BY <1>2 DEF Session
<1>4. /\ p.live = q.live /\ p.cookie = q.cookie /\ p.disposed = q.disposed
      /\ p.connected = q.connected /\ p.initialized = q.initialized
  BY <1>2, Zenon DEF Session
<1> HIDE DEF p
<1>5. Counted(p) /\ p.live /\ p.initialized
  BY <1>1, <1>2, <1>3, <1>4 DEF Counted
<1>6. Books(auth) /\ auth \in AuthType
  BY DEF AuthInv, Books
<1>7. Books(a) /\ Touches(auth, a, s) /\ a.session[s] = p
  BY <1>3, <1>6, WithBooks
<1>8. a.login = auth.login
  BY <1>6 DEF With, AuthType
<1> HIDE DEF a
<1>9. p.result # NoLogin => ~a.login[p.result].error
  BY <1>3, <1>8, InvSession
<1>10. CASE p.callers = 0
  <2> DEFINE b == Reset(a, s)
  <2>1. auth' = b
    BY <1>1, <1>7, <1>10
  <2>2. /\ Books(b) /\ Touches(a, b, s)
        /\ Counted(b.session[s]) /\ Tended(b.session[s]) /\ ~b.session[s].live
    BY <1>5, <1>7, <1>9, ResetFrees
  <2> HIDE DEF b
  <2>3. Touches(auth, b, s)
    BY <1>7, <2>2, TouchesTransitive
  <2> QED BY <1>1, <2>1, <2>2, <2>3, Kept DEF AuthInv
<1>11. CASE p.callers # 0
  <2>1. auth' = a
    BY <1>1, <1>7, <1>11
  <2>2. p.callers \in 0..MaxCallers
    BY <1>3, SessionFields
  <2>3. Tended(p)
    BY <1>2, <1>3, <1>4, <1>11, <2>2 DEF Tended
  <2> QED BY <1>1, <1>5, <1>7, <2>1, <2>3, Kept DEF AuthInv
<1> QED BY <1>10, <1>11

\* process_logout()
LEMMA LogoutInv ==
  ASSUME AuthInv, NEW s \in Sessions, Logout(s)
  PROVE  AuthInv'
<1> DEFINE q == auth.session[s]
           b == Disposed(auth, s)
<1>1. auth' = b /\ UNCHANGED <<given, used>> /\ q.callers > 0 /\ ~q.disposed
  BY DEF Logout
<1>2. Counted(q) /\ q.initialized /\ (q.result # NoLogin => ~auth.login[q.result].error)
  BY <1>1, InvSession DEF Counted
<1>3. Books(auth)
  BY DEF AuthInv
<1>4. Books(b) /\ Touches(auth, b, s) /\ Counted(b.session[s]) /\ ~b.session[s].live
  BY <1>1, <1>2, <1>3, DisposedFrees
<1> HIDE DEF b
<1>5. Tended(b.session[s])
  BY <1>4 DEF Tended
<1> QED BY <1>1, <1>4, <1>5, Kept DEF AuthInv

\* The transport of a session is closed: no session survives it.
LEMMA TransportClosedInv ==
  ASSUME AuthInv, NEW s \in Sessions, TransportClosed(s)
  PROVE  AuthInv'
<1> DEFINE q == auth.session[s]
           p == [q EXCEPT !.pipe = "closed", !.process = "gone"]
           a == With(auth, s, p)
           b == ClosedForLogin(a, s)
           c == Disposed(b, s)
<1>1. auth' = c /\ UNCHANGED <<given, used>>
  BY DEF TransportClosed, With
<1>2. q \in Session /\ Counted(q) /\ Tended(q)
  BY InvSession
<1>3. /\ p \in Session /\ p.conversation = q.conversation /\ p.timer = q.timer /\ p.refs = q.refs
      /\ p.callers = q.callers /\ p.authorize = q.authorize /\ p.result = q.result
      /\ p.nonce = q.nonce
  BY <1>2 DEF Session
<1>4. /\ p.live = q.live /\ p.cookie = q.cookie /\ p.disposed = q.disposed
      /\ p.connected = q.connected /\ p.initialized = q.initialized
  BY <1>2, Zenon DEF Session
<1> HIDE DEF p
<1>5. Counted(p) /\ (p.live => ~p.disposed)
  BY <1>2, <1>3, <1>4 DEF Counted, Tended
<1>6. Books(auth) /\ auth \in AuthType
  BY DEF AuthInv, Books
<1>7. Books(a) /\ Touches(auth, a, s) /\ a.session[s] = p
  BY <1>3, <1>6, WithBooks
<1>8. a.login = auth.login
  BY <1>6 DEF With, AuthType
<1> HIDE DEF a
<1>9. p.result # NoLogin => ~a.login[p.result].error
  BY <1>3, <1>8, InvSession
<1>10. /\ Books(b) /\ Touches(a, b, s) /\ Counted(b.session[s])
       /\ b.session[s].live => b.session[s].initialized /\ ~b.session[s].disposed
       /\ b.session[s].result # NoLogin => ~b.login[b.session[s].result].error
  BY <1>5, <1>7, <1>9, ClosedFrees
<1> HIDE DEF b
<1>11. Books(c) /\ Touches(b, c, s) /\ Counted(c.session[s]) /\ ~c.session[s].live
  BY <1>10, DisposedFrees
<1> HIDE DEF c
<1>12. Touches(auth, c, s) /\ Tended(c.session[s])
  BY <1>7, <1>10, <1>11, TouchesTransitive DEF Tended
<1> QED BY <1>1, <1>11, <1>12, Kept DEF AuthInv

\* on_process_timeout()
LEMMA ProcessTimeoutInv ==
  ASSUME AuthInv, ProcessTimeout
  PROVE  AuthInv'
<1> DEFINE x == \A s \in Sessions : ~auth.session[s].cookie
<1>1. auth' = [auth EXCEPT !.timeout = FALSE, !.quit = x] /\ UNCHANGED <<given, used>> /\ x \in BOOLEAN
  BY DEF ProcessTimeout
<1> HIDE DEF x
<1>2. auth \in AuthType
  BY DEF AuthInv, Books
<1>3. auth' \in AuthType
  <2>1. \A t, y \in BOOLEAN : [auth EXCEPT !.timeout = t, !.quit = y] \in AuthType
    BY <1>2 DEF AuthType
  <2> QED BY <1>1, <2>1
<1>4. /\ auth'.session = auth.session /\ auth'.login = auth.login
      /\ auth'.startups = auth.startups
  BY <1>1, <1>2 DEF AuthType
<1>5. auth'.dangling = auth.dangling
  BY <1>1, <1>2 DEF AuthType
<1>6. Books(auth')
  BY <1>3, <1>4, <1>5 DEF AuthInv, Books, Paired, Unanswered
<1>7. \A s \in Sessions : Counted(auth'.session[s]) /\ Tended(auth'.session[s])
  BY <1>4 DEF AuthInv
<1>8. \A l \in Logins : auth'.login[l].state \in {"idle", "pending"} => ~auth'.login[l].error
  BY <1>4 DEF AuthInv
<1> QED BY <1>1, <1>6, <1>7, <1>8
        DEF AuthInv, Books, AuthType, Paired, Unanswered, Counted, Tended

\* The idle callback of a request that was refused.
LEMMA LoginIdleInv ==
  ASSUME AuthInv, NEW l \in Logins, LoginIdle(l)
  PROVE  AuthInv'
<1>1. auth' = Answered(auth, l, "error") /\ UNCHANGED <<given, used>> /\ auth.login[l].state = "due"
  BY DEF LoginIdle
<1>2. auth \in AuthType /\ Paired(auth) /\ "error" \in {"ok", "challenge", "error"}
  BY DEF AuthInv, Books
<1>3. /\ auth' \in AuthType /\ auth'.session = auth.session /\ auth'.startups = auth.startups - 1
      /\ auth'.dangling = auth.dangling
      /\ \A k \in Logins \ {l} : auth'.login[k] = auth.login[k]
      /\ auth'.login[l].state = "done" /\ auth'.login[l].answers = auth.login[l].answers + 1
  BY <1>1, <1>2, AnsweredAuth
<1>4. auth.login[l].answers = 0
  BY <1>1, <1>2 DEF Paired, One
<1>5. Paired(auth')
  <2>1. ASSUME NEW t \in Sessions, auth'.session[t].result # NoLogin
        PROVE  LET r == auth'.login[auth'.session[t].result] IN r.state = "pending" /\ r.session = t
    <3>1. auth.session[t].result \in Logins
      BY <1>2, <1>3, <2>1, SessionFields DEF AuthType
    <3>2. auth.login[auth.session[t].result].state = "pending" /\ auth.login[auth.session[t].result].session = t
      BY <1>2, <1>3, <2>1 DEF Paired
    <3> QED BY <1>1, <1>3, <3>1, <3>2
  <2>2. ASSUME NEW k \in Logins
        PROVE  LET r == auth'.login[k]
               IN /\ r.state = "pending" => r.session \in Sessions /\ auth'.session[r.session].result = k
                  /\ r.state \in {"idle", "due"} => r.session = NoSession
                  /\ r.answers = One(r.state = "done")
    <3>1. CASE k = l
      BY <1>3, <1>4, <3>1 DEF One
    <3>2. CASE k # l
      BY <1>2, <1>3, <3>2 DEF Paired
    <3> QED BY <3>1, <3>2
  <2> QED BY <2>1, <2>2 DEF Paired
<1>6. auth'.startups = Cardinality(Unanswered(auth'))
  <2> DEFINE U == Unanswered(auth)
  <2>1. Unanswered(auth') = U \ {l} /\ l \in U
    BY <1>1, <1>3 DEF Unanswered
  <2>2. IsFiniteSet(U)
    BY AuthAssumption, FS_Subset DEF Unanswered
  <2>3. auth.startups = Cardinality(U)
    BY DEF AuthInv, Books
  <2>4. Cardinality(U \ {l}) = Cardinality(U) - 1
    <3> HIDE DEF U
    <3> QED BY <2>1, <2>2, FS_RemoveElement
  <2> QED BY <1>3, <2>1, <2>3, <2>4
<1>7. ~auth'.dangling
  BY <1>3 DEF AuthInv, Books
<1>8. \A s \in Sessions : Counted(auth'.session[s]) /\ Tended(auth'.session[s])
  BY <1>3 DEF AuthInv
<1>9. \A k \in Logins : auth'.login[k].state \in {"idle", "pending"} => ~auth'.login[k].error
  BY <1>3 DEF AuthInv
<1>10. Books(auth')
  BY <1>3, <1>5, <1>6, <1>7 DEF Books
<1> QED BY <1>1, <1>8, <1>9, <1>10
        DEF AuthInv, Books, AuthType, Paired, Unanswered, Counted, Tended

\* A result is completed while the process is there.
LEMMA CompleteKept ==
  ASSUME NEW a, Books(a), NEW s \in Sessions, Counted(a.session[s]), a.session[s].result # NoLogin,
         ~a.session[s].disposed, a.session[s].pipe \in {"open", "ending"}
  PROVE  LET b == Complete(a, s)
         IN /\ Books(b) /\ b.session[s] \in Session
            /\ Counted(b.session[s]) /\ Tended(b.session[s])
            /\ \A t \in Sessions \ {s} : b.session[t] = a.session[t]
            /\ \A k \in Logins \ {a.session[s].result} : b.login[k] = a.login[k]
            /\ b.login[a.session[s].result].state = "done"
<1> DEFINE q == a.session[s]
           b == Complete(a, s)
           x == a.login[q.result].error
           u == Unref([q EXCEPT !.result = NoLogin])
           v == Unref(Finished(q))
           p == IF x THEN u ELSE v
<1>1. a \in AuthType /\ q \in Session
  BY DEF Books, AuthType
<1>2. /\ Books(b) /\ b.session = [a.session EXCEPT ![s] = p]
      /\ \A k \in Logins \ {q.result} : b.login[k] = a.login[k]
      /\ b.login[q.result].state = "done"
  BY CompleteBooks
<1>3. u \in Session /\ Counted(u) /\ Tended(u)
  BY <1>1, ErrorFrees
<1>4. v \in Session /\ Counted(v) /\ Tended(v)
  BY <1>1, FinishedHeld
<1> HIDE DEF u, v, x
<1>5. p \in Session /\ Counted(p) /\ Tended(p)
  BY <1>3, <1>4
<1> HIDE DEF p, b
<1>6. b.session[s] = p /\ \A t \in Sessions \ {s} : b.session[t] = a.session[t]
  BY <1>1, <1>2 DEF AuthType
<1> QED BY <1>2, <1>5, <1>6 DEF b

\* The process prompts: the request goes back to the client.
LEMMA ProcessPromptsInv ==
  ASSUME AuthInv, NEW s \in Sessions, ProcessPrompts(s)
  PROVE  AuthInv'
<1> DEFINE q == auth.session[s]
           n == q.nonce + 1
           p == [q EXCEPT !.authorize = "x-conversation", !.nonce = n, !.process = "prompted"]
           a == With(auth, s, p)
<1>1. /\ auth' = CompleteAny(a, s) /\ q.nonce < MaxPrompts
      /\ given' \in {given, given \cup {<<s, n>>}} /\ used' = used
  BY DEF ProcessPrompts, With
<1>2. q \in Session /\ Counted(q) /\ Tended(q)
  BY InvSession
<1>3. n \in 0..MaxPrompts /\ n \in 1..MaxPrompts /\ n # 0
  BY <1>1, <1>2, SessionFields, AuthAssumption
<1>4. given' \subseteq Sessions \X (1..MaxPrompts) /\ used' \subseteq given'
  BY <1>1, <1>3 DEF AuthInv
<1> HIDE DEF n
<1>5. /\ p \in Session /\ p.conversation = q.conversation /\ p.timer = q.timer /\ p.refs = q.refs
      /\ p.callers = q.callers /\ p.result = q.result /\ p.pipe = q.pipe /\ p.nonce = n
  BY <1>2, <1>3 DEF Session
<1>6. /\ p.live = q.live /\ p.cookie = q.cookie /\ p.disposed = q.disposed
      /\ p.connected = q.connected /\ p.initialized = q.initialized
  BY <1>2, Zenon DEF Session
<1> HIDE DEF p
<1>7. Counted(p) /\ Tended(p)
  BY <1>2, <1>3, <1>5, <1>6 DEF Counted, Tended
<1>8. Books(auth) /\ auth \in AuthType
  BY DEF AuthInv, Books
<1>9. Books(a) /\ Touches(auth, a, s) /\ a.session[s] = p
  BY <1>5, <1>8, WithBooks
<1>10. a.login = auth.login
  BY <1>8 DEF With, AuthType
<1> HIDE DEF a
<1>11. CASE p.result = NoLogin
  <2>1. auth' = a
    BY <1>1, <1>9, <1>11 DEF CompleteAny
  <2> QED BY <1>4, <1>7, <1>9, <2>1, Kept
<1>12. CASE p.result # NoLogin
  <2> DEFINE b == Complete(a, s)
  <2>1. auth' = b
    BY <1>1, <1>9, <1>12 DEF CompleteAny
  <2>2. ~p.disposed /\ p.pipe \in {"open", "ending"}
    BY <1>7, <1>12, <1>5, SessionFields DEF Counted, Tended, One
  <2>3. /\ Books(b) /\ Counted(b.session[s]) /\ Tended(b.session[s])
        /\ \A t \in Sessions \ {s} : b.session[t] = a.session[t]
        /\ \A k \in Logins \ {p.result} : b.login[k] = a.login[k]
        /\ b.login[p.result].state = "done"
    BY <1>7, <1>9, <1>12, <2>2, CompleteKept
  <2> HIDE DEF b
  <2>4. Touches(auth, b, s)
    BY <1>9, <1>10, <2>3 DEF Touches
  <2> QED BY <1>4, <2>1, <2>3, <2>4, Kept
<1> QED BY <1>11, <1>12

\* A message that is not expected: the process is ended, and the request goes back to the client.
LEMMA ProcessErrsInv ==
  ASSUME AuthInv, NEW s \in Sessions, ProcessErrs(s)
  PROVE  AuthInv'
<1> DEFINE q == auth.session[s]
           p == [q EXCEPT !.pipe = "ending"]
           a == With(auth, s, p)
<1>1. auth' = CompleteAny(a, s) /\ q.connected /\ given' = given /\ used' \subseteq used
  BY DEF ProcessErrs, Talks, With
<1>2. q \in Session /\ Counted(q) /\ Tended(q)
  BY InvSession
<1>4. given' \subseteq Sessions \X (1..MaxPrompts) /\ used' \subseteq given'
  BY <1>1 DEF AuthInv
<1>5. /\ p \in Session /\ p.conversation = q.conversation /\ p.timer = q.timer /\ p.refs = q.refs
      /\ p.callers = q.callers /\ p.result = q.result /\ p.pipe = "ending"
      /\ p.nonce = q.nonce /\ p.authorize = q.authorize
  BY <1>2 DEF Session
<1>6. /\ p.live = q.live /\ p.cookie = q.cookie /\ p.disposed = q.disposed
      /\ p.connected = q.connected /\ p.initialized = q.initialized
  BY <1>2, Zenon DEF Session
<1> HIDE DEF p
<1>7. Counted(p) /\ Tended(p)
  BY <1>2, <1>5, <1>6 DEF Counted, Tended
<1>8. Books(auth) /\ auth \in AuthType
  BY DEF AuthInv, Books
<1>9. Books(a) /\ Touches(auth, a, s) /\ a.session[s] = p
  BY <1>5, <1>8, WithBooks
<1>10. a.login = auth.login
  BY <1>8 DEF With, AuthType
<1> HIDE DEF a
<1>11. CASE p.result = NoLogin
  <2>1. auth' = a
    BY <1>1, <1>9, <1>11 DEF CompleteAny
  <2> QED BY <1>4, <1>7, <1>9, <2>1, Kept
<1>12. CASE p.result # NoLogin
  <2> DEFINE b == Complete(a, s)
  <2>1. auth' = b
    BY <1>1, <1>9, <1>12 DEF CompleteAny
  <2>2. ~p.disposed /\ p.pipe \in {"open", "ending"}
    BY <1>1, <1>2, <1>5, <1>6 DEF Counted, Tended
  <2>3. /\ Books(b) /\ Counted(b.session[s]) /\ Tended(b.session[s])
        /\ \A t \in Sessions \ {s} : b.session[t] = a.session[t]
        /\ \A k \in Logins \ {p.result} : b.login[k] = a.login[k]
        /\ b.login[p.result].state = "done"
    BY <1>7, <1>9, <1>12, <2>2, CompleteKept
  <2> HIDE DEF b
  <2>4. Touches(auth, b, s)
    BY <1>9, <1>10, <2>3 DEF Touches
  <2> QED BY <1>4, <2>1, <2>3, <2>4, Kept
<1> QED BY <1>11, <1>12

\* The process is the bridge now, and its init is taken, refused or of a wrong version.
LEMMA ProcessInitsInv ==
  ASSUME AuthInv, NEW s \in Sessions, NEW how, ProcessInits(s, how)
  PROVE  AuthInv'
<1> DEFINE q == auth.session[s]
           r == q.result
           p == [q EXCEPT !.connected = FALSE, !.initialized = TRUE, !.process = "running"]
           a == With(auth, s, p)
           b == IF how = "problem" /\ r # NoLogin
                THEN [a EXCEPT !.login[r] = [@ EXCEPT !.error = TRUE]] ELSE a
           c == CompleteAny(b, s)
           d == IF how = "version" /\ ~c.session[s].disposed
                THEN [c EXCEPT !.session[s] = [@ EXCEPT !.pipe = "ending"]] ELSE c
<1>1. auth' = d /\ UNCHANGED <<given, used>> /\ q.connected
  BY DEF ProcessInits, Talks, With
<1>2. q \in Session /\ Counted(q) /\ Tended(q) /\ (r # NoLogin => r \in Logins)
  BY InvSession
<1>3. p \in Session
  <2>1. \A x, y \in BOOLEAN :
          [q EXCEPT !.connected = x, !.initialized = y, !.process = "running"] \in Session
    BY <1>2 DEF Session
  <2> QED BY <2>1
<1>4. /\ p.conversation = q.conversation /\ p.timer = q.timer /\ p.refs = q.refs
      /\ p.callers = q.callers /\ p.result = r /\ p.pipe = q.pipe /\ p.nonce = q.nonce
      /\ p.authorize = q.authorize
  BY <1>2 DEF Session
<1>5. p.live = q.live /\ p.cookie = q.cookie /\ p.disposed = q.disposed
  BY <1>2, Zenon DEF Session
<1>6. ~p.connected /\ p.initialized
  BY <1>2 DEF Session
<1> HIDE DEF p
<1>7. Counted(p) /\ Tended(p) /\ p.live
  BY <1>1, <1>2, <1>4, <1>5, <1>6 DEF Counted, Tended
<1>8. Books(auth) /\ auth \in AuthType
  BY DEF AuthInv, Books
<1>9. Books(a) /\ Touches(auth, a, s) /\ a.session[s] = p
  BY <1>3, <1>4, <1>8, WithBooks
<1>10. a.login = auth.login
  BY <1>8 DEF With, AuthType
<1> HIDE DEF a
<1>11. /\ Books(b) /\ b.session = a.session
       /\ \A k \in Logins : b.login[k] = auth.login[k] \/ (k = r /\ r # NoLogin)
  <2>1. CASE how = "problem" /\ r # NoLogin
    <3> DEFINE x == [a EXCEPT !.login[r] = [@ EXCEPT !.error = TRUE]]
    <3>1. Books(x) /\ x.session = a.session /\ \A k \in Logins \ {r} : x.login[k] = a.login[k]
      BY <1>2, <1>9, <2>1, ErrorMarked
    <3>2. b = x
      BY <2>1
    <3> HIDE DEF b, x
    <3> QED BY <1>10, <2>1, <3>1, <3>2
  <2>2. CASE ~(how = "problem" /\ r # NoLogin)
    <3>1. b = a
      BY <2>2
    <3> HIDE DEF b
    <3> QED BY <1>9, <1>10, <3>1
  <2> QED BY <2>1, <2>2
<1> HIDE DEF b
<1>12. /\ Books(c) /\ c.session[s] \in Session /\ Touches(auth, c, s)
       /\ Counted(c.session[s]) /\ Tended(c.session[s])
  <2>1. CASE r = NoLogin
    <3>1. c = b
      BY <1>4, <1>9, <1>11, <2>1 DEF CompleteAny
    <3>2. Touches(auth, b, s)
      BY <1>9, <1>11, <2>1 DEF Touches
    <3> QED BY <1>3, <1>7, <1>9, <1>11, <3>1, <3>2
  <2>2. CASE r # NoLogin
    <3> DEFINE e == Complete(b, s)
    <3>1. c = e /\ b.session[s] = p
      BY <1>4, <1>9, <1>11, <2>2 DEF CompleteAny
    <3>2. ~p.disposed /\ p.pipe \in {"open", "ending"}
      BY <1>7 DEF Tended
    <3>3. /\ Books(e) /\ e.session[s] \in Session
          /\ Counted(e.session[s]) /\ Tended(e.session[s])
          /\ \A t \in Sessions \ {s} : e.session[t] = b.session[t]
          /\ \A k \in Logins \ {r} : e.login[k] = b.login[k]
          /\ e.login[r].state = "done"
      BY <1>4, <1>7, <1>11, <2>2, <3>1, <3>2, CompleteKept
    <3> HIDE DEF e, c
    <3>4. Touches(auth, e, s)
      BY <1>9, <1>11, <3>3 DEF Touches
    <3> QED BY <3>1, <3>3, <3>4
  <2> QED BY <2>1, <2>2
<1> HIDE DEF c
<1>13. Books(d) /\ Touches(auth, d, s) /\ Counted(d.session[s]) /\ Tended(d.session[s])
  <2>1. CASE how = "version" /\ ~c.session[s].disposed
    <3> DEFINE g == c.session[s]
               h == [g EXCEPT !.pipe = "ending"]
    <3>1. d = With(c, s, h)
      BY <2>1 DEF With
    <3>2. /\ h \in Session /\ h.conversation = g.conversation /\ h.timer = g.timer
          /\ h.refs = g.refs /\ h.callers = g.callers /\ h.result = g.result
          /\ h.pipe = "ending" /\ h.nonce = g.nonce /\ h.authorize = g.authorize
      BY <1>12 DEF Session
    <3>3. /\ h.live = g.live /\ h.cookie = g.cookie /\ h.disposed = g.disposed
          /\ h.connected = g.connected /\ h.initialized = g.initialized
      BY <1>12, Zenon DEF Session
    <3> HIDE DEF h, d
    <3>4. Counted(h) /\ Tended(h)
      BY <1>12, <2>1, <3>2, <3>3 DEF Counted, Tended
    <3>5. Books(With(c, s, h)) /\ Touches(c, With(c, s, h), s) /\ With(c, s, h).session[s] = h
      BY <1>12, <3>2, WithBooks
    <3> QED BY <1>12, <3>1, <3>4, <3>5, TouchesTransitive
  <2>2. CASE ~(how = "version" /\ ~c.session[s].disposed)
    BY <1>12, <2>2
  <2> QED BY <2>1, <2>2
<1> HIDE DEF d
<1> QED BY <1>1, <1>13, Kept DEF AuthInv

\* A request that is refused waits for no session.
LEMMA RefusedInv ==
  ASSUME AuthInv, NEW l \in Logins, auth.login[l].state = "idle", auth' = Refused(Begun(l), l),
         given' = given, used' \subseteq given'
  PROVE  AuthInv'
<1> DEFINE b == Refused(Begun(l), l)
<1>1. Books(auth)
  BY DEF AuthInv
<1>2. /\ Books(b) /\ b.session = auth.session /\ b.login[l].state = "due"
      /\ \A k \in Logins \ {l} : b.login[k] = auth.login[k]
  BY <1>1, RefusedBooks
<1> HIDE DEF b
<1>3. auth' = b
  BY DEF b
<1>4. \A t \in Sessions : Counted(auth'.session[t]) /\ Tended(auth'.session[t])
  BY <1>2, <1>3 DEF AuthInv
<1>5. \A k \in Logins : auth'.login[k].state \in {"idle", "pending"} => ~auth'.login[k].error
  BY <1>2, <1>3 DEF AuthInv
<1> QED BY <1>2, <1>3, <1>4, <1>5
        DEF AuthInv, Books, AuthType, Paired, Unanswered, Counted, Tended

\* A request that waits for the session s, which is p now.
LEMMA PendingInv ==
  ASSUME AuthInv, NEW l \in Logins, auth.login[l].state = "idle", NEW s \in Sessions,
         NEW p \in Session, p.result = l, auth.session[s].result = NoLogin,
         Counted(p), Tended(p), auth' = Pending(l, s, p), given' = given, used' \subseteq given'
  PROVE  AuthInv'
<1> DEFINE b == Pending(l, s, p)
<1>1. Books(auth) /\ auth \in AuthType
  BY DEF AuthInv, Books
<1>2. /\ Books(b) /\ b.session = [auth.session EXCEPT ![s] = p]
      /\ b.login[l].state = "pending" /\ b.login[l].error = auth.login[l].error
      /\ \A k \in Logins \ {l} : b.login[k] = auth.login[k]
  BY <1>1, PendingBooks
<1> HIDE DEF b
<1>0. auth' = b
  BY DEF b
<1>3. \A t \in Sessions : Counted(auth'.session[t]) /\ Tended(auth'.session[t])
  BY <1>0, <1>1, <1>2 DEF AuthInv, AuthType
<1>4. \A k \in Logins : auth'.login[k].state \in {"idle", "pending"} => ~auth'.login[k].error
  BY <1>0, <1>2 DEF AuthInv
<1>5. Books(auth')
  BY <1>0, <1>2
<1>6. given' \subseteq Sessions \X (1..MaxPrompts) /\ used' \subseteq given'
  BY DEF AuthInv
<1> QED BY <1>3, <1>4, <1>5, <1>6
        DEF AuthInv, Books, AuthType, Paired, Unanswered, Counted, Tended

\* A request that starts a session, or is refused.
LEMMA LoginNewInv ==
  ASSUME AuthInv, NEW l \in Logins, NEW s \in Sessions, LoginNew(l, s)
  PROVE  AuthInv'
<1>1. /\ auth.login[l].state = "idle" /\ auth.session[s] = Unused /\ UNCHANGED <<given, used>>
      /\ auth' = Started(Begun(l), l, s) \/ auth' = Refused(Begun(l), l)
  BY DEF LoginNew
<1>2. CASE auth' = Refused(Begun(l), l)
  BY <1>1, <1>2, RefusedInv DEF AuthInv
<1>3. CASE auth' = Started(Begun(l), l, s)
  <2> DEFINE p == [Unused EXCEPT !.live = TRUE, !.refs = 1, !.result = l,
                                 !.authorization = TRUE, !.connected = TRUE,
                                 !.timer = "process", !.pipe = "open", !.process = "start"]
  <2>1. Unused \in Session
    <3>1. 0 \in 0..MaxPrompts /\ 0 \in 0..MaxCallers
      BY AuthAssumption
    <3> QED BY <3>1 DEF Unused, Session
  <2>2. p \in Session
    <3>1. \A x, y, z \in BOOLEAN :
            [Unused EXCEPT !.live = x, !.refs = 1, !.result = l, !.authorization = y,
                           !.connected = z, !.timer = "process", !.pipe = "open",
                           !.process = "start"] \in Session
      BY <2>1, ZenonT(60) DEF Session
    <3> QED BY <3>1
  <2>3. /\ p.refs = 1 /\ p.result = l /\ p.timer = "process" /\ p.pipe = "open"
        /\ p.conversation = 0 /\ p.callers = 0 /\ p.authorize = "none" /\ l # NoLogin
    <3>1. /\ p.refs = 1 /\ p.result = l /\ p.timer = "process" /\ p.pipe = "open"
          /\ p.conversation = Unused.conversation /\ p.callers = Unused.callers
          /\ p.authorize = Unused.authorize
      BY <2>1 DEF Session
    <3>2. Unused.conversation = 0 /\ Unused.callers = 0 /\ Unused.authorize = "none"
      BY DEF Unused
    <3> QED BY <3>1, <3>2, AuthAssumption
  <2>4. Counted(p) /\ Tended(p) /\ p.result = l
    <3>1. p.live /\ p.connected
      BY <2>1 DEF Session
    <3>2. p.cookie = Unused.cookie /\ p.initialized = Unused.initialized /\ p.disposed = Unused.disposed
      BY <2>1, Zenon DEF Session
    <3>3. ~Unused.cookie /\ ~Unused.initialized /\ ~Unused.disposed
      BY DEF Unused
    <3> HIDE DEF p
    <3> QED BY <2>3, <3>1, <3>2, <3>3 DEF Counted, Tended, One
  <2> HIDE DEF p
  <2>5. auth \in AuthType
    BY DEF AuthInv, Books
  <2>6. auth' = Pending(l, s, p)
    BY <1>3, <2>5 DEF Started, Begun, AuthType, Pending, p
  <2>7. auth.session[s].result = NoLogin
    BY <1>1 DEF Unused
  <2>8. used' \subseteq given' /\ given' = given
    BY <1>1 DEF AuthInv
  <2> QED BY <1>1, <2>2, <2>4, <2>6, <2>7, <2>8, PendingInv
<1> QED BY <1>1, <1>2, <1>3

\* A reply to a prompt takes the session out of the conversations, if it is still there for it.
LEMMA LoginReplyInv ==
  ASSUME AuthInv, ~Mismatch, NEW l \in Logins, NEW s \in Sessions, NEW n \in 1..MaxPrompts,
         LoginReply(l, s, n)
  PROVE  AuthInv'
<1> DEFINE q == auth.session[s]
<1>1. /\ auth.login[l].state = "idle" /\ <<s, n>> \in given
      /\ given' = given /\ used' = used \cup {<<s, n>>}
      /\ \/ auth' = Refused(Begun(l), l)
         \/ auth' = Replied(Begun(l), l, s) /\ q.conversation = n
  BY DEF LoginReply, Begun
<1>2. used' \subseteq given'
  BY <1>1 DEF AuthInv
<1>3. CASE auth' = Refused(Begun(l), l)
  BY <1>1, <1>2, <1>3, RefusedInv
<1>4. CASE auth' = Replied(Begun(l), l, s) /\ q.conversation = n
  <2> DEFINE g == Ref(q)
             f == Bare(g, 1)
             process == IF f.process = "prompted" THEN "working" ELSE f.process
             p == [f EXCEPT !.result = l, !.timer = "process", !.process = process]
  <2>1. q \in Session /\ Counted(q) /\ Tended(q) /\ q.refs \in Nat
    BY InvSession, SessionFields
  <2>2. /\ g \in Session /\ g.refs = q.refs + 1 /\ g.conversation = q.conversation
        /\ g.result = q.result /\ g.timer = q.timer /\ g.callers = q.callers /\ g.pipe = q.pipe
        /\ g.authorize = q.authorize /\ g.nonce = q.nonce
    BY <2>1 DEF Session, Ref
  <2>3. /\ g.live = q.live /\ g.cookie = q.cookie /\ g.disposed = q.disposed
        /\ g.connected = q.connected /\ g.initialized = q.initialized
    BY <2>1, Zenon DEF Session, Ref
  <2> HIDE DEF g
  <2>4. q.conversation # 0 /\ q.result = NoLogin /\ q.live /\ l # NoLogin
    BY <1>4, <2>1, AuthAssumption, SessionFields DEF Counted, One
  <2>5. g.refs = One(g.cookie) + One(g.conversation # 0) + 1
    BY <2>1, <2>2, <2>3, <2>4 DEF Counted, One
  <2>6. Forget(g) = f
    BY <2>2, <2>5, ForgetKeeps
  <2>7. /\ f \in Session /\ f.refs = 1 /\ f.conversation = 0 /\ ~f.cookie
        /\ f.timer = g.timer /\ f.callers = g.callers /\ f.authorize = g.authorize
        /\ f.nonce = g.nonce /\ f.pipe = g.pipe /\ f.live = g.live
        /\ f.connected = g.connected /\ f.initialized = g.initialized /\ f.disposed = g.disposed
    BY <2>2, BareSession
  <2> HIDE DEF f
  <2>8. process \in {"none", "start", "working", "prompted", "running", "gone"}
    BY <2>7, SessionFields
  <2>9. auth \in AuthType
    BY DEF AuthInv, Books
  <2>10. auth' = Pending(l, s, p)
    BY <1>4, <2>6, <2>9 DEF Replied, Begun, AuthType, Pending, g
  <2> HIDE DEF process
  <2>11. /\ p \in Session /\ p.result = l /\ p.timer = "process" /\ p.refs = f.refs
         /\ p.conversation = f.conversation /\ p.callers = f.callers /\ p.pipe = f.pipe
         /\ p.authorize = f.authorize /\ p.nonce = f.nonce
    BY <2>7, <2>8 DEF Session
  <2>12. /\ p.live = f.live /\ p.cookie = f.cookie /\ p.disposed = f.disposed
         /\ p.connected = f.connected /\ p.initialized = f.initialized
    BY <2>7, Zenon DEF Session
  <2> HIDE DEF p
  <2>13. Counted(p)
    BY <2>1, <2>2, <2>3, <2>4, <2>7, <2>11, <2>12 DEF Counted, One
  <2>14. Tended(p)
    BY <2>1, <2>2, <2>3, <2>4, <2>7, <2>11, <2>12 DEF Tended
  <2> QED BY <1>1, <1>2, <2>4, <2>10, <2>11, <2>13, <2>14, PendingInv
<1> QED BY <1>1, <1>3, <1>4
-----------------------------------------------------------------------------
(* What holds of a CockpitAuth, always. *)

LEMMA AuthInitInv == AuthInit => AuthInv
<1> SUFFICES ASSUME AuthInit PROVE AuthInv
  OBVIOUS
<1>1. 0 \in 0..MaxPrompts /\ 0 \in 0..MaxCallers
  BY AuthAssumption
<1>2. Unused \in Session
  BY <1>1 DEF Unused, Session
<1>3. Counted(Unused) /\ Tended(Unused) /\ Unused.result = NoLogin
  BY DEF Counted, Tended, One, Unused
<1> DEFINE r == [state |-> "idle", session |-> NoSession, error |-> FALSE,
                 answer |-> "none", answers |-> 0]
<1>4. r \in LoginType /\ r.state = "idle" /\ r.session = NoSession /\ r.answers = 0
  BY DEF LoginType
<1>5. ~r.error
  OBVIOUS
<1> HIDE DEF r
<1>6. auth = [startups |-> 0, timeout |-> TRUE, quit |-> FALSE, dangling |-> FALSE,
              session |-> [s \in Sessions |-> Unused], login |-> [l \in Logins |-> r]]
  BY DEF AuthInit, r
<1>7. auth.startups = 0 /\ \A s \in Sessions : auth.session[s] = Unused
  BY <1>6
<1>8. \A l \in Logins : auth.login[l] = r
  BY <1>6
<1>9. ~auth.dangling
  BY <1>6
<1>10. auth \in AuthType
  BY <1>2, <1>4, <1>6 DEF AuthType
<1>11. Paired(auth)
  BY <1>3, <1>4, <1>7, <1>8 DEF Paired, One
<1>12. auth.startups = Cardinality(Unanswered(auth))
  <2>1. Unanswered(auth) = {}
    BY <1>4, <1>8 DEF Unanswered
  <2> QED BY <1>7, <2>1, FS_EmptySet
<1>13. given = {} /\ used = {}
  BY DEF AuthInit
<1> QED BY <1>3, <1>5, <1>7, <1>8, <1>9, <1>10, <1>11, <1>12, <1>13 DEF AuthInv, Books

\* The inductive invariant holds in every state of cockpit-ws.
THEOREM AuthSafe ==
  ASSUME ~Mismatch
  PROVE  AuthSpec => []AuthInv
<1>1. AuthInit => AuthInv
  BY AuthInitInv
<1>2. AuthInv /\ [AuthNext]_authvars => AuthInv'
  <2> SUFFICES ASSUME AuthInv, [AuthNext]_authvars PROVE AuthInv'
    OBVIOUS
  <2>1. ASSUME NEW l \in Logins, NEW s \in Sessions, LoginNew(l, s) PROVE AuthInv'
    BY <2>1, LoginNewInv
  <2>2. ASSUME NEW l \in Logins, NEW s \in Sessions, NEW n \in 1..MaxPrompts, LoginReply(l, s, n)
        PROVE  AuthInv'
    BY <2>2, LoginReplyInv
  <2>3. ASSUME NEW l \in Logins, LoginIdle(l) PROVE AuthInv'
    BY <2>3, LoginIdleInv
  <2>4. ASSUME NEW s \in Sessions, ProcessAsks(s) PROVE AuthInv'
    BY <2>4, ProcessAsksInv
  <2>5. ASSUME NEW s \in Sessions, ProcessPrompts(s) PROVE AuthInv'
    BY <2>5, ProcessPromptsInv
  <2>6. ASSUME NEW s \in Sessions, NEW how \in {"ok", "problem", "version"}, ProcessInits(s, how)
        PROVE  AuthInv'
    BY <2>6, ProcessInitsInv
  <2>7. ASSUME NEW s \in Sessions, TransportClosed(s) PROVE AuthInv'
    BY <2>7, TransportClosedInv
  <2>8. ASSUME NEW s \in Sessions, AuthorizeTimeout(s) PROVE AuthInv'
    BY <2>8, AuthorizeTimeoutInv
  <2>9. ASSUME NEW s \in Sessions, SessionTimeout(s) PROVE AuthInv'
    BY <2>9, SessionTimeoutInv
  <2>10. CASE ProcessTimeout
    BY <2>10, ProcessTimeoutInv
  <2>11. ASSUME NEW s \in Sessions, SocketOpens(s) PROVE AuthInv'
    BY <2>11, SocketOpensInv
  <2>12. ASSUME NEW s \in Sessions, SocketCloses(s) PROVE AuthInv'
    BY <2>12, SocketClosesInv
  <2>13. ASSUME NEW s \in Sessions, Logout(s) PROVE AuthInv'
    BY <2>13, LogoutInv
  <2>15. ASSUME NEW s \in Sessions, ProcessErrs(s) PROVE AuthInv'
    BY <2>15, ProcessErrsInv
  <2>14. CASE UNCHANGED authvars
    BY <2>14 DEF authvars, AuthInv, Books, AuthType, Paired, Unanswered, Counted, Tended
  <2> QED BY <2>1, <2>2, <2>3, <2>4, <2>5, <2>6, <2>7, <2>8, <2>9, <2>10, <2>11, <2>12, <2>13,
             <2>14, <2>15 DEF AuthNext
<1> QED BY <1>1, <1>2, PTL DEF AuthSpec

\* The requests that wait for a session: its result, if it has one.
LEMMA WaitingOnSession ==
  ASSUME AuthInv, NEW s \in Sessions
  PROVE  Cardinality({l \in Logins : auth.login[l].session = s /\ Waiting(l)})
           = One(auth.session[s].result # NoLogin)
<1> DEFINE q == auth.session[s]
           W == {l \in Logins : auth.login[l].session = s /\ Waiting(l)}
<1>1. q \in Session /\ s # NoSession
  BY InvSession, AuthAssumption
<1>2. Paired(auth)
  BY DEF AuthInv, Books
<1>3. CASE q.result = NoLogin
  <2>1. W = {}
    <3> SUFFICES ASSUME NEW l \in Logins, auth.login[l].session = s, Waiting(l) PROVE FALSE
      OBVIOUS
    <3>1. auth.login[l].state = "pending"
      BY <1>1, <1>2 DEF Paired, Waiting
    <3>2. q.result = l
      BY <1>2, <3>1 DEF Paired
    <3> QED BY <1>3, <3>2, AuthAssumption
  <2> QED BY <1>3, <2>1, FS_EmptySet DEF One
<1>4. CASE q.result # NoLogin
  <2>1. q.result \in Logins
    BY <1>1, <1>4, SessionFields
  <2>2. W = {q.result}
    <3>1. q.result \in W
      BY <1>2, <1>4, <2>1 DEF Paired, Waiting
    <3>2. ASSUME NEW l \in W PROVE l = q.result
      <4>1. auth.login[l].state = "pending"
        BY <1>1, <1>2 DEF Paired, Waiting
      <4> QED BY <1>2, <4>1 DEF Paired
    <3> QED BY <3>1, <3>2
  <2>3. Cardinality({q.result}) = 1
    BY FS_Singleton
  <2> QED BY <1>4, <2>2, <2>3 DEF One
<1> QED BY <1>3, <1>4

\* However logins, prompts, timers, logouts and the ends of processes cross, cockpit-ws counts
\* the startups that are pending and the references of every session right, answers each request
\* once, and never uses a session that it has freed.
THEOREM CountsExactAlways ==
  ASSUME ~Mismatch
  PROVE  AuthSpec => []CountsExact
<1>1. AuthInv => CountsExact
  <2> SUFFICES ASSUME AuthInv PROVE CountsExact
    OBVIOUS
  <2>1. auth.startups = Cardinality({l \in Logins : Waiting(l)}) /\ ~auth.dangling
    BY DEF AuthInv, Books, Unanswered, Waiting
  <2>2. \A l \in Logins : auth.login[l].answers = One(auth.login[l].state = "done")
    BY DEF AuthInv, Books, Paired
  <2>3. ASSUME NEW s \in Sessions
        PROVE  /\ auth.session[s].live <=> auth.session[s].refs > 0
               /\ auth.session[s].refs = One(auth.session[s].cookie)
                    + One(auth.session[s].conversation # 0)
                    + Cardinality({l \in Logins : auth.login[l].session = s /\ Waiting(l)})
    <3>1. Counted(auth.session[s])
      BY InvSession
    <3> QED BY <3>1, WaitingOnSession DEF Counted
  <2> QED BY <2>1, <2>2, <2>3 DEF CountsExact
<1> QED BY <1>1, AuthSafe, PTL

\* A session that is there is used, or has a timer that will look after it, or its process is
\* being ended; what is in the tables can still be used.
THEOREM AttendedAlways ==
  ASSUME ~Mismatch
  PROVE  AuthSpec => []Attended
<1>1. AuthInv => Attended
  BY DEF AuthInv, Counted, Tended, Attended
<1> QED BY <1>1, AuthSafe, PTL
=============================================================================
