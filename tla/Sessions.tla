---- MODULE Sessions ----
(***************************************************************************)
(* Login, requireAuth and logout (internal/httpapi/auth.go) over the table *)
(* sessions (internal/db/sessions.go), and the clean-up main makes at each *)
(* start.  Statements of different requests interleave; the process stops  *)
(* and starts again, perhaps with another SESSION_TTL_HOURS.               *)
(*                                                                         *)
(* Time is what PostgreSQL's now() shows.  The service computes the expiry *)
(* of a session with its own clock, which may differ by one of Drifts.     *)
(*                                                                         *)
(* A token stands for itself and for its hash.  A request presents a token *)
(* some login has answered with, in the header or the cookie; with any     *)
(* other it is refused.  Left out: requests that are refused or whose      *)
(* SELECT fails, which change nothing, and the cookie, which repeats what  *)
(* the answers say.  Nothing deletes a user.                               *)
(***************************************************************************)
EXTENDS Integers

CONSTANTS
  Users,          \* rows of the table users
  Tokens,         \* what NewToken may draw
  Requests,       \* slots for requests being handled
  TTLs,           \* values of SESSION_TTL_HOURS, zero and below included
  Drifts,         \* service clock minus database clock
  MaxTime,        \* bound of the model: time stops here
  NoSession       \* there is no such row

ASSUME SessionConstants ==
  /\ TTLs \subseteq Int
  /\ Drifts \subseteq Int
  /\ MaxTime \in Nat
  /\ NoSession \notin [user : Users, expires : Int]

VARIABLES
  now,            \* the database clock
  ttl,            \* Cfg.SessionTTL of the running process
  up,             \* the process has cleaned up and serves
  session,        \* [Tokens -> Sessions \cup {NoSession}]: the table sessions
  req,            \* [Requests -> RequestStates]
  issued,         \* history: whom a token was drawn for, and until when
  handed,         \* history: tokens a login has answered with
  out             \* history: tokens whose session a logout has deleted

vars == <<now, ttl, up, session, req, issued, handed, out>>

history == <<issued, handed, out>>

Expiries == {n + d + t : n \in 0..MaxTime, d \in Drifts, t \in TTLs}

Sessions == [user : Users, expires : Expiries]

RequestStates ==
  [pc : {"idle"}]
    \cup [pc : {"login"}, token : Tokens, row : Sessions]
    \cup [pc : {"acting", "logout"}, token : Tokens, user : Users]

IdleRequest == [pc |-> "idle"]

Init ==
  /\ now = 0
  /\ ttl \in TTLs
  /\ up = FALSE
  /\ session = [t \in Tokens |-> NoSession]
  /\ req = [q \in Requests |-> IdleRequest]
  /\ issued = [t \in Tokens |-> NoSession]
  /\ handed = {}
  /\ out = {}

TypeOK ==
  /\ now \in 0..MaxTime
  /\ ttl \in TTLs
  /\ up \in BOOLEAN
  /\ session \in [Tokens -> Sessions \cup {NoSession}]
  /\ req \in [Requests -> RequestStates]
  /\ issued \in [Tokens -> Sessions \cup {NoSession}]
  /\ handed \subseteq Tokens
  /\ out \subseteq Tokens

Tick ==
  /\ now < MaxTime
  /\ now' = now + 1
  /\ UNCHANGED <<ttl, up, session, req, history>>

\* Mutants of CheckPassword: the token is not fresh; the limit is added to the
\* expiry of the former session.
CheckPasswordOldToken(q, u, t, d) ==
  LET row == [user |-> u, expires |-> now + d + ttl]
  IN  /\ up
      /\ req[q].pc = "idle"
      /\ session[t] = NoSession
      /\ req' = [req EXCEPT ![q] = [pc |-> "login", token |-> t, row |-> row]]
      /\ issued' = [issued EXCEPT ![t] = row]
      /\ UNCHANGED <<now, ttl, up, session, handed, out>>

CheckPasswordTwice(q, u, t, d) ==
  LET row == [user |-> u, expires |-> now + d + ttl + ttl]
  IN  /\ up
      /\ req[q].pc = "idle"
      /\ issued[t] = NoSession
      /\ req' = [req EXCEPT ![q] = [pc |-> "login", token |-> t, row |-> row]]
      /\ issued' = [issued EXCEPT ![t] = row]
      /\ UNCHANGED <<now, ttl, up, session, handed, out>>

\* handleLogin up to the INSERT: the password is that of user u (any other
\* outcome answers 400, 401 or 500), a token is drawn and its expiry computed.
CheckPassword(q, u, t, d) ==
  LET row == [user |-> u, expires |-> now + d + ttl]
  IN  /\ up
      /\ req[q].pc = "idle"
      /\ issued[t] = NoSession
      /\ req' = [req EXCEPT ![q] = [pc |-> "login", token |-> t, row |-> row]]
      /\ issued' = [issued EXCEPT ![t] = row]
      /\ UNCHANGED <<now, ttl, up, session, handed, out>>

\* CreateSession and the answer; with an error, which the INSERT may survive,
\* the client never learns the token.
CreateSession(q) ==
  /\ req[q].pc = "login"
  /\ LET t == req[q].token
         inserted == [session EXCEPT ![t] = req[q].row]
     IN  \/ session' = inserted /\ handed' = handed \cup {t}
         \/ session' \in {session, inserted} /\ UNCHANGED handed
  /\ req' = [req EXCEPT ![q] = IdleRequest]
  /\ UNCHANGED <<now, ttl, up, issued, out>>

\* Mutant of Valid: expiry is left to the clean-up.
ValidIfThere(t) == session[t] # NoSession

\* UserByTokenHash finds a row.
Valid(t) == session[t] # NoSession /\ session[t].expires > now

\* requireAuth lets the request through to a handler, that of logout or another.
Authenticate(q, t) ==
  /\ up
  /\ req[q].pc = "idle"
  /\ t \in handed
  /\ Valid(t)
  /\ \E pc \in {"acting", "logout"} :
       req' = [req EXCEPT ![q] = [pc |-> pc, token |-> t, user |-> session[t].user]]
  /\ UNCHANGED <<now, ttl, up, session, history>>

\* Any handler but logout has done its work.
Finish(q) ==
  /\ req[q].pc = "acting"
  /\ req' = [req EXCEPT ![q] = IdleRequest]
  /\ UNCHANGED <<now, ttl, up, session, history>>

\* Mutant of DeleteSession: WHERE user_id = $1.
DeleteSessionsOfUser(q) ==
  /\ session' = [t \in Tokens |->
       IF session[t] # NoSession /\ session[t].user = req[q].user
       THEN NoSession ELSE session[t]]
  /\ out' = out \cup {req[q].token}

DeleteSession(q) ==
  /\ session' = [session EXCEPT ![req[q].token] = NoSession]
  /\ out' = out \cup {req[q].token}

\* handleLogout answers ok whether the DELETE worked or not.
LogOut(q) ==
  /\ req[q].pc = "logout"
  /\ DeleteSession(q) \/ UNCHANGED <<session, out>>
  /\ req' = [req EXCEPT ![q] = IdleRequest]
  /\ UNCHANGED <<now, ttl, up, issued, handed>>

\* The process stops and main runs again, with the environment it finds.
Restart ==
  /\ ttl' \in TTLs
  /\ up' = FALSE
  /\ req' = [q \in Requests |-> IdleRequest]
  /\ UNCHANGED <<now, session, history>>

\* DeleteExpiredSessions before the server listens; an error is only logged.
CleanUp ==
  /\ ~up
  /\ up' = TRUE
  /\ \/ UNCHANGED session
     \/ session' = [t \in Tokens |-> IF Valid(t) THEN session[t] ELSE NoSession]
  /\ UNCHANGED <<now, ttl, req, history>>

Next ==
  \/ Tick
  \/ \E q \in Requests, u \in Users, t \in Tokens, d \in Drifts : CheckPassword(q, u, t, d)
  \/ \E q \in Requests, t \in Tokens : Authenticate(q, t)
  \/ \E q \in Requests : CreateSession(q) \/ Finish(q) \/ LogOut(q)
  \/ Restart
  \/ CleanUp

Spec == Init /\ [][Next]_vars

----------------------------------------------------------------------------
\* A session lasts as long as its login promised: whatever other logins,
\* logouts of other sessions of the same user, failed statements, restarts and
\* clean-ups under another limit do, the token a login answered with stays good
\* until it expires or is logged out.
IssuedStaysValid ==
  \A t \in handed \ out :
    issued[t].expires > now => session[t] = issued[t]

\* A session that a logout has deleted does not come back, by an INSERT still
\* under way or a later login.
LoggedOutStaysOut ==
  \A t \in out : session[t] = NoSession

\* Whoever gets past requireAuth acts for the user who logged in, within the time
\* that login promised, and not after a logout: overlapping requests, clocks and
\* rows that the clean-up has not removed make no difference.
OnlyLiveSessionsAct ==
  [][\A q \in Requests :
       req[q].pc = "idle" /\ req'[q].pc \in {"acting", "logout"} =>
         LET t == req'[q].token
         IN  /\ issued[t].user = req'[q].user
             /\ issued[t].expires > now
             /\ t \notin out]_vars

\* The refinement mapping: the sessions whose tokens have been given out and that
\* requireAuth would accept.
OpenNow == [t \in Tokens |-> IF t \in handed /\ Valid(t) THEN session[t] ELSE NoSession]

Book == INSTANCE SessionBook WITH open <- OpenNow, used <- handed

\* Seen by those who hold tokens, logging in and out happen at once and one after the
\* other: statements between the statements of a login or logout, rows of logins whose
\* answer was lost, rows nobody has cleaned up, failures and restarts do not show.
ImplementsSessionBook == Book!Spec
====
