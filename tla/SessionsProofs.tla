---- MODULE SessionsProofs ----
(***************************************************************************)
(* Theorems about Sessions, for any number of users, tokens and requests,  *)
(* any clocks and any limits.                                              *)
(***************************************************************************)
EXTENDS Sessions, TLAPS

\* A session that is there is not NoSession.
LEMMA SessionsExist == NoSession \notin Sessions
<1>1. Sessions \subseteq [user : Users, expires : Int]
  BY SessionConstants DEF Sessions, Expiries
<1> QED
  BY <1>1, SessionConstants

\* What a request carries in each of its states.
LEMMA RequestCarries ==
  ASSUME TypeOK, NEW q \in Requests
  PROVE  /\ req[q].pc \in {"idle", "login", "acting", "logout"}
         /\ req[q].pc = "login" => req[q].token \in Tokens /\ req[q].row \in Sessions
         /\ req[q].pc \in {"acting", "logout"} =>
              req[q].token \in Tokens /\ req[q].user \in Users
BY DEF TypeOK, RequestStates

\* The row of a login is a session.
LEMMA RowType ==
  ASSUME TypeOK, NEW u \in Users, NEW d \in Drifts
  PROVE  [user |-> u, expires |-> now + d + ttl] \in Sessions
BY DEF TypeOK, Sessions, Expiries

LEMMA InitTyped == Init => TypeOK
<1> SUFFICES ASSUME Init PROVE TypeOK
  OBVIOUS
<1>1. now \in 0..MaxTime
  BY SessionConstants DEF Init
<1>2. IdleRequest \in RequestStates
  BY DEF IdleRequest, RequestStates
<1> QED
  BY <1>1, <1>2 DEF Init, TypeOK

LEMMA StepTyped == TypeOK /\ [Next]_vars => TypeOK'
<1> SUFFICES ASSUME TypeOK, [Next]_vars PROVE TypeOK'
  OBVIOUS
<1> USE DEF TypeOK, history
<1>0. IdleRequest \in RequestStates
  BY DEF IdleRequest, RequestStates
<1>1. CASE Tick
  BY <1>1, SessionConstants DEF Tick
<1>2. ASSUME NEW q \in Requests, NEW u \in Users, NEW t \in Tokens, NEW d \in Drifts,
             CheckPassword(q, u, t, d)
      PROVE  TypeOK'
  <2> DEFINE row == [user |-> u, expires |-> now + d + ttl]
  <2>1. row \in Sessions
    BY RowType
  <2>2. /\ req' = [req EXCEPT ![q] = [pc |-> "login", token |-> t, row |-> row]]
        /\ issued' = [issued EXCEPT ![t] = row]
        /\ UNCHANGED <<now, ttl, up, session, handed, out>>
    BY <1>2 DEF CheckPassword
  <2> HIDE DEF row
  <2>3. [pc |-> "login", token |-> t, row |-> row] \in RequestStates
    BY <2>1 DEF RequestStates
  <2> QED
    BY <2>1, <2>2, <2>3
<1>3. ASSUME NEW q \in Requests, NEW t \in Tokens, Authenticate(q, t)
      PROVE  TypeOK'
  <2>1. session[t] \in Sessions
    BY <1>3 DEF Authenticate, Valid
  <2>2. session[t].user \in Users
    BY <2>1 DEF Sessions
  <2>3. PICK pc \in {"acting", "logout"} :
          req' = [req EXCEPT ![q] = [pc |-> pc, token |-> t, user |-> session[t].user]]
    BY <1>3 DEF Authenticate
  <2>4. [pc |-> pc, token |-> t, user |-> session[t].user] \in RequestStates
    BY <2>2 DEF RequestStates
  <2> QED
    BY <1>3, <2>3, <2>4 DEF Authenticate
<1>4. ASSUME NEW q \in Requests, CreateSession(q)
      PROVE  TypeOK'
  <2>1. req[q].token \in Tokens /\ req[q].row \in Sessions
    BY <1>4, RequestCarries DEF CreateSession
  <2> QED
    BY <1>0, <1>4, <2>1 DEF CreateSession
<1>5. ASSUME NEW q \in Requests, Finish(q)
      PROVE  TypeOK'
  BY <1>0, <1>5 DEF Finish
<1>6. ASSUME NEW q \in Requests, LogOut(q)
      PROVE  TypeOK'
  <2>1. req[q].token \in Tokens
    BY <1>6, RequestCarries DEF LogOut
  <2> QED
    BY <1>0, <1>6, <2>1 DEF LogOut, DeleteSession
<1>7. CASE Restart
  BY <1>0, <1>7 DEF Restart
<1>8. CASE CleanUp
  BY <1>8 DEF CleanUp
<1>9. CASE UNCHANGED vars
  BY <1>9 DEF vars
<1> QED
  BY <1>1, <1>2, <1>3, <1>4, <1>5, <1>6, <1>7, <1>8, <1>9 DEF Next

\* The table and the requests are well formed.
THEOREM TypeCorrect == Spec => []TypeOK
BY InitTyped, StepTyped, PTL DEF Spec

----------------------------------------------------------------------------
(* What a login promises is what the table holds.                          *)

\* A login that is still to INSERT: the token is its own, and nobody's yet.
LoginPending(q) ==
  LET t == req[q].token
  IN  /\ issued[t] = req[q].row
      /\ session[t] = NoSession
      /\ t \notin handed
      /\ \A p \in Requests : req[p].pc = "login" /\ req[p].token = t => p = q

\* What the table, the promises and the histories say of one token.
TokenOK(t) ==
  /\ session[t] \in {NoSession, issued[t]}
  /\ t \in handed => issued[t] \in Sessions
  /\ t \in handed \ out /\ issued[t].expires > now => session[t] = issued[t]
  /\ t \in out => t \in handed /\ session[t] = NoSession

\* The properties are the last two parts of TokenOK.  They are not inductive: an
\* INSERT under way must not be of a token that was already given out.
SessionInv ==
  /\ TypeOK
  /\ \A t \in Tokens : TokenOK(t)
  /\ \A q \in Requests : req[q].pc = "login" => LoginPending(q)
  /\ \A q \in Requests : req[q].pc \in {"acting", "logout"} => req[q].token \in handed

LEMMA SessionInit == Init => SessionInv
BY InitTyped DEF Init, SessionInv, TokenOK, IdleRequest

LEMMA SessionStep == SessionInv /\ [Next]_vars => SessionInv'
<1> SUFFICES ASSUME SessionInv, [Next]_vars PROVE SessionInv'
  OBVIOUS
<1>0. TypeOK /\ TypeOK'
  BY StepTyped DEF SessionInv
<1> USE DEF history
<1>1. CASE Tick
  <2>1. now \in Int /\ now' = now + 1 /\ UNCHANGED <<session, req, issued, handed, out>>
    BY <1>0, <1>1 DEF Tick, TypeOK
  <2>2. ASSUME NEW t \in Tokens
        PROVE  TokenOK(t)'
    <3>1. t \in handed => issued[t].expires \in Int
      BY SessionConstants DEF SessionInv, TokenOK, Sessions, Expiries
    <3> QED
      BY <2>1, <3>1 DEF SessionInv, TokenOK
  <2>3. \A q \in Requests : LoginPending(q) => LoginPending(q)'
    BY <2>1 DEF LoginPending
  <2> QED
    BY <1>0, <2>1, <2>2, <2>3 DEF SessionInv
<1>2. ASSUME NEW q \in Requests, NEW u \in Users, NEW t \in Tokens, NEW d \in Drifts,
             CheckPassword(q, u, t, d)
      PROVE  SessionInv'
  <2> DEFINE row == [user |-> u, expires |-> now + d + ttl]
  <2>1. row \in Sessions
    BY <1>0, RowType
  <2>2. /\ req[q].pc = "idle" /\ issued[t] = NoSession
        /\ req' = [req EXCEPT ![q] = [pc |-> "login", token |-> t, row |-> row]]
        /\ issued' = [issued EXCEPT ![t] = row]
        /\ UNCHANGED <<now, ttl, up, session, handed, out>>
    BY <1>2 DEF CheckPassword
  <2> HIDE DEF row
  <2>3. session[t] = NoSession /\ t \notin handed /\ t \notin out
    BY <2>2, SessionsExist DEF SessionInv, TokenOK
  <2>4. \A p \in Requests : req[p].pc = "login" => req[p].token # t
    BY <1>0, <2>2, SessionsExist, RequestCarries DEF SessionInv, LoginPending
  <2>5. ASSUME NEW s \in Tokens
        PROVE  TokenOK(s)'
    BY <1>0, <2>1, <2>2, <2>3 DEF SessionInv, TokenOK, TypeOK
  <2>6. ASSUME NEW p \in Requests, req'[p].pc = "login"
        PROVE  LoginPending(p)'
    <3>1. CASE p = q
      BY <1>0, <2>2, <2>3, <2>4, <3>1 DEF LoginPending, TypeOK
    <3>2. CASE p # q
      BY <1>0, <2>2, <2>4, <2>6, <3>2, RequestCarries DEF SessionInv, LoginPending, TypeOK
    <3> QED
      BY <3>1, <3>2
  <2>7. \A p \in Requests : req'[p].pc \in {"acting", "logout"} => req'[p].token \in handed'
    BY <1>0, <2>2 DEF SessionInv, TypeOK
  <2> QED
    BY <1>0, <2>5, <2>6, <2>7 DEF SessionInv
<1>3. ASSUME NEW q \in Requests, NEW t \in Tokens, Authenticate(q, t)
      PROVE  SessionInv'
  <2>1. PICK pc \in {"acting", "logout"} :
          req' = [req EXCEPT ![q] = [pc |-> pc, token |-> t, user |-> session[t].user]]
    BY <1>3 DEF Authenticate
  <2>2. t \in handed /\ UNCHANGED <<now, session, issued, handed, out>>
    BY <1>3 DEF Authenticate
  <2> QED
    BY <1>0, <2>1, <2>2 DEF SessionInv, TokenOK, LoginPending, TypeOK
<1>4. ASSUME NEW q \in Requests, CreateSession(q)
      PROVE  SessionInv'
  <2> DEFINE t == req[q].token
             row == req[q].row
  <2>1. /\ t \in Tokens /\ row \in Sessions
        /\ LoginPending(q) /\ issued[t] = row /\ session[t] = NoSession /\ t \notin handed
    BY <1>0, <1>4, RequestCarries DEF CreateSession, SessionInv, LoginPending
  <2>2. /\ req' = [req EXCEPT ![q] = IdleRequest]
        /\ UNCHANGED <<now, ttl, up, issued, out>>
        /\ \/ session' = [session EXCEPT ![t] = row] /\ handed' = handed \cup {t}
           \/ session' \in {session, [session EXCEPT ![t] = row]} /\ handed' = handed
    BY <1>4 DEF CreateSession
  <2>3. \A p \in Requests : p # q /\ req[p].pc = "login" => req[p].token # t
    BY <1>4, <2>1 DEF CreateSession, LoginPending
  <2> HIDE DEF t, row
  <2>4. ASSUME NEW s \in Tokens
        PROVE  TokenOK(s)'
    <3>1. TokenOK(s) /\ TokenOK(t) /\ (s = t => s \notin out)
      BY <2>1 DEF SessionInv, TokenOK
    <3> QED
      BY <1>0, <2>1, <2>2, <3>1 DEF SessionInv, TokenOK, TypeOK
  <2>5. ASSUME NEW p \in Requests, req'[p].pc = "login"
        PROVE  LoginPending(p)'
    <3>1. p # q /\ req'[p] = req[p]
      BY <1>0, <2>2, <2>5 DEF TypeOK, IdleRequest
    <3>2. req[p].token # t /\ LoginPending(p) /\ req[p].token \in Tokens
      BY <1>0, <2>3, <2>5, <3>1, RequestCarries DEF SessionInv
    <3>3. \A r \in Requests : req'[r].pc = "login" => req'[r] = req[r]
      BY <1>0, <2>2 DEF TypeOK, IdleRequest
    <3> QED
      BY <1>0, <2>2, <3>1, <3>2, <3>3 DEF LoginPending, TypeOK
  <2>6. \A p \in Requests : req'[p].pc \in {"acting", "logout"} => req'[p].token \in handed'
    BY <1>0, <2>2 DEF SessionInv, TypeOK, IdleRequest
  <2> QED
    BY <1>0, <2>4, <2>5, <2>6 DEF SessionInv
<1>5. ASSUME NEW q \in Requests, Finish(q)
      PROVE  SessionInv'
  BY <1>0, <1>5 DEF Finish, SessionInv, TokenOK, LoginPending, TypeOK, IdleRequest
<1>6. ASSUME NEW q \in Requests, LogOut(q)
      PROVE  SessionInv'
  <2> DEFINE t == req[q].token
  <2>1. t \in Tokens /\ t \in handed
    BY <1>0, <1>6, RequestCarries DEF LogOut, SessionInv
  <2>2. /\ req' = [req EXCEPT ![q] = IdleRequest]
        /\ UNCHANGED <<now, ttl, up, issued, handed>>
        /\ \/ session' = [session EXCEPT ![t] = NoSession] /\ out' = out \cup {t}
           \/ UNCHANGED <<session, out>>
    BY <1>6 DEF LogOut, DeleteSession
  <2> HIDE DEF t
  <2>3. \A s \in Tokens : TokenOK(s)'
    BY <1>0, <2>1, <2>2 DEF SessionInv, TokenOK, TypeOK
  <2>4. ASSUME NEW p \in Requests, req'[p].pc = "login"
        PROVE  LoginPending(p)'
    <3>1. p # q /\ req'[p] = req[p] /\ req[p].token \in Tokens /\ LoginPending(p)
      BY <1>0, <2>2, <2>4, RequestCarries DEF TypeOK, IdleRequest, SessionInv
    <3>2. \A r \in Requests : req'[r].pc = "login" => req'[r] = req[r]
      BY <1>0, <2>2 DEF TypeOK, IdleRequest
    <3> QED
      BY <1>0, <2>2, <3>1, <3>2 DEF LoginPending, TypeOK
  <2>5. \A p \in Requests : req'[p].pc \in {"acting", "logout"} => req'[p].token \in handed'
    BY <1>0, <2>2 DEF SessionInv, TypeOK, IdleRequest
  <2> QED
    BY <1>0, <2>3, <2>4, <2>5 DEF SessionInv
<1>7. CASE Restart
  <2>1. /\ UNCHANGED <<now, session, issued, handed, out>>
        /\ \A p \in Requests : req'[p].pc = "idle"
    BY <1>7 DEF Restart, history, IdleRequest
  <2>2. ASSUME NEW s \in Tokens
        PROVE  TokenOK(s)'
    BY <2>1 DEF SessionInv, TokenOK
  <2> QED
    BY <1>0, <2>1, <2>2 DEF SessionInv
<1>8. CASE CleanUp
  <2>1. /\ UNCHANGED <<now, req, issued, handed, out>>
        /\ \A s \in Tokens : session'[s] = session[s] \/ (session'[s] = NoSession /\ ~Valid(s))
    BY <1>8 DEF CleanUp
  <2>2. ASSUME NEW s \in Tokens
        PROVE  TokenOK(s)'
    <3>1. CASE session'[s] = session[s]
      BY <2>1, <3>1 DEF SessionInv, TokenOK
    <3>2. CASE session'[s] = NoSession /\ ~Valid(s)
      BY <2>1, <3>2, SessionsExist DEF SessionInv, TokenOK, Valid
    <3> QED
      BY <2>1, <3>1, <3>2
  <2>3. ASSUME NEW p \in Requests, req[p].pc = "login"
        PROVE  LoginPending(p)'
    BY <1>0, <2>1, <2>3, RequestCarries DEF SessionInv, LoginPending
  <2> QED
    BY <1>0, <2>1, <2>2, <2>3 DEF SessionInv
<1>9. CASE UNCHANGED vars
  BY <1>0, <1>9 DEF vars, SessionInv, TokenOK, LoginPending
<1> QED
  BY <1>1, <1>2, <1>3, <1>4, <1>5, <1>6, <1>7, <1>8, <1>9 DEF Next

\* A token a login has answered with stays good until it expires or is logged out.
THEOREM IssuedStays == Spec => []IssuedStaysValid
<1>1. SessionInv => IssuedStaysValid
  BY DEF SessionInv, TokenOK, IssuedStaysValid, TypeOK
<1> QED
  BY <1>1, SessionInit, SessionStep, PTL DEF Spec

\* A session that a logout has deleted stays deleted.
THEOREM LogoutIsFinal == Spec => []LoggedOutStaysOut
<1>1. SessionInv => LoggedOutStaysOut
  BY DEF SessionInv, TokenOK, LoggedOutStaysOut, TypeOK
<1> QED
  BY <1>1, SessionInit, SessionStep, PTL DEF Spec

\* Nobody gets past requireAuth but with a session, for its user and in its time.
THEOREM OnlyLiveAct == Spec => OnlyLiveSessionsAct
<1> DEFINE Live == \A q \in Requests :
             req[q].pc = "idle" /\ req'[q].pc \in {"acting", "logout"} =>
               LET t == req'[q].token
               IN  /\ issued[t].user = req'[q].user
                   /\ issued[t].expires > now
                   /\ t \notin out
<1>1. SessionInv /\ [Next]_vars => [Live]_vars
  <2> SUFFICES ASSUME SessionInv, Next, NEW q \in Requests, req[q].pc = "idle",
                      req'[q].pc \in {"acting", "logout"}
               PROVE  LET t == req'[q].token
                      IN  /\ issued[t].user = req'[q].user
                          /\ issued[t].expires > now
                          /\ t \notin out
    OBVIOUS
  <2>1. req \in [Requests -> RequestStates]
    BY DEF SessionInv, TypeOK
  <2>2. PICK t \in Tokens : Authenticate(q, t)
    BY <2>1
    DEF Next, Tick, CheckPassword, Authenticate, CreateSession, Finish, LogOut, Restart, CleanUp,
        IdleRequest
  <2>3. /\ req'[q].token = t /\ req'[q].user = session[t].user
        /\ session[t] # NoSession /\ session[t].expires > now
    BY <2>1, <2>2 DEF Authenticate, Valid
  <2>4. session[t] = issued[t] /\ t \notin out
    BY <2>3 DEF SessionInv, TokenOK
  <2> QED
    BY <2>3, <2>4
<1> QED
  BY <1>1, SessionInit, SessionStep, PTL DEF Spec, OnlyLiveSessionsAct

----------------------------------------------------------------------------
(* What the holders of tokens see: the refinement of SessionBook.          *)

\* A session that is open is the one its login promised.
LEMMA OpenIsWorth ==
  ASSUME SessionInv, NEW t \in Tokens
  PROVE  OpenNow[t] = IF t \in handed THEN Book!Worth(session[t], now) ELSE NoSession
BY DEF OpenNow, Valid, Book!Worth

\* As time passes, what was over stays over.
LEMMA WorthFades ==
  ASSUME NEW n \in Int, NEW s \in Sessions \cup {NoSession}
  PROVE  Book!Worth(s, n + 1) = Book!Worth(Book!Worth(s, n), n + 1)
BY SessionConstants DEF Book!Worth, Sessions, Expiries

LEMMA BookInit == Init => Book!Init
BY DEF Init, Book!Init, OpenNow, Valid

LEMMA BookStep == SessionInv /\ SessionInv' /\ [Next]_vars => [Book!Next]_Book!bookVars
<1> SUFFICES ASSUME SessionInv, SessionInv', [Next]_vars
             PROVE  Book!Next \/ UNCHANGED Book!bookVars
  OBVIOUS
<1>0. TypeOK /\ TypeOK'
  BY DEF SessionInv
\* Steps that leave the clock, the tokens given out and the good sessions alone.
<1>1. ASSUME UNCHANGED <<now, handed>>,
             \A t \in handed : \/ session'[t] = session[t]
                               \/ session'[t] = NoSession /\ ~Valid(t)
      PROVE  UNCHANGED Book!bookVars
  BY <1>1 DEF Book!bookVars, OpenNow, Valid
<1> USE DEF history
<1>2. CASE Tick
  <2>1. now \in Int /\ now' = now + 1 /\ UNCHANGED <<session, handed>>
    BY <1>0, <1>2 DEF Tick, TypeOK
  <2>2. ASSUME NEW t \in Tokens
        PROVE  OpenNow'[t] = Book!Worth(OpenNow[t], now')
    <3>1. session[t] \in Sessions \cup {NoSession}
      BY <1>0 DEF TypeOK
    <3>2. OpenNow'[t] = IF t \in handed THEN Book!Worth(session[t], now + 1) ELSE NoSession
      BY <2>1 DEF OpenNow, Valid, Book!Worth
    <3>3. OpenNow[t] = IF t \in handed THEN Book!Worth(session[t], now) ELSE NoSession
      BY OpenIsWorth
    <3>4. Book!Worth(NoSession, now + 1) = NoSession
      BY DEF Book!Worth
    <3> QED
      BY <2>1, <3>1, <3>2, <3>3, <3>4, WorthFades
  <2>3. OpenNow' = [t \in Tokens |-> Book!Worth(OpenNow[t], now')]
    BY <2>2 DEF OpenNow
  <2> QED
    BY <2>1, <2>3 DEF Book!Next, Book!Pass
<1>3. ASSUME NEW q \in Requests, NEW u \in Users, NEW t \in Tokens, NEW d \in Drifts,
             CheckPassword(q, u, t, d)
      PROVE  UNCHANGED Book!bookVars
  BY <1>1, <1>3 DEF CheckPassword
<1>4. ASSUME NEW q \in Requests, NEW t \in Tokens, Authenticate(q, t)
      PROVE  UNCHANGED Book!bookVars
  BY <1>1, <1>4 DEF Authenticate
\* The answer of a login is the moment its session opens.
<1>5. ASSUME NEW q \in Requests, CreateSession(q)
      PROVE  Book!Next \/ UNCHANGED Book!bookVars
  <2>1. PICK t, row : t = req[q].token /\ row = req[q].row
    OBVIOUS
  <2>2. t \in Tokens /\ row \in Sessions /\ t \notin handed
    BY <1>0, <1>5, <2>1, RequestCarries DEF CreateSession, SessionInv, LoginPending
  <2>3. UNCHANGED now
    BY <1>5 DEF CreateSession
  <2>4. CASE session' = [session EXCEPT ![t] = row] /\ handed' = handed \cup {t}
    <3>1. \A s \in Tokens \ {t} : OpenNow'[s] = OpenNow[s]
      BY <1>0, <2>3, <2>4 DEF OpenNow, Valid, TypeOK
    <3>2. session'[t] = row /\ t \in handed'
      BY <1>0, <2>2, <2>4 DEF TypeOK
    <3>3. OpenNow'[t] = Book!Worth(row, now)
      BY <2>2, <2>3, <3>2 DEF OpenNow, Valid, Book!Worth
    <3>4. OpenNow' = [OpenNow EXCEPT ![t] = Book!Worth(row, now)]
      BY <2>2, <3>1, <3>3 DEF OpenNow
    <3> QED
      BY <2>2, <2>3, <2>4, <3>4 DEF Book!Next, Book!Login
  <2>5. CASE session' \in {session, [session EXCEPT ![t] = row]} /\ handed' = handed
    <3>1. \A s \in handed : session'[s] = session[s]
      BY <1>0, <2>2, <2>5 DEF TypeOK
    <3> QED
      BY <1>1, <2>3, <2>5, <3>1
  <2> QED
    BY <1>5, <2>1, <2>4, <2>5 DEF CreateSession
<1>6. ASSUME NEW q \in Requests, Finish(q)
      PROVE  UNCHANGED Book!bookVars
  BY <1>1, <1>6 DEF Finish
\* A logout ends the session it was sent with and no other, if time has not done so.
<1>7. ASSUME NEW q \in Requests, LogOut(q)
      PROVE  Book!Next \/ UNCHANGED Book!bookVars
  <2>1. PICK t : t = req[q].token
    OBVIOUS
  <2>2. t \in Tokens /\ UNCHANGED <<now, handed>>
    BY <1>0, <1>7, <2>1, RequestCarries DEF LogOut
  <2>3. CASE session' = [session EXCEPT ![t] = NoSession]
    <3>1. session'[t] = NoSession /\ \A s \in Tokens \ {t} : session'[s] = session[s]
      BY <1>0, <2>2, <2>3 DEF TypeOK
    <3>2. OpenNow' = [OpenNow EXCEPT ![t] = NoSession]
      BY <2>2, <3>1 DEF OpenNow, Valid
    <3>3. CASE OpenNow[t] # NoSession
      BY <2>2, <3>2, <3>3 DEF Book!Next, Book!Logout
    <3>4. CASE OpenNow[t] = NoSession
      <4>1. OpenNow' = OpenNow
        BY <2>2, <3>2, <3>4 DEF OpenNow
      <4> QED
        BY <2>2, <4>1 DEF Book!bookVars
    <3> QED
      BY <3>3, <3>4
  <2>4. CASE UNCHANGED session
    BY <1>1, <2>2, <2>4
  <2> QED
    BY <1>7, <2>1, <2>3, <2>4 DEF LogOut, DeleteSession
<1>8. CASE Restart
  BY <1>1, <1>8 DEF Restart
<1>9. CASE CleanUp
  <2>1. \A t \in Tokens : session'[t] = session[t] \/ (session'[t] = NoSession /\ ~Valid(t))
    BY <1>9 DEF CleanUp
  <2> QED
    BY <1>0, <1>1, <1>9, <2>1 DEF CleanUp, TypeOK
<1>10. CASE UNCHANGED vars
  BY <1>1, <1>10 DEF vars
<1> QED
  BY <1>2, <1>3, <1>4, <1>5, <1>6, <1>7, <1>8, <1>9, <1>10 DEF Next

\* The service's statements, as the holders of tokens see them, keep the book: a session
\* opens with the answer of its login and ends with its time or its own logout.
THEOREM BookImplemented == Spec => ImplementsSessionBook
BY SessionInit, SessionStep, BookInit, BookStep, PTL DEF Spec, ImplementsSessionBook, Book!Spec
====
