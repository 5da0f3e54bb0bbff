---- MODULE SessionBook ----
(***************************************************************************)
(* What login and logout (internal/httpapi/auth.go) promise to those who   *)
(* hold a token: each login opens one session under a token of its own,    *)
(* which is good for one user until its time has come or until somebody    *)
(* logs that session out; nothing else opens, changes or ends one.         *)
(***************************************************************************)
EXTENDS Naturals

CONSTANTS
  Tokens,
  Sessions,       \* records with the time `expires`
  NoSession

VARIABLES
  now,
  open,           \* [Tokens -> Sessions \cup {NoSession}]: the good sessions
  used            \* tokens that have been given out

bookVars == <<now, open, used>>

\* What session s, or none, is worth at time n.
Worth(s, n) == IF s # NoSession /\ s.expires > n THEN s ELSE NoSession

Init ==
  /\ now = 0
  /\ open = [t \in Tokens |-> NoSession]
  /\ used = {}

\* A session may be over before it begins: its limit is zero, or a clock is slow.
Login(t) ==
  /\ t \notin used
  /\ used' = used \cup {t}
  /\ \E s \in Sessions : open' = [open EXCEPT ![t] = Worth(s, now)]
  /\ UNCHANGED now

Logout(t) ==
  /\ open[t] # NoSession
  /\ open' = [open EXCEPT ![t] = NoSession]
  /\ UNCHANGED <<now, used>>

Pass ==
  /\ now' = now + 1
  /\ open' = [t \in Tokens |-> Worth(open[t], now')]
  /\ UNCHANGED used

Next == Pass \/ \E t \in Tokens : Login(t) \/ Logout(t)

Spec == Init /\ [][Next]_bookVars
====
