\* Overlapping logins, requests and logouts of two users, with restarts, expiry and failing statements.
SPECIFICATION Spec
CONSTANTS
  u1 = u1
  u2 = u2
  t1 = t1
  t2 = t2
  t3 = t3
  q1 = q1
  q2 = q2
  NoSession = NoSession
  Users <- TwoUsers
  Tokens <- ThreeTokens
  Requests <- TwoRequests
  TTLs = {0, 2}
  Drifts <- MCDrifts
  MaxTime = 3
SYMMETRY MCSymmetry
INVARIANTS
  TypeOK
  IssuedStaysValid
  LoggedOutStaysOut
PROPERTIES
  OnlyLiveSessionsAct
  ImplementsSessionBook
