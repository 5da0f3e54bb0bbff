---- MODULE MCSessions ----
(***************************************************************************)
(* Two users, three tokens, two requests at a time.                        *)
(***************************************************************************)
EXTENDS Sessions, TLC

CONSTANTS u1, u2, t1, t2, t3, q1, q2

TwoUsers == {u1, u2}
ThreeTokens == {t1, t2, t3}
TwoRequests == {q1, q2}

\* The clocks agree, or the service's is ahead or behind.
MCDrifts == {-1, 0, 1}

MCSymmetry ==
  Permutations(TwoUsers) \cup Permutations(ThreeTokens) \cup Permutations(TwoRequests)
====
