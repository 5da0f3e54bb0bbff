---- MODULE MCCoreSync ----
(***************************************************************************)
(* One searcher, three calls at a time.                                    *)
(***************************************************************************)
EXTENDS CoreSync, TLC

CONSTANTS i1, s1, n1, t1, t2, c1, c2, c3

OneId == {i1}
OneSlug == {s1}
OneTitle == {n1}
TwoTenders == {t1, t2}
ThreeCalls == {c1, c2, c3}
MCSlugOf == i1 :> s1

MCSymmetry ==
  Permutations(TwoTenders) \cup Permutations(ThreeCalls)
====
