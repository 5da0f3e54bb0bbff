---- MODULE MCProfileApi ----
(***************************************************************************)
(* Two users, two searcher ids, two overlapping requests; bodies of either *)
(* API with names, filters and auto_ai given, left out or blank.           *)
(***************************************************************************)
EXTENDS ProfileApi, TLC

CONSTANTS u1, u2, i1, i2, n1, n2, d1, empty, f1, f2, t1, r1, r2

MCUsers == {u1, u2}
MCIds == {i1, i2}
MCNames == {n1, n2}
OneDesc == {empty}
MCDescs == {empty, d1}
MCFilters == {f1, f2}
MCTenders == {t1}
MCRequests == {r1, r2}
RequestSymmetry == Permutations(MCRequests)

Body(api, name, desc, filters, auto) ==
  [api |-> api, name |-> name, desc |-> desc, filters |-> filters, auto |-> auto]

\* Bodies of POST and PUT on /searchers and on /search-profiles.
MCBodies ==
  {Body("searchers", n2, Absent, f2, Absent),
   Body("searchers", n1, Absent, Absent, TRUE),
   Body("search-profiles", n1, Absent, f1, Absent),
   Body("search-profiles", Blank, Blank, Absent, FALSE)}

\* Bodies with one field each, for the runs about partial updates.
PartialBodies ==
  {Body("searchers", n2, Absent, Absent, Absent),
   Body("search-profiles", n2, Absent, Absent, Absent),
   Body("searchers", Absent, Absent, f2, Absent)}
====
