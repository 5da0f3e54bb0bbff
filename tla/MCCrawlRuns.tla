---- MODULE MCCrawlRuns ----
(***************************************************************************)
(* One user.  The second spelling of an id, `alias`, is used by one run    *)
(* only; everywhere else a searcher has the one spelling clients are given.*)
(***************************************************************************)
EXTENDS CrawlRuns, TLC

CONSTANTS u1, i1, n1, n2, d1, empty, f1, f2, t1, t2, r1, r2, q1, q2, alias

OneId == {i1}
OneName == {n1}
TwoNames == {n1, n2}
MCDescs == {empty, d1}
MCFilters == {f1, f2}
MCTenders == {t1, t2}

\* Each configuration matches a notice of its own.
MCHits == f1 :> {t1} @@ f2 :> {t2}
SameHits == [f \in MCFilters |-> {t1}]

TwoRuns == {r1, r2}
TwoRequests == {q1, q2}
SlotSymmetry == Permutations(TwoRuns) \cup Permutations(TwoRequests)

OwnSpelling == [i \in Ids |-> i]
WithAlias == {i1, alias}
AliasOf == i1 :> i1 @@ alias :> i1

Body(api, name, filters, auto) ==
  [api |-> api, name |-> name, desc |-> Absent, filters |-> filters, auto |-> auto]

\* A name-only PUT, and a change to either configuration.
MCBodies ==
  {Body("searchers", n1, Absent, Absent),
   Body("searchers", Absent, f1, Absent),
   Body("searchers", Absent, f2, Absent)}

\* A change of filters only.
FilterBodies == {Body("searchers", Absent, f2, Absent)}
====
