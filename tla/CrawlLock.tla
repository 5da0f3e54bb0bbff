---- MODULE CrawlLock ----
(***************************************************************************)
(* What handleRunSearcher promises to whoever presses "run": per searcher  *)
(* at most one crawl at a time, and a crawl that starts ends.  A restart   *)
(* of the service ends all of them.                                        *)
(***************************************************************************)
CONSTANTS Searchers, Crawls

VARIABLE crawlers   \* [Searchers -> SUBSET Crawls]

NoCrawls == [i \in Searchers |-> {}]

Init == crawlers = NoCrawls

Start(i, r) ==
  /\ crawlers[i] = {}
  /\ crawlers' = [crawlers EXCEPT ![i] = {r}]

Stop(i, r) ==
  /\ crawlers[i] = {r}
  /\ crawlers' = [crawlers EXCEPT ![i] = {}]

Restart == crawlers' = NoCrawls

Next ==
  \/ \E i \in Searchers, r \in Crawls : Start(i, r) \/ Stop(i, r)
  \/ Restart

Fairness == \A i \in Searchers, r \in Crawls : WF_crawlers(Stop(i, r))

Spec == Init /\ [][Next]_crawlers /\ Fairness
====
