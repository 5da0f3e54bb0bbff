---- MODULE CrawlRuns ----
(***************************************************************************)
(* POST /searchers/{id}/run (handleRunSearcher) and the background crawl   *)
(* it starts (crawlSearcher), both in internal/httpapi/searchers.go, next  *)
(* to every other handler of the service.                                  *)
(*                                                                         *)
(* A run slot r stands for one run after another, and for the run_id that  *)
(* run drew.  Its handler reads the searcher, sets last_run_at, ensures    *)
(* the category, claims the searcher in the map s.runs and starts the      *)
(* goroutine, which walks the EIS listing with the configuration READ AT   *)
(* THE START and syncs page after page under the version read then.        *)
(*                                                                         *)
(* The listing itself is FetchPages; here it is the set of tenders a       *)
(* configuration can ever match, handed over in non-empty pieces.          *)
(***************************************************************************)
EXTENDS ProfileApi

CONSTANTS
  Runs,           \* slots for run requests and the crawls they start
  Paths,          \* spellings of an id in the request path
  IdOf,           \* [Paths -> Ids], how PostgreSQL parses a spelling as uuid
  Hits,           \* [Filters -> SUBSET Tenders]
  Nobody          \* no entry in s.runs

VARIABLES
  job,            \* [Runs -> JobStates]
  runs            \* Server.runs: [Paths -> Runs \cup {Nobody}]

\* An id is its own canonical spelling.
ASSUME RunConstants ==
  /\ Ids \subseteq Paths
  /\ IdOf \in [Paths -> Ids]
  /\ \A i \in Ids : IdOf[i] = i
  /\ Hits \in [Filters -> SUBSET Tenders]
  /\ Nobody \notin Runs

vars == <<apiVars, job, runs>>

JobStates ==
  [pc : {"idle"}]
    \cup [pc : {"read", "touched", "ensured"}, path : Paths, held : Profiles]
    \cup [pc : {"crawling", "ending"}, path : Paths, held : Profiles,
          found : SUBSET Tenders]

IdleJob == [pc |-> "idle"]

Init ==
  /\ ApiInit
  /\ job = [r \in Runs |-> IdleJob]
  /\ runs = [p \in Paths |-> Nobody]

TypeOK ==
  /\ ApiTypeOK
  /\ job \in [Runs -> JobStates]
  /\ runs \in [Paths -> Runs \cup {Nobody}]

\* A run past its first statement and before the end of its crawl.
Busy(r) == job[r].pc # "idle"

Crawling(r) == job[r].pc \in {"crawling", "ending"}

CrawlersOf(i) == {r \in Runs : Crawling(r) /\ job[r].held.id = i}

\* GetSearchProfile.  A row that is not there, or is not the session user's,
\* is answered with 404.
ReadProfile(r, p) ==
  /\ job[r].pc = "idle"
  /\ Live(IdOf[p])
  /\ job' = [job EXCEPT ![r] = [pc |-> "read", path |-> p, held |-> Scan(IdOf[p])]]
  /\ UNCHANGED <<apiVars, runs>>

\* Mutants of TouchRun: its error is only logged; a row that is gone is waited for.
TouchRunAnyway(r) ==
  /\ job[r].pc = "read"
  /\ \/ TouchSearcherRun(job[r].held.user, IdOf[job[r].path])
     \/ UNCHANGED storeVars
  /\ job' = [job EXCEPT ![r].pc = "touched"]
  /\ UNCHANGED <<req, cat, coreEnabled, runs>>

TouchRunWaits(r) ==
  /\ job[r].pc = "read"
  /\ TouchSearcherRun(job[r].held.user, IdOf[job[r].path])
  /\ job' = [job EXCEPT ![r].pc = "touched"]
  /\ UNCHANGED <<req, cat, coreEnabled, runs>>

\* TouchSearcherRun; no row any more, or a failed statement, is a 500.
TouchRun(r) ==
  /\ job[r].pc = "read"
  /\ \/ /\ TouchSearcherRun(job[r].held.user, IdOf[job[r].path])
        /\ job' = [job EXCEPT ![r].pc = "touched"]
     \/ /\ job' = [job EXCEPT ![r] = IdleJob]
        /\ UNCHANGED storeVars
  /\ UNCHANGED <<req, cat, coreEnabled, runs>>

\* Mutant of EnsureRun: its error is dropped, as after a write.
EnsureRunAnyway(r) ==
  /\ job[r].pc = "touched"
  /\ coreEnabled
  /\ \E ok \in BOOLEAN : EnsureCategory(job[r].held.id, job[r].held.name, ok)
  /\ job' = [job EXCEPT ![r].pc = "ensured"]
  /\ UNCHANGED <<storeVars, req, coreEnabled, runs>>

\* EnsureCategory; here, unlike after a write, its error ends the request.
EnsureRun(r) ==
  /\ job[r].pc = "touched"
  /\ coreEnabled
  /\ \E ok \in BOOLEAN :
       /\ EnsureCategory(job[r].held.id, job[r].held.name, ok)
       /\ job' = [job EXCEPT ![r] = IF ok THEN [@ EXCEPT !.pc = "ensured"] ELSE IdleJob]
  /\ UNCHANGED <<storeVars, req, coreEnabled, runs>>

\* Without CORE_URL the reply says status "error".  (So it would without an EIS
\* client, but cmd/search/main.go never leaves that one nil.)
RefuseRun(r) ==
  /\ job[r].pc = "touched"
  /\ ~coreEnabled
  /\ job' = [job EXCEPT ![r] = IdleJob]
  /\ UNCHANGED <<apiVars, runs>>

\* Mutant of ClaimRun: Store instead of LoadOrStore.
ClaimRunUnchecked(r) ==
  /\ job[r].pc = "ensured"
  /\ runs' = [runs EXCEPT ![job[r].path] = r]
  /\ job' = [job EXCEPT ![r] = [pc |-> "crawling", path |-> @.path,
                                held |-> @.held, found |-> {}]]
  /\ UNCHANGED apiVars

\* s.runs.LoadOrStore under the spelling in the path, then `go s.crawlSearcher`.
ClaimRun(r) ==
  /\ job[r].pc = "ensured"
  /\ runs[job[r].path] = Nobody
  /\ runs' = [runs EXCEPT ![job[r].path] = r]
  /\ job' = [job EXCEPT ![r] = [pc |-> "crawling", path |-> @.path,
                                held |-> @.held, found |-> {}]]
  /\ UNCHANGED apiVars

\* Loaded: the reply carries the run_id found, and nothing is started.
JoinRun(r) ==
  /\ job[r].pc = "ensured"
  /\ runs[job[r].path] # Nobody
  /\ job' = [job EXCEPT ![r] = IdleJob]
  /\ UNCHANGED <<apiVars, runs>>

\* One page with new hits: the callback syncs it; an error of the sync ends
\* the crawl.  Name, filters and version are those of the snapshot.
CrawlPage(r) ==
  /\ job[r].pc = "crawling"
  /\ \E fresh \in SUBSET (Hits[job[r].held.filters] \ job[r].found), ok \in BOOLEAN :
       /\ fresh # {}
       /\ SyncSearchConfig(job[r].held.id, job[r].held.name, job[r].held.ver, fresh, ok)
       /\ job' = IF ok THEN [job EXCEPT ![r].found = @ \cup fresh]
                        ELSE [job EXCEPT ![r].pc = "ending"]
  /\ UNCHANGED <<storeVars, req, coreEnabled, runs>>

\* Mutant of EndCrawl: the entry is deleted at the end of a crawl without error,
\* and not by a deferred call.
EndCrawlOnSuccess(r) ==
  /\ Crawling(r)
  /\ runs' = IF job[r].pc = "ending" THEN runs
             ELSE [runs EXCEPT ![job[r].held.id] = Nobody]
  /\ job' = [job EXCEPT ![r] = IdleJob]
  /\ UNCHANGED apiVars

\* FetchPages returns (the listing ended, or seemed to; an EIS or sync error;
\* the page limit; the 4 h deadline) and `defer s.runs.Delete(p.ID)` runs.
EndCrawl(r) ==
  /\ Crawling(r)
  /\ runs' = [runs EXCEPT ![job[r].held.id] = Nobody]
  /\ job' = [job EXCEPT ![r] = IdleJob]
  /\ UNCHANGED apiVars

\* The process stops at any point and is started again: handlers, goroutines
\* and s.runs are lost, the database and the core keep what they have.
Restart ==
  /\ coreEnabled' \in CoreSettings
  /\ job' = [r \in Runs |-> IdleJob]
  /\ runs' = [p \in Paths |-> Nobody]
  /\ req' = [q \in Requests |-> IdleRequest]
  /\ UNCHANGED <<storeVars, cat>>

RunHandler(r) ==
  TouchRun(r) \/ EnsureRun(r) \/ RefuseRun(r) \/ ClaimRun(r) \/ JoinRun(r)

Next ==
  \/ ApiNext /\ UNCHANGED <<job, runs>>
  \/ \E r \in Runs, p \in Paths : ReadProfile(r, p)
  \/ \E r \in Runs : RunHandler(r) \/ CrawlPage(r) \/ EndCrawl(r)
  \/ Restart

(***************************************************************************)
(* A run handler reads no body and each of its calls returns: SQL          *)
(* statements on one row, and core calls under the client's 120 s limit.   *)
(* A crawl ends because its context expires after 4 h and every wait and   *)
(* call in FetchPages and in the sync watches that context.  PUT requests  *)
(* get no fairness: the server sets no limit on reading a request body.    *)
(***************************************************************************)
Fairness ==
  \A r \in Runs : WF_vars(RunHandler(r)) /\ WF_vars(EndCrawl(r))

Spec == Init /\ [][Next]_vars /\ Fairness

----------------------------------------------------------------------------
\* Never two crawls of one searcher at a time, across overlapping run requests,
\* a DELETE or PUT in between, and restarts.
OneCrawlPerSearcher ==
  \A r, s \in Runs :
    Crawling(r) /\ Crawling(s) /\ job[r].held.id = job[s].held.id => r = s

\* s.runs holds exactly the crawls that are going on: no crawl loses its entry
\* and no entry outlives its crawl, which would block the searcher until the
\* next restart.  "In-flight crawl" is what the comment on the field says.
RunsMapMatchesCrawls ==
  \A p \in Paths, r \in Runs :
    runs[p] = r <=> Crawling(r) /\ job[r].path = p

\* The observations of ApiObservations together with what run handlers and
\* crawls hold.
HeldByRuns == {job[r].held : r \in {s \in Runs : Busy(s)}}

Observations == ApiObservations \cup HeldByRuns

\* A crawl syncs the hits of its filters under its version; whoever else sees
\* that version of the searcher, at any time, sees those same filters.
VersionPinsCrawls ==
  \A s, t \in Observations :
    s.id = t.id /\ s.ver = t.ver => s.filters = t.filters

\* zakupki-core never records a version the searcher has not reached, although
\* syncs carry the version read long before and race with PUTs and DELETE.
SyncedNotAhead ==
  \A i \in Ids : cat[i].synced <= profile[i].ver

\* A crawl only runs for a searcher whose category exists.
CrawlHasCategory ==
  \A r \in Runs :
    job[r].pc \in {"ensured", "crawling", "ending"} => HasCategory(job[r].held.id)

\* last_run_at is set before a run answers anything but an error, and no PUT
\* that read the row earlier takes it back.
AcceptedRunRecorded ==
  \A r \in Runs :
    job[r].pc \notin {"idle", "read"} => profile[job[r].held.id].ran

\* Every entry of s.runs goes away again, so that the searcher can be run again.
KeysReleased ==
  \A p \in Paths : (runs[p] # Nobody) ~> (runs[p] = Nobody)

\* A run request is answered, whatever the other handlers do to its searcher.
RunsAnswered ==
  \A r \in Runs :
    (job[r].pc \in {"read", "touched", "ensured"})
      ~> (job[r].pc \notin {"read", "touched", "ensured"})

\* Nothing cancels the crawls of a deleted searcher, and a handler that read it
\* before the DELETE may still start one; all of them end, for good.
DeletedGoesQuiet ==
  \A i \in Ids : (status[i] = "deleted") ~> [](CrawlersOf(i) = {})

\* The order in which a run goes through its stages.
Rank == [read |-> 1, touched |-> 2, ensured |-> 3, crawling |-> 4, ending |-> 5]

\* What is left of a deleted searcher runs down: no run reads it any more, one
\* that has only read it gets no further, and one that is further on keeps its
\* snapshot and only goes forward, whatever the other handlers and crawls do.
DeletedRunsDown ==
  [][\A i \in Ids, r \in Runs :
       status[i] = "deleted" /\ Busy(r)' /\ job'[r].held.id = i =>
         /\ Busy(r)
         /\ job'[r].held = job[r].held
         /\ Rank[job[r].pc] <= Rank[job'[r].pc]
         /\ job[r].pc = "read" => job'[r].pc = "read"]_vars

\* Clients use the spelling of an id that the service returns.
OneSpelling == \A p \in Paths : IdOf[p] = p

\* The refinement mapping: who crawls which searcher.
CrawlersNow == [i \in Ids |-> CrawlersOf(i)]

Lock == INSTANCE CrawlLock WITH Searchers <- Ids, Crawls <- Runs, crawlers <- CrawlersNow

\* Run handlers, crawls and s.runs implement the promise of CrawlLock.
ImplementsCrawlLock == Lock!Spec

----------------------------------------------------------------------------
\* Once a crawl has ended that recorded the current version, the list in
\* zakupki-core is the current filters' (docs/openapi.yaml: sync removes what
\* is not in the snapshot and then stores synced_config_version).
SyncedListMatchesFilters ==
  \A i \in Ids :
    Live(i) /\ CrawlersOf(i) = {} /\ cat[i].synced = profile[i].ver =>
      cat[i].tenders \subseteq Hits[profile[i].cfg.filters]
====
