---- MODULE CrawlRunsProofs ----
(***************************************************************************)
(* Theorems about CrawlRuns, for every number of users, searchers,         *)
(* requests and runs, every listing and every bound on config_version.     *)
(***************************************************************************)
EXTENDS CrawlRuns, TLAPS

----------------------------------------------------------------------------
(* The table.                                                              *)

\* What a handler reads from a well-formed table is a well-formed searcher.
LEMMA ScanType ==
  ASSUME StoreTypeOK, NEW i \in Ids
  PROVE  Scan(i) \in Profiles
BY DEF StoreTypeOK, Scan, Profiles, Rows, StoredConfigs

\* INSERT leaves the table well formed.
LEMMA CreateType ==
  ASSUME StoreTypeOK, NEW u \in Users, NEW i \in Ids, NEW b \in Bodies,
         b.name \in Names, CreateSearchProfile(u, i, NewProfile(b))
  PROVE  StoreTypeOK'
<1>1. b \in BodyType
  BY ApiConstants
<1>2. TrimmedDesc(b.desc) \in Descs
  BY StoreConstants DEF TrimmedDesc
<1>3. NewProfile(b).filters \in Filters
  BY <1>1, StoreConstants DEF NewProfile, BodyType
<1>4. NewProfile(b).auto \in BOOLEAN
  BY <1>1 DEF NewProfile, BodyType
<1>5. NewProfile(b).name \in Names /\ NewProfile(b).desc \in Descs
  BY <1>2 DEF NewProfile
<1> DEFINE new == [user |-> u, name |-> NewProfile(b).name, desc |-> NewProfile(b).desc,
                   cfg |-> Stored(NewProfile(b).filters), auto |-> NewProfile(b).auto,
                   ran |-> FALSE, ver |-> 1]
<1>6. new \in Rows
  BY <1>3, <1>4, <1>5 DEF Rows, StoredConfigs, Stored
<1>7. profile' = [profile EXCEPT ![i] = new] /\ status' = [status EXCEPT ![i] = "live"]
  BY DEF CreateSearchProfile
<1> HIDE DEF new
<1> QED
  BY <1>6, <1>7 DEF StoreTypeOK

\* The row UPDATE writes is a row, and its version has not gone down.
LEMMA UpdatedType ==
  ASSUME NEW row \in Rows, NEW p \in Profiles
  PROVE  /\ Updated(row, p) \in Rows
         /\ Updated(row, p).ver >= row.ver
         /\ Updated(row, p).ran = row.ran
<1> DEFINE v == IF row.cfg # Stored(p.filters) THEN row.ver + 1 ELSE row.ver
<1>1. v \in Nat \ {0} /\ v >= row.ver
  BY DEF Rows
<1>2. Stored(p.filters) \in StoredConfigs
  BY DEF Stored, StoredConfigs, Profiles
<1>3. Updated(row, p) = [row EXCEPT !.name = p.name, !.desc = p.desc, !.auto = p.auto,
                                    !.cfg = Stored(p.filters), !.ver = v]
  BY DEF Updated
<1> HIDE DEF v
<1> QED
  BY <1>1, <1>2, <1>3 DEF Rows, Profiles

\* The merge of a row with a request body is a searcher, of the same id.
LEMMA MergedType ==
  ASSUME NEW held \in Profiles, NEW b \in Bodies
  PROVE  /\ Merged(held, b) \in Profiles
         /\ Merged(held, b).id = held.id
         /\ Merged(held, b).ver = held.ver
<1>1. b \in BodyType
  BY ApiConstants
<1>2. TrimmedDesc(b.desc) \in Descs
  BY StoreConstants DEF TrimmedDesc
<1> QED
  BY <1>1, <1>2 DEF Merged, Profiles, BodyType

----------------------------------------------------------------------------
(* The core.                                                               *)

\* Replacing one category by a titled one.
LEMMA CategoryReplaced ==
  ASSUME CatalogTypeOK, NEW i \in Ids, NEW new \in Categories, new.title \in Names,
         cat' = [cat EXCEPT ![i] = new]
  PROVE  /\ CatalogTypeOK'
         /\ cat'[i].synced = new.synced
         /\ \A j \in Ids : j # i => cat'[j] = cat[j]
         /\ \A j \in Ids : HasCategory(j) => HasCategory(j)'
<1>1. CatalogTypeOK' /\ cat'[i] = new /\ \A j \in Ids : j # i => cat'[j] = cat[j]
  BY DEF CatalogTypeOK
<1> QED
  BY <1>1, ApiConstants DEF HasCategory

\* EnsureCategory keeps the catalogue well formed, no category goes away, and
\* success means there is one.
LEMMA EnsureType ==
  ASSUME CatalogTypeOK, NEW i \in Ids, NEW t \in Names, NEW ok \in BOOLEAN,
         EnsureCategory(i, t, ok)
  PROVE  /\ CatalogTypeOK'
         /\ \A j \in Ids : cat'[j].synced = cat[j].synced
         /\ \A j \in Ids : HasCategory(j) => HasCategory(j)'
         /\ ok => HasCategory(i)'
<1>1. CASE CategoryFound(i, ok)
  BY <1>1 DEF CategoryFound, CatalogTypeOK, HasCategory
<1>2. CASE CategoryCallFails(ok)
  BY <1>2 DEF CategoryCallFails, CatalogTypeOK, HasCategory
<1>3. CASE CategoryPosted(i, t, ok)
  BY <1>3, ApiConstants DEF CategoryPosted, CatalogTypeOK, Categories, HasCategory
<1> QED
  BY <1>1, <1>2, <1>3 DEF EnsureCategory

\* Upserting hits makes a category of that title and version.
LEMMA UpsertedType ==
  ASSUME NEW c \in Categories, NEW t \in Names, NEW hits \in SUBSET Tenders, NEW v \in Nat
  PROVE  /\ Upserted(c, t, hits, v) \in Categories
         /\ Upserted(c, t, hits, v).title = t
         /\ Upserted(c, t, hits, v).synced = v
BY DEF Upserted, Categories

\* A sync keeps the catalogue well formed, no category goes away, and only the
\* version of its own category may move, to the version it carries.
LEMMA SyncType ==
  ASSUME CatalogTypeOK, NEW i \in Ids, NEW t \in Names, NEW v \in Nat,
         NEW hits \in SUBSET Tenders, NEW ok \in BOOLEAN,
         SyncSearchConfig(i, t, v, hits, ok)
  PROVE  /\ CatalogTypeOK'
         /\ \A j \in Ids : j # i => cat'[j].synced = cat[j].synced
         /\ cat'[i].synced \in {cat[i].synced, v}
         /\ \A j \in Ids : HasCategory(j) => HasCategory(j)'
<1>1. CASE CategoryCallFails(ok)
  BY <1>1 DEF CategoryCallFails, CatalogTypeOK, HasCategory
<1>2. ASSUME NEW title \in TitlesAfter(i, t), NEW done \in SUBSET Tenders,
             NEW recorded \in Nat, recorded \in {cat[i].synced, v},
             cat' = [cat EXCEPT ![i] = Upserted(cat[i], title, done, recorded)]
      PROVE  /\ CatalogTypeOK'
             /\ \A j \in Ids : j # i => cat'[j].synced = cat[j].synced
             /\ cat'[i].synced \in {cat[i].synced, v}
             /\ \A j \in Ids : HasCategory(j) => HasCategory(j)'
  <2> DEFINE new == Upserted(cat[i], title, done, recorded)
  <2>1. cat[i] \in Categories /\ title \in Names
    BY DEF CatalogTypeOK, Categories, TitlesAfter
  <2>2. new \in Categories /\ new.title \in Names /\ new.synced = recorded
    BY <2>1, UpsertedType
  <2>3. cat' = [cat EXCEPT ![i] = new]
    BY <1>2
  <2> HIDE DEF new
  <2>4. /\ CatalogTypeOK'
        /\ cat'[i].synced = recorded
        /\ \A j \in Ids : j # i => cat'[j] = cat[j]
        /\ \A j \in Ids : HasCategory(j) => HasCategory(j)'
    BY <2>2, <2>3, CategoryReplaced
  <2> QED
    BY <1>2, <2>4
<1>3. cat[i].synced \in Nat
  BY DEF CatalogTypeOK, Categories
<1>4. CASE SyncCut(i, t, hits, ok)
  BY <1>2, <1>3, <1>4 DEF SyncCut
<1>5. CASE SyncApplied(i, t, v, hits, ok)
  BY <1>2, <1>3, <1>5 DEF SyncApplied
<1> QED
  BY <1>1, <1>4, <1>5 DEF SyncSearchConfig

----------------------------------------------------------------------------
(* The handlers.                                                           *)

\* What a request carries in each of its states.
LEMMA RequestCarries ==
  ASSUME ApiTypeOK, NEW q \in Requests
  PROVE  /\ req[q].pc = "read" => req[q].body \in Bodies /\ req[q].held \in Profiles
         /\ req[q].pc = "ensure" => req[q].id \in Ids /\ req[q].title \in Names
BY DEF ApiTypeOK, RequestStates

\* The state a request is in after its write.
LEMMA AfterWriteType ==
  ASSUME NEW b \in Bodies, NEW i \in Ids, NEW n \in Names
  PROVE  AfterWrite(b.api, i, n) \in RequestStates
BY DEF AfterWrite, RequestStates, IdleRequest

LEMMA ApiInitTyped == ApiInit => ApiTypeOK
<1> SUFFICES ASSUME ApiInit PROVE ApiTypeOK
  OBVIOUS
<1>1. StoreTypeOK
  BY StoreConstants DEF ApiInit, StoreInit, StoreTypeOK, DemoRow, Rows, StoredConfigs
<1>2. CatalogTypeOK
  BY DEF ApiInit, CatalogInit, CatalogTypeOK, Categories
<1>3. req \in [Requests -> RequestStates] /\ coreEnabled \in CoreSettings
  BY DEF ApiInit, IdleRequest, RequestStates
<1> QED
  BY <1>1, <1>2, <1>3 DEF ApiTypeOK

\* One step of a handler keeps table, requests and catalogue well formed.
LEMMA ApiStepTyped ==
  ASSUME ApiTypeOK, ApiNext
  PROVE  ApiTypeOK'
<1> USE DEF ApiTypeOK
<1>1. ASSUME NEW q \in Requests, NEW u \in Users, NEW i \in Ids, NEW b \in Bodies,
             CreateProfile(q, u, i, b)
      PROVE  ApiTypeOK'
  <2>1. StoreTypeOK'
    BY <1>1, CreateType DEF CreateProfile
  <2>2. AfterWrite(b.api, i, b.name) \in RequestStates
    BY <1>1, AfterWriteType DEF CreateProfile
  <2> QED
    BY <1>1, <2>1, <2>2 DEF CreateProfile, CatalogTypeOK
<1>2. ASSUME NEW q \in Requests, NEW i \in Ids, NEW b \in Bodies, BeginUpdate(q, i, b)
      PROVE  ApiTypeOK'
  <2>1. [pc |-> "read", body |-> b, held |-> Scan(i)] \in RequestStates
    BY ScanType DEF RequestStates
  <2> QED
    BY <1>2, <2>1 DEF BeginUpdate, storeVars, StoreTypeOK, CatalogTypeOK
<1>3. ASSUME NEW q \in Requests, CommitUpdate(q)
      PROVE  ApiTypeOK'
  <2> DEFINE p == Merged(req[q].held, req[q].body)
  <2>1. p \in Profiles
    BY <1>3, RequestCarries, MergedType DEF CommitUpdate
  <2>2. p.id \in Ids /\ p.name \in Names
    BY <2>1 DEF Profiles
  <2>3. Updated(profile[p.id], p) \in Rows
    BY <2>1, <2>2, UpdatedType DEF StoreTypeOK
  <2>4. AfterWrite(req[q].body.api, p.id, p.name) \in RequestStates
    BY <1>3, <2>2, RequestCarries, AfterWriteType DEF CommitUpdate
  <2>5. /\ profile' = [profile EXCEPT ![p.id] = Updated(@, p)]
        /\ UNCHANGED <<status, cat, coreEnabled>>
        /\ req' = [req EXCEPT ![q] = AfterWrite(req[q].body.api, p.id, p.name)]
    BY <1>3 DEF CommitUpdate, UpdateSearchProfile
  <2> HIDE DEF p
  <2> QED
    BY <2>2, <2>3, <2>4, <2>5 DEF StoreTypeOK, CatalogTypeOK
<1>4. ASSUME NEW q \in Requests, AbandonUpdate(q)
      PROVE  ApiTypeOK'
  BY <1>4 DEF AbandonUpdate, storeVars, StoreTypeOK, CatalogTypeOK, RequestStates, IdleRequest
<1>5. ASSUME NEW q \in Requests, FinishEnsure(q)
      PROVE  ApiTypeOK'
  <2>1. CatalogTypeOK'
    BY <1>5, RequestCarries, EnsureType DEF FinishEnsure
  <2>2. req' \in [Requests -> RequestStates]
    BY <1>5 DEF FinishEnsure, RequestStates, IdleRequest
  <2> QED
    BY <1>5, <2>1, <2>2 DEF FinishEnsure, storeVars, StoreTypeOK
<1>6. ASSUME NEW i \in Ids, NEW enabled \in BOOLEAN, SetAutoAI(i, enabled)
      PROVE  ApiTypeOK'
  BY <1>6 DEF SetAutoAI, SetSearcherAutoAI, StoreTypeOK, Rows, CatalogTypeOK
<1>7. ASSUME NEW i \in Ids, Delete(i)
      PROVE  ApiTypeOK'
  BY <1>7 DEF Delete, DeleteSearchProfile, StoreTypeOK, CatalogTypeOK
<1> QED
  BY <1>1, <1>2, <1>3, <1>4, <1>5, <1>6, <1>7 DEF ApiNext, RequestStep

----------------------------------------------------------------------------
(* Runs: type correctness.                                                 *)

\* What a run carries in each of its states.
LEMMA JobCarries ==
  ASSUME TypeOK, NEW r \in Runs
  PROVE  /\ Busy(r) => job[r].path \in Paths /\ job[r].held \in Profiles
         /\ Crawling(r) => job[r].found \in SUBSET Tenders
         /\ job[r].pc \in {"idle", "read", "touched", "ensured", "crawling", "ending"}
BY DEF TypeOK, JobStates, Busy, Crawling

\* The states of a run that are built from a path, a searcher and a set of hits.
LEMMA JobStatesMade ==
  ASSUME NEW p \in Paths, NEW h \in Profiles, NEW f \in SUBSET Tenders
  PROVE  /\ IdleJob \in JobStates
         /\ \A pc \in {"read", "touched", "ensured"} :
              [pc |-> pc, path |-> p, held |-> h] \in JobStates
         /\ \A pc \in {"crawling", "ending"} :
              [pc |-> pc, path |-> p, held |-> h, found |-> f] \in JobStates
BY DEF JobStates, IdleJob

\* Moving a run on to another state keeps its other fields, hence its type.
LEMMA JobAdvanced ==
  ASSUME TypeOK, NEW r \in Runs
  PROVE  /\ IdleJob \in JobStates
         /\ job[r].pc \in {"read", "touched", "ensured"} =>
              \A pc \in {"read", "touched", "ensured"} : [job[r] EXCEPT !.pc = pc] \in JobStates
         /\ job[r].pc = "crawling" =>
              /\ [job[r] EXCEPT !.pc = "ending"] \in JobStates
              /\ \A f \in SUBSET Tenders : [job[r] EXCEPT !.found = @ \cup f] \in JobStates
<1>1. job[r] \in JobStates
  BY DEF TypeOK
<1>2. IdleJob \in JobStates
  BY DEF IdleJob, JobStates
<1>3. ASSUME job[r].pc \in {"read", "touched", "ensured"}
      PROVE  \A pc \in {"read", "touched", "ensured"} : [job[r] EXCEPT !.pc = pc] \in JobStates
  BY <1>1, <1>3 DEF JobStates
<1>4. ASSUME job[r].pc = "crawling"
      PROVE  /\ [job[r] EXCEPT !.pc = "ending"] \in JobStates
             /\ \A f \in SUBSET Tenders : [job[r] EXCEPT !.found = @ \cup f] \in JobStates
  BY <1>1, <1>4 DEF JobStates
<1> QED
  BY <1>2, <1>3, <1>4

\* Every step keeps the state well formed.
LEMMA StepTyped ==
  ASSUME TypeOK, [Next]_vars
  PROVE  TypeOK'
<1>0. ApiTypeOK /\ job \in [Runs -> JobStates] /\ runs \in [Paths -> Runs \cup {Nobody}]
  BY DEF TypeOK
<1>a. ASSUME UNCHANGED apiVars PROVE ApiTypeOK'
  BY <1>0, <1>a DEF apiVars, storeVars, ApiTypeOK, StoreTypeOK, CatalogTypeOK
<1>1. CASE ApiNext /\ UNCHANGED <<job, runs>>
  BY <1>0, <1>1, ApiStepTyped DEF TypeOK
<1>2. ASSUME NEW r \in Runs, NEW p \in Paths, ReadProfile(r, p)
      PROVE  TypeOK'
  <2>1. Scan(IdOf[p]) \in Profiles
    BY <1>0, RunConstants, ScanType DEF ApiTypeOK
  <2>2. [pc |-> "read", path |-> p, held |-> Scan(IdOf[p])] \in JobStates
    BY <2>1 DEF JobStates
  <2> QED
    BY <1>0, <1>a, <1>2, <2>2 DEF ReadProfile, TypeOK
<1>3. ASSUME NEW r \in Runs, TouchRun(r)
      PROVE  TypeOK'
  <2>1. job[r].path \in Paths /\ IdOf[job[r].path] \in Ids
    BY <1>3, JobCarries, RunConstants DEF TouchRun, Busy
  <2>2. StoreTypeOK'
    <3>1. CASE TouchSearcherRun(job[r].held.user, IdOf[job[r].path])
      BY <1>0, <2>1, <3>1 DEF TouchSearcherRun, ApiTypeOK, StoreTypeOK, Rows
    <3>2. CASE UNCHANGED storeVars
      BY <1>0, <3>2 DEF storeVars, ApiTypeOK, StoreTypeOK
    <3> QED
      BY <1>3, <3>1, <3>2 DEF TouchRun
  <2>3. ApiTypeOK'
    BY <1>0, <1>3, <2>2 DEF TouchRun, ApiTypeOK, CatalogTypeOK
  <2>4. job' \in [Runs -> JobStates]
    <3>1. [job[r] EXCEPT !.pc = "touched"] \in JobStates /\ IdleJob \in JobStates
      BY <1>3, JobAdvanced DEF TouchRun
    <3> QED
      BY <1>0, <1>3, <3>1 DEF TouchRun
  <2> QED
    BY <1>0, <1>3, <2>3, <2>4 DEF TouchRun, TypeOK
<1>4. ASSUME NEW r \in Runs, EnsureRun(r)
      PROVE  TypeOK'
  <2>1. job[r].held.id \in Ids /\ job[r].held.name \in Names
    BY <1>4, JobCarries DEF EnsureRun, Busy, Profiles
  <2>2. PICK ok \in BOOLEAN :
          /\ EnsureCategory(job[r].held.id, job[r].held.name, ok)
          /\ job' = [job EXCEPT ![r] = IF ok THEN [@ EXCEPT !.pc = "ensured"] ELSE IdleJob]
    BY <1>4 DEF EnsureRun
  <2>3. CatalogTypeOK'
    BY <1>0, <2>1, <2>2, EnsureType DEF ApiTypeOK
  <2>4. ApiTypeOK'
    BY <1>0, <1>4, <2>3 DEF EnsureRun, ApiTypeOK, storeVars, StoreTypeOK
  <2>5. [job[r] EXCEPT !.pc = "ensured"] \in JobStates /\ IdleJob \in JobStates
    BY <1>4, JobAdvanced DEF EnsureRun
  <2>6. job' \in [Runs -> JobStates]
    BY <1>0, <2>2, <2>5
  <2> QED
    BY <1>0, <1>4, <2>4, <2>6 DEF EnsureRun, TypeOK
<1>5. ASSUME NEW r \in Runs, RefuseRun(r) \/ JoinRun(r)
      PROVE  TypeOK'
  BY <1>0, <1>a, <1>5, JobAdvanced DEF RefuseRun, JoinRun, TypeOK
<1>6. ASSUME NEW r \in Runs, ClaimRun(r)
      PROVE  TypeOK'
  <2>1. job[r].path \in Paths /\ job[r].held \in Profiles
    BY <1>6, JobCarries DEF ClaimRun, Busy
  <2>2. [pc |-> "crawling", path |-> job[r].path, held |-> job[r].held, found |-> {}]
          \in JobStates
    BY <2>1, JobStatesMade
  <2> QED
    BY <1>0, <1>a, <1>6, <2>1, <2>2 DEF ClaimRun, TypeOK
<1>7. ASSUME NEW r \in Runs, CrawlPage(r)
      PROVE  TypeOK'
  <2>1. job[r].held \in Profiles
    BY <1>7, JobCarries DEF CrawlPage, Busy
  <2>2. /\ job[r].held.id \in Ids /\ job[r].held.name \in Names
        /\ job[r].held.ver \in Nat /\ Hits[job[r].held.filters] \in SUBSET Tenders
    BY <2>1, RunConstants DEF Profiles
  <2>3. PICK fresh \in SUBSET (Hits[job[r].held.filters] \ job[r].found), ok \in BOOLEAN :
          /\ SyncSearchConfig(job[r].held.id, job[r].held.name, job[r].held.ver, fresh, ok)
          /\ job' = IF ok THEN [job EXCEPT ![r].found = @ \cup fresh]
                           ELSE [job EXCEPT ![r].pc = "ending"]
    BY <1>7 DEF CrawlPage
  <2>4. fresh \in SUBSET Tenders
    BY <2>2, <2>3
  <2>5. CatalogTypeOK'
    BY <1>0, <2>2, <2>3, <2>4, SyncType DEF ApiTypeOK
  <2>6. ApiTypeOK'
    BY <1>0, <1>7, <2>5 DEF CrawlPage, ApiTypeOK, storeVars, StoreTypeOK
  <2>7. /\ [job[r] EXCEPT !.found = @ \cup fresh] \in JobStates
        /\ [job[r] EXCEPT !.pc = "ending"] \in JobStates
    BY <1>7, <2>4, JobAdvanced DEF CrawlPage
  <2>8. job' \in [Runs -> JobStates]
    <3>1. CASE ok
      BY <1>0, <2>3, <2>7, <3>1
    <3>2. CASE ~ok
      BY <1>0, <2>3, <2>7, <3>2
    <3> QED
      BY <3>1, <3>2
  <2> QED
    BY <1>0, <1>7, <2>6, <2>8 DEF CrawlPage, TypeOK
<1>8. ASSUME NEW r \in Runs, EndCrawl(r)
      PROVE  TypeOK'
  BY <1>0, <1>a, <1>8, JobAdvanced DEF EndCrawl, TypeOK
<1>9. CASE Restart
  BY <1>0, <1>9 DEF Restart, TypeOK, ApiTypeOK, storeVars, StoreTypeOK, CatalogTypeOK,
                    RequestStates, IdleRequest, JobStates, IdleJob
<1>10. CASE UNCHANGED vars
  BY <1>0, <1>a, <1>10 DEF vars, TypeOK
<1> QED
  BY <1>1, <1>2, <1>3, <1>4, <1>5, <1>6, <1>7, <1>8, <1>9, <1>10 DEF Next, RunHandler

LEMMA InitTyped == Init => TypeOK
BY ApiInitTyped DEF Init, TypeOK, JobStates, IdleJob

\* Every state the service reaches is well formed.
THEOREM TypeCorrect == Spec => []TypeOK
<1>1. Init => TypeOK
  BY InitTyped
<1>2. TypeOK /\ [Next]_vars => TypeOK'
  BY StepTyped
<1> QED
  BY <1>1, <1>2, PTL DEF Spec

----------------------------------------------------------------------------
(* One crawl per searcher.                                                 *)

\* A run works on the searcher its path names: what was read is that row.
HeldIsPath == \A r \in Runs : Busy(r) => job[r].held.id = IdOf[job[r].path]

\* s.runs alone is not inductive: EndCrawl deletes by id what ClaimRun stored by
\* path, so that path and id of a run have to be kept together.
LockInv == TypeOK /\ HeldIsPath /\ RunsMapMatchesCrawls

LEMMA LockInit == Init => LockInv
BY InitTyped, RunConstants
DEF Init, LockInv, HeldIsPath, RunsMapMatchesCrawls, Busy, Crawling, IdleJob

\* A page of a crawl changes nothing of a run but the hits found and whether the
\* crawl goes on.
LEMMA PageKeepsRuns ==
  ASSUME TypeOK, NEW r \in Runs, CrawlPage(r)
  PROVE  /\ UNCHANGED runs
         /\ \A s \in Runs : /\ Crawling(s)' <=> Crawling(s)
                            /\ Busy(s)' <=> Busy(s)
                            /\ job'[s].path = job[s].path /\ job'[s].held = job[s].held
<1>0. job \in [Runs -> JobStates]
  BY DEF TypeOK
<1>1. PICK j : /\ job' = [job EXCEPT ![r] = j]
               /\ j.path = job[r].path /\ j.held = job[r].held
               /\ j.pc \in {"crawling", "ending"}
  <2>1. job[r].pc = "crawling" /\ job[r] \in JobStates
    BY <1>0 DEF CrawlPage
  <2>2. PICK fresh \in SUBSET Tenders, ok \in BOOLEAN :
          job' = IF ok THEN [job EXCEPT ![r].found = @ \cup fresh]
                       ELSE [job EXCEPT ![r].pc = "ending"]
    BY <1>0, JobCarries, RunConstants DEF CrawlPage, Busy, Profiles
  <2>3. CASE ok
    <3> DEFINE j == [job[r] EXCEPT !.found = @ \cup fresh]
    <3>1. job' = [job EXCEPT ![r] = j]
      BY <2>2, <2>3
    <3>2. j.path = job[r].path /\ j.held = job[r].held /\ j.pc = "crawling"
      BY <2>1 DEF JobStates
    <3> HIDE DEF j
    <3> QED
      BY <3>1, <3>2
  <2>4. CASE ~ok
    <3> DEFINE j == [job[r] EXCEPT !.pc = "ending"]
    <3>1. job' = [job EXCEPT ![r] = j]
      BY <2>2, <2>4
    <3>2. j.path = job[r].path /\ j.held = job[r].held /\ j.pc = "ending"
      BY <2>1 DEF JobStates
    <3> HIDE DEF j
    <3> QED
      BY <3>1, <3>2
  <2> QED
    BY <2>3, <2>4
<1>2. UNCHANGED runs /\ job[r].pc = "crawling"
  BY DEF CrawlPage
<1>3. \A s \in Runs : /\ Crawling(s)' <=> Crawling(s)
                      /\ Busy(s)' <=> Busy(s)
                      /\ job'[s].path = job[s].path /\ job'[s].held = job[s].held
  BY <1>0, <1>1, <1>2 DEF Crawling, Busy
<1> QED
  BY <1>2, <1>3

LEMMA LockStep ==
  ASSUME OneSpelling, LockInv, [Next]_vars
  PROVE  LockInv'
<1>0. /\ TypeOK /\ TypeOK' /\ HeldIsPath /\ RunsMapMatchesCrawls
      /\ job \in [Runs -> JobStates] /\ runs \in [Paths -> Runs \cup {Nobody}]
  BY StepTyped DEF LockInv, TypeOK
<1> SUFFICES HeldIsPath' /\ RunsMapMatchesCrawls'
  BY <1>0 DEF LockInv
<1>a. ASSUME UNCHANGED <<job, runs>> PROVE HeldIsPath' /\ RunsMapMatchesCrawls'
  BY <1>0, <1>a DEF HeldIsPath, RunsMapMatchesCrawls, Busy, Crawling
\* A step that makes one run idle which is not crawling, or moves it before its claim.
<1>b. ASSUME NEW r \in Runs, NEW j \in JobStates, ~Crawling(r), UNCHANGED runs,
             job' = [job EXCEPT ![r] = j], j.pc \notin {"crawling", "ending"},
             j.pc # "idle" => j.held.id = IdOf[j.path]
      PROVE  HeldIsPath' /\ RunsMapMatchesCrawls'
  BY <1>0, <1>b DEF HeldIsPath, RunsMapMatchesCrawls, Busy, Crawling
<1>1. CASE ApiNext /\ UNCHANGED <<job, runs>>
  BY <1>1, <1>a
<1>2. ASSUME NEW r \in Runs, NEW p \in Paths, ReadProfile(r, p)
      PROVE  HeldIsPath' /\ RunsMapMatchesCrawls'
  <2> DEFINE j == [pc |-> "read", path |-> p, held |-> Scan(IdOf[p])]
  <2>1. j \in JobStates
    BY RunConstants, ScanType, <1>0 DEF TypeOK, ApiTypeOK, JobStates
  <2>2. j.held.id = IdOf[j.path] /\ j.pc = "read"
    BY DEF Scan
  <2>3. ~Crawling(r) /\ UNCHANGED runs /\ job' = [job EXCEPT ![r] = j]
    BY <1>2 DEF ReadProfile, Crawling
  <2> HIDE DEF j
  <2> QED
    BY <1>b, <2>1, <2>2, <2>3
<1>3. ASSUME NEW r \in Runs, TouchRun(r) \/ EnsureRun(r) \/ RefuseRun(r) \/ JoinRun(r)
      PROVE  HeldIsPath' /\ RunsMapMatchesCrawls'
  <2>1. job[r].pc \in {"read", "touched", "ensured"} /\ ~Crawling(r) /\ UNCHANGED runs
    BY <1>3 DEF TouchRun, EnsureRun, RefuseRun, JoinRun, Crawling
  <2>2. PICK j \in {IdleJob} \cup {[job[r] EXCEPT !.pc = pc] : pc \in {"touched", "ensured"}} :
          job' = [job EXCEPT ![r] = j]
    BY <1>3 DEF TouchRun, EnsureRun, RefuseRun, JoinRun
  <2>3. j \in JobStates
    BY <2>1, <2>2, <1>0, JobAdvanced
  <2>4. CASE j = IdleJob
    <3>1. j.pc = "idle"
      BY <2>4 DEF IdleJob
    <3> QED
      BY <1>b, <2>1, <2>2, <2>3, <3>1
  <2>5. CASE j # IdleJob
    <3>1. PICK pc \in {"touched", "ensured"} : j = [job[r] EXCEPT !.pc = pc]
      BY <2>2, <2>5
    <3>2. j.pc = pc /\ j.held = job[r].held /\ j.path = job[r].path
      BY <1>0, <2>1, <3>1 DEF JobStates
    <3>3. j.held.id = IdOf[j.path]
      BY <1>0, <2>1, <3>2 DEF HeldIsPath, Busy
    <3> QED
      BY <1>b, <2>1, <2>2, <2>3, <3>2, <3>3
  <2> QED
    BY <2>4, <2>5
<1>4. ASSUME NEW r \in Runs, ClaimRun(r)
      PROVE  HeldIsPath' /\ RunsMapMatchesCrawls'
  <2>1. job[r].path \in Paths
    BY <1>0, <1>4, JobCarries DEF ClaimRun, Busy
  <2>2. HeldIsPath'
    BY <1>0, <1>4 DEF ClaimRun, HeldIsPath, Busy
  <2>3. RunsMapMatchesCrawls'
    BY <1>0, <1>4, <2>1, RunConstants DEF ClaimRun, RunsMapMatchesCrawls, Crawling
  <2> QED
    BY <2>2, <2>3
<1>5. ASSUME NEW r \in Runs, CrawlPage(r)
      PROVE  HeldIsPath' /\ RunsMapMatchesCrawls'
  BY <1>0, <1>5, PageKeepsRuns DEF HeldIsPath, RunsMapMatchesCrawls
<1>6. ASSUME NEW r \in Runs, EndCrawl(r)
      PROVE  HeldIsPath' /\ RunsMapMatchesCrawls'
  <2>1. job[r].path \in Paths /\ job[r].held.id = job[r].path
    BY <1>0, <1>6, JobCarries DEF EndCrawl, Crawling, Busy, HeldIsPath, OneSpelling
  <2>2. runs[job[r].path] = r
    BY <1>0, <1>6, <2>1 DEF EndCrawl, RunsMapMatchesCrawls
  <2>3. HeldIsPath'
    BY <1>0, <1>6 DEF EndCrawl, HeldIsPath, Busy, IdleJob
  <2>4. RunsMapMatchesCrawls'
    BY <1>0, <1>6, <2>1, <2>2, RunConstants
    DEF EndCrawl, RunsMapMatchesCrawls, Crawling, IdleJob
  <2> QED
    BY <2>3, <2>4
<1>7. CASE Restart
  BY <1>7, RunConstants
  DEF Restart, HeldIsPath, RunsMapMatchesCrawls, Busy, Crawling, IdleJob
<1>8. CASE UNCHANGED vars
  BY <1>8, <1>a DEF vars
<1> QED
  BY <1>1, <1>2, <1>3, <1>4, <1>5, <1>6, <1>7, <1>8 DEF Next, RunHandler

\* With one spelling per id, s.runs holds exactly the crawls going on.
THEOREM MapMatchesCrawls == OneSpelling => (Spec => []RunsMapMatchesCrawls)
<1> SUFFICES ASSUME OneSpelling PROVE Spec => []RunsMapMatchesCrawls
  OBVIOUS
<1>1. Init => LockInv
  BY LockInit
<1>2. LockInv /\ [Next]_vars => LockInv'
  BY LockStep
<1>3. LockInv => RunsMapMatchesCrawls
  BY DEF LockInv
<1> QED
  BY <1>1, <1>2, <1>3, PTL DEF Spec

\* And no searcher is ever crawled twice at a time.
THEOREM OneCrawl == OneSpelling => (Spec => []OneCrawlPerSearcher)
<1> SUFFICES ASSUME OneSpelling PROVE Spec => []OneCrawlPerSearcher
  OBVIOUS
<1>1. Init => LockInv
  BY LockInit
<1>2. LockInv /\ [Next]_vars => LockInv'
  BY LockStep
<1>3. LockInv => OneCrawlPerSearcher
  <2> SUFFICES ASSUME LockInv, NEW r \in Runs, NEW s \in Runs, Crawling(r), Crawling(s),
                      job[r].held.id = job[s].held.id
               PROVE  r = s
    BY DEF OneCrawlPerSearcher
  <2>1. job[r].path \in Paths /\ job[s].path \in Paths /\ Busy(r) /\ Busy(s)
    BY JobCarries DEF LockInv, Crawling, Busy
  <2>2. job[r].path = job[s].path
    BY <2>1 DEF LockInv, HeldIsPath, OneSpelling
  <2> QED
    BY <2>1, <2>2 DEF LockInv, RunsMapMatchesCrawls
<1> QED
  BY <1>1, <1>2, <1>3, PTL DEF Spec

----------------------------------------------------------------------------
(* Refinement: run handlers, crawls and s.runs implement the safety part   *)
(* of CrawlLock.                                                           *)

\* Who crawls a searcher, read off s.runs.
Entries == [i \in Ids |-> {r \in Runs : runs[i] = r}]

\* A run that crawls is an entry of s.runs, under the id of its searcher.
LEMMA CrawlersAreEntries == OneSpelling /\ LockInv => CrawlersNow = Entries
<1> SUFFICES ASSUME OneSpelling, LockInv, NEW i \in Ids
             PROVE  CrawlersOf(i) = {r \in Runs : runs[i] = r}
  BY DEF CrawlersNow, Entries
<1>1. i \in Paths
  BY RunConstants
<1>2. ASSUME NEW r \in Runs, Crawling(r)
      PROVE  job[r].path \in Paths /\ job[r].held.id = job[r].path
  BY <1>2, JobCarries DEF LockInv, HeldIsPath, OneSpelling, Crawling, Busy
<1> QED
  BY <1>1, <1>2 DEF CrawlersOf, LockInv, RunsMapMatchesCrawls

\* The only steps that touch s.runs are claims, ends of crawls and restarts.
LEMMA EntriesChange ==
  ASSUME TypeOK, [Next]_vars
  PROVE  \/ UNCHANGED runs
         \/ \E r \in Runs : ClaimRun(r)
         \/ \E r \in Runs : EndCrawl(r)
         \/ Restart
BY PageKeepsRuns DEF Next, RunHandler, ReadProfile, TouchRun, EnsureRun, RefuseRun, JoinRun,
                     vars

\* Every step is a step of CrawlLock, or changes nothing it sees.
LEMMA LockSimulated ==
  ASSUME OneSpelling, LockInv, [Next]_vars,
         CrawlersNow = Entries, CrawlersNow' = Entries'
  PROVE  [Lock!Next]_CrawlersNow
<1>1. LockInv' /\ TypeOK /\ runs \in [Paths -> Runs \cup {Nobody}]
  BY LockStep DEF LockInv, TypeOK
<1>2. CASE UNCHANGED runs
  BY <1>2 DEF Entries
<1>3. ASSUME NEW r \in Runs, ClaimRun(r)
      PROVE  \E i \in Ids, s \in Runs : Lock!Start(i, s)
  <2> DEFINE i == job[r].path
  <2>1. i \in Ids /\ i \in Paths
    BY <1>1, <1>3, JobCarries, RunConstants DEF ClaimRun, Busy, OneSpelling
  <2>2. runs[i] = Nobody /\ runs' = [runs EXCEPT ![i] = r]
    BY <1>3 DEF ClaimRun
  <2> HIDE DEF i
  <2>3. CrawlersNow[i] = {}
    BY <2>1, <2>2, RunConstants DEF Entries
  <2>4. CrawlersNow' = [CrawlersNow EXCEPT ![i] = {r}]
    BY <1>1, <2>1, <2>2, RunConstants DEF Entries
  <2> QED
    BY <2>1, <2>3, <2>4 DEF Lock!Start
<1>4. ASSUME NEW r \in Runs, EndCrawl(r)
      PROVE  \E i \in Ids, s \in Runs : Lock!Stop(i, s)
  <2> DEFINE i == job[r].held.id
  <2>1. i = job[r].path /\ i \in Ids /\ i \in Paths
    BY <1>1, <1>4, JobCarries, RunConstants
    DEF EndCrawl, Crawling, Busy, LockInv, HeldIsPath, OneSpelling
  <2>2. runs[i] = r /\ runs' = [runs EXCEPT ![i] = Nobody]
    BY <1>4, <2>1 DEF EndCrawl, LockInv, RunsMapMatchesCrawls
  <2> HIDE DEF i
  <2>3. CrawlersNow[i] = {r}
    BY <2>1, <2>2 DEF Entries
  <2>4. CrawlersNow' = [CrawlersNow EXCEPT ![i] = {}]
    BY <1>1, <2>1, <2>2, RunConstants DEF Entries
  <2> QED
    BY <2>1, <2>3, <2>4 DEF Lock!Stop
<1>5. CASE Restart
  <2>1. \A i \in Ids : runs'[i] = Nobody
    BY <1>5, RunConstants DEF Restart
  <2> QED
    BY <2>1, RunConstants DEF Entries, Lock!Next, Lock!Restart, Lock!NoCrawls
<1> QED
  BY <1>1, <1>2, <1>3, <1>4, <1>5, EntriesChange DEF Lock!Next

\* With one spelling per id, whoever watches only which searcher is crawled by
\* which run sees a lock: a crawl starts where there is none, and stops.
THEOREM RunsImplementLock ==
  OneSpelling => (Spec => Lock!Init /\ [][Lock!Next]_CrawlersNow)
<1> SUFFICES ASSUME OneSpelling PROVE Spec => Lock!Init /\ [][Lock!Next]_CrawlersNow
  OBVIOUS
<1>1. Init => LockInv
  BY LockInit
<1>2. LockInv /\ [Next]_vars => LockInv'
  BY LockStep
<1>3. Init => Lock!Init
  BY DEF Init, IdleJob, Crawling, CrawlersOf, CrawlersNow, Lock!Init, Lock!NoCrawls
<1>4. LockInv => CrawlersNow = Entries
  BY CrawlersAreEntries
<1>5. LockInv /\ [Next]_vars /\ CrawlersNow = Entries /\ (CrawlersNow = Entries)'
        => [Lock!Next]_CrawlersNow
  BY LockSimulated
<1> QED
  BY <1>1, <1>2, <1>3, <1>4, <1>5, PTL DEF Spec
====
