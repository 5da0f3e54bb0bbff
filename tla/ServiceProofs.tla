---- MODULE ServiceProofs ----
(***************************************************************************)
(* Handlers, crawls and restarts together: theorems about the table that   *)
(* all of them write, and about what a run stands on while it goes.        *)
(***************************************************************************)
EXTENDS VersionProofs

----------------------------------------------------------------------------
(* The table.                                                              *)

\* UPDATE gives the row the name it carries and leaves owner and last_run_at.
LEMMA UpdatedNames ==
  ASSUME NEW row \in Rows, NEW p \in Profiles
  PROVE  /\ Updated(row, p).name = p.name /\ Updated(row, p).user = row.user
         /\ row.ran => Updated(row, p).ran
<1> DEFINE v == IF row.cfg # Stored(p.filters) THEN row.ver + 1 ELSE row.ver
<1>1. Updated(row, p) = [row EXCEPT !.name = p.name, !.desc = p.desc, !.auto = p.auto,
                                    !.cfg = Stored(p.filters), !.ver = v]
  BY DEF Updated
<1> HIDE DEF v
<1>2. Updated(row, p).name = p.name /\ Updated(row, p).user = row.user
  BY <1>1 DEF Rows
<1> QED
  BY <1>2, UpdatedType

\* Of each row: owner and name stay, or become those of a statement that found
\* the name free.
LEMMA NamesMove ==
  ASSUME StoreTypeOK, StoreTypeOK', Statement, NamesUnique
  PROVE  NamesUnique'
<1>0. /\ status \in [Ids -> {"unused", "live", "deleted"}] /\ profile \in [Ids -> Rows]
      /\ status' \in [Ids -> {"unused", "live", "deleted"}] /\ profile' \in [Ids -> Rows]
  BY DEF StoreTypeOK
\* Row k takes a name that is free; the others stay as they are.
<1>1. ASSUME NEW k \in Ids,
             \A i \in Ids \ {k} : status'[i] = status[i] /\ profile'[i] = profile[i],
             NameFree(profile'[k].user, profile'[k].name, k)
      PROVE  NamesUnique'
  BY <1>0, <1>1 DEF NamesUnique, NameFree, Owned, Live
\* No row comes to life or changes owner or name.
<1>2. ASSUME \A i \in Ids : /\ Live(i)' => Live(i)
                            /\ profile'[i].user = profile[i].user
                            /\ profile'[i].name = profile[i].name
      PROVE  NamesUnique'
  BY <1>2 DEF NamesUnique, Live
<1>3. CASE UNCHANGED storeVars
  BY <1>2, <1>3 DEF storeVars, Live
<1>4. ASSUME NEW u \in Users, NEW k \in Ids, NEW b \in Bodies,
             CreateSearchProfile(u, k, NewProfile(b))
      PROVE  NamesUnique'
  <2>1. profile'[k].user = u /\ profile'[k].name = NewProfile(b).name
    BY <1>0, <1>4 DEF CreateSearchProfile
  <2>2. \A i \in Ids \ {k} : status'[i] = status[i] /\ profile'[i] = profile[i]
    BY <1>0, <1>4 DEF CreateSearchProfile
  <2>3. NameFree(u, NewProfile(b).name, k)
    BY <1>4 DEF CreateSearchProfile
  <2> QED
    BY <1>1, <2>1, <2>2, <2>3
<1>5. ASSUME NEW k \in Ids, NEW p \in Profiles, UpdateSearchProfile(p.user, k, p)
      PROVE  NamesUnique'
  <2>1. profile' = [profile EXCEPT ![k] = Updated(profile[k], p)] /\ UNCHANGED status
    BY <1>5 DEF UpdateSearchProfile
  <2>2. profile[k].user = p.user /\ NameFree(p.user, p.name, k)
    BY <1>5 DEF UpdateSearchProfile, Owned
  <2>3. profile'[k].user = p.user /\ profile'[k].name = p.name
    BY <1>0, <2>1, <2>2, UpdatedNames
  <2> QED
    BY <1>0, <1>1, <2>1, <2>2, <2>3
<1>6. ASSUME NEW k \in Ids, NEW enabled \in BOOLEAN,
             SetSearcherAutoAI(profile[k].user, k, enabled)
      PROVE  NamesUnique'
  <2>1. profile' = [profile EXCEPT ![k].auto = enabled] /\ UNCHANGED status
    BY <1>6 DEF SetSearcherAutoAI
  <2>2. \A i \in Ids : profile'[i].user = profile[i].user /\ profile'[i].name = profile[i].name
    BY <1>0, <2>1 DEF Rows
  <2> QED
    BY <1>2, <2>1, <2>2 DEF Live
<1>7. ASSUME NEW u \in Users, NEW k \in Ids, TouchSearcherRun(u, k)
      PROVE  NamesUnique'
  <2>1. profile' = [profile EXCEPT ![k].ran = TRUE] /\ UNCHANGED status
    BY <1>7 DEF TouchSearcherRun
  <2>2. \A i \in Ids : profile'[i].user = profile[i].user /\ profile'[i].name = profile[i].name
    BY <1>0, <2>1 DEF Rows
  <2> QED
    BY <1>2, <2>1, <2>2 DEF Live
<1>8. ASSUME NEW k \in Ids, DeleteSearchProfile(profile[k].user, k)
      PROVE  NamesUnique'
  BY <1>0, <1>2, <1>8 DEF DeleteSearchProfile, Live
<1> QED
  BY <1>3, <1>4, <1>5, <1>6, <1>7, <1>8 DEF Statement

\* A statement that names a row finds it live, or makes it.
LEMMA DeletedKept ==
  ASSUME StoreTypeOK, Statement, NEW i \in Ids, status[i] = "deleted"
  PROVE  status'[i] = "deleted" /\ profile'[i] = profile[i]
<1>0. status \in [Ids -> {"unused", "live", "deleted"}] /\ profile \in [Ids -> Rows]
  BY DEF StoreTypeOK
<1>1. ASSUME NEW k \in Ids, k # i, NEW new, NEW s,
             profile' = [profile EXCEPT ![k] = new] \/ UNCHANGED profile,
             status' = [status EXCEPT ![k] = s] \/ UNCHANGED status
      PROVE  status'[i] = "deleted" /\ profile'[i] = profile[i]
  BY <1>0, <1>1
<1>2. CASE UNCHANGED storeVars
  BY <1>2 DEF storeVars
<1>3. ASSUME NEW u \in Users, NEW k \in Ids, NEW b \in Bodies,
             CreateSearchProfile(u, k, NewProfile(b))
      PROVE  status'[i] = "deleted" /\ profile'[i] = profile[i]
  BY <1>1, <1>3 DEF CreateSearchProfile
<1>4. ASSUME NEW k \in Ids, NEW p \in Profiles, UpdateSearchProfile(p.user, k, p)
      PROVE  status'[i] = "deleted" /\ profile'[i] = profile[i]
  BY <1>1, <1>4 DEF UpdateSearchProfile, Owned, Live
<1>5. ASSUME NEW k \in Ids, NEW enabled \in BOOLEAN,
             SetSearcherAutoAI(profile[k].user, k, enabled)
      PROVE  status'[i] = "deleted" /\ profile'[i] = profile[i]
  BY <1>1, <1>5 DEF SetSearcherAutoAI, Owned, Live
<1>6. ASSUME NEW u \in Users, NEW k \in Ids, TouchSearcherRun(u, k)
      PROVE  status'[i] = "deleted" /\ profile'[i] = profile[i]
  BY <1>1, <1>6 DEF TouchSearcherRun, Owned, Live
<1>7. ASSUME NEW k \in Ids, DeleteSearchProfile(profile[k].user, k)
      PROVE  status'[i] = "deleted" /\ profile'[i] = profile[i]
  BY <1>1, <1>7 DEF DeleteSearchProfile, Owned, Live
<1> QED
  BY <1>2, <1>3, <1>4, <1>5, <1>6, <1>7 DEF Statement

\* last_run_at, once set, stays set in a row in use.
LEMMA RanKept ==
  ASSUME StoreTypeOK, Statement, NEW i \in Ids, Used(i), profile[i].ran
  PROVE  profile'[i].ran
<1>0. status \in [Ids -> {"unused", "live", "deleted"}] /\ profile \in [Ids -> Rows]
  BY DEF StoreTypeOK
<1>1. CASE UNCHANGED storeVars
  BY <1>1 DEF storeVars
<1>2. ASSUME NEW u \in Users, NEW k \in Ids, NEW b \in Bodies,
             CreateSearchProfile(u, k, NewProfile(b))
      PROVE  profile'[i].ran
  BY <1>0, <1>2 DEF CreateSearchProfile, Used
<1>3. ASSUME NEW k \in Ids, NEW p \in Profiles, UpdateSearchProfile(p.user, k, p)
      PROVE  profile'[i].ran
  <2>1. profile' = [profile EXCEPT ![k] = Updated(profile[k], p)]
    BY <1>3 DEF UpdateSearchProfile
  <2>2. Updated(profile[i], p).ran
    BY <1>0, UpdatedNames
  <2> QED
    BY <1>0, <2>1, <2>2
<1>4. ASSUME NEW k \in Ids, NEW enabled \in BOOLEAN,
             SetSearcherAutoAI(profile[k].user, k, enabled)
      PROVE  profile'[i].ran
  BY <1>0, <1>4 DEF SetSearcherAutoAI, Rows
<1>5. ASSUME NEW u \in Users, NEW k \in Ids, TouchSearcherRun(u, k)
      PROVE  profile'[i].ran
  BY <1>0, <1>5 DEF TouchSearcherRun, Rows
<1>6. ASSUME NEW k \in Ids, DeleteSearchProfile(profile[k].user, k)
      PROVE  profile'[i].ran
  BY <1>6 DEF DeleteSearchProfile
<1> QED
  BY <1>1, <1>2, <1>3, <1>4, <1>5, <1>6 DEF Statement

\* TouchSearcherRun sets it.
LEMMA TouchSets ==
  ASSUME StoreTypeOK, NEW u, NEW i \in Ids, TouchSearcherRun(u, i)
  PROVE  profile'[i].ran
BY DEF StoreTypeOK, TouchSearcherRun, Rows

----------------------------------------------------------------------------
(* The core.                                                               *)

\* No category goes away.
LEMMA CategoriesStay ==
  ASSUME TypeOK, [Next]_vars, NEW i \in Ids, HasCategory(i)
  PROVE  HasCategory(i)'
<1>0. CatalogTypeOK /\ ApiTypeOK
  BY DEF TypeOK, ApiTypeOK
<1>1. ASSUME NEW q \in Requests, FinishEnsure(q)
      PROVE  HasCategory(i)'
  BY <1>0, <1>1, RequestCarries, EnsureType DEF FinishEnsure
<1>2. ASSUME NEW r \in Runs, EnsureRun(r)
      PROVE  HasCategory(i)'
  <2>1. job[r].held.id \in Ids /\ job[r].held.name \in Names
    BY <1>2, JobCarries DEF EnsureRun, Busy, Profiles
  <2> QED
    BY <1>0, <1>2, <2>1, EnsureType DEF EnsureRun
<1>3. ASSUME NEW r \in Runs, CrawlPage(r)
      PROVE  HasCategory(i)'
  <2>1. job[r].held \in Profiles
    BY <1>3, JobCarries DEF CrawlPage, Busy
  <2>2. /\ job[r].held.id \in Ids /\ job[r].held.name \in Names
        /\ job[r].held.ver \in Nat /\ Hits[job[r].held.filters] \in SUBSET Tenders
    BY <2>1, RunConstants DEF Profiles
  <2>3. PICK k \in Ids, t \in Names, v \in Nat :
          k = job[r].held.id /\ t = job[r].held.name /\ v = job[r].held.ver
    BY <2>2
  <2>4. PICK fresh \in SUBSET Tenders, ok \in BOOLEAN : SyncSearchConfig(k, t, v, fresh, ok)
    BY <1>3, <2>2, <2>3 DEF CrawlPage
  <2> QED
    BY <1>0, <2>4, SyncType
<1>4. CASE UNCHANGED cat
  BY <1>4 DEF HasCategory
<1>5. ASSUME NEW r \in Runs, RunHandler(r) \/ CrawlPage(r) \/ EndCrawl(r)
      PROVE  UNCHANGED cat \/ EnsureRun(r) \/ CrawlPage(r)
  BY <1>5 DEF RunHandler, TouchRun, RefuseRun, ClaimRun, JoinRun, EndCrawl, apiVars
<1>6. CASE ApiNext
  <2>1. UNCHANGED cat \/ \E q \in Requests : FinishEnsure(q)
    BY <1>6 DEF ApiNext, CreateProfile, BeginUpdate, RequestStep, CommitUpdate,
                AbandonUpdate, SetAutoAI, Delete
  <2> QED
    BY <1>1, <1>4, <2>1
<1>7. ASSUME Restart \/ UNCHANGED vars \/ \E r \in Runs, p \in Paths : ReadProfile(r, p)
      PROVE  UNCHANGED cat
  BY <1>7 DEF Restart, vars, apiVars, ReadProfile
<1> QED
  BY <1>2, <1>3, <1>4, <1>5, <1>6, <1>7 DEF Next

----------------------------------------------------------------------------
(* The runs.                                                               *)

Ensured == {"ensured", "crawling", "ending"}

\* Run r goes on with the searcher and path it has.
GoesOn(r) ==
  /\ job[r].pc # "idle"
  /\ job'[r].path = job[r].path /\ job'[r].held = job[r].held
  /\ Rank[job[r].pc] <= Rank[job'[r].pc]
  /\ job[r].pc = "read" /\ job'[r].pc # "read" =>
       TouchSearcherRun(job[r].held.user, IdOf[job[r].path])
  /\ job[r].pc \notin Ensured /\ job'[r].pc \in Ensured => HasCategory(job[r].held.id)'

\* Run r begins by reading the searcher its path names.
ReadsNow(r) ==
  /\ job'[r].pc = "read"
  /\ job'[r].held.id = IdOf[job'[r].path]
  /\ Live(job'[r].held.id)

\* A step ends run r, starts it, or lets it go on.
LEMMA RunMoves ==
  ASSUME TypeOK, [Next]_vars, NEW r \in Runs
  PROVE  \/ job'[r].pc = "idle"
         \/ ReadsNow(r)
         \/ GoesOn(r)
<1>0. job \in [Runs -> JobStates] /\ job[r] \in JobStates /\ CatalogTypeOK
  BY DEF TypeOK, ApiTypeOK
<1>1. ASSUME job'[r] = job[r]
      PROVE  job'[r].pc = "idle" \/ GoesOn(r)
  BY <1>0, <1>1 DEF GoesOn, Rank, JobStates
<1>2. ASSUME NEW k \in Runs, NEW j, job' = [job EXCEPT ![k] = j], k # r
      PROVE  job'[r] = job[r]
  BY <1>0, <1>2
<1>3. ASSUME NEW k \in Runs, RunHandler(k) \/ CrawlPage(k) \/ EndCrawl(k), k # r
      PROVE  job'[r] = job[r]
  <2>1. \E j : job' = [job EXCEPT ![k] = j]
    BY <1>3 DEF RunHandler, TouchRun, EnsureRun, RefuseRun, ClaimRun, JoinRun, CrawlPage,
                EndCrawl
  <2> QED
    BY <1>2, <1>3, <2>1
<1>4. ASSUME NEW k \in Runs, NEW p \in Paths, ReadProfile(k, p)
      PROVE  \/ job'[r] = job[r]
             \/ ReadsNow(r)
  <2>1. CASE k = r
    BY <1>0, <1>4, <2>1, RunConstants DEF ReadProfile, Scan, ReadsNow
  <2>2. CASE k # r
    BY <1>2, <1>4, <2>2 DEF ReadProfile
  <2> QED
    BY <2>1, <2>2
<1>5. CASE TouchRun(r)
  <2>1. CASE job' = [job EXCEPT ![r] = IdleJob]
    BY <1>0, <2>1 DEF IdleJob
  <2>2. CASE /\ TouchSearcherRun(job[r].held.user, IdOf[job[r].path])
             /\ job' = [job EXCEPT ![r].pc = "touched"]
    <3>1. job[r].pc = "read" /\ job'[r] = [job[r] EXCEPT !.pc = "touched"]
      BY <1>0, <1>5, <2>2 DEF TouchRun
    <3>2. job'[r].pc = "touched" /\ job'[r].held = job[r].held /\ job'[r].path = job[r].path
      BY <1>0, <3>1 DEF JobStates
    <3> QED
      BY <2>2, <3>1, <3>2 DEF GoesOn, Ensured, Rank
  <2> QED
    BY <1>5, <2>1, <2>2 DEF TouchRun
<1>6. CASE EnsureRun(r)
  <2>1. job[r].pc = "touched"
    BY <1>6 DEF EnsureRun
  <2>2. job[r].held.id \in Ids /\ job[r].held.name \in Names
    BY <2>1, JobCarries DEF Busy, Profiles
  <2>3. PICK ok \in BOOLEAN :
          /\ EnsureCategory(job[r].held.id, job[r].held.name, ok)
          /\ job' = [job EXCEPT ![r] = IF ok THEN [@ EXCEPT !.pc = "ensured"] ELSE IdleJob]
    BY <1>6 DEF EnsureRun
  <2>4. CASE ok
    <3>1. HasCategory(job[r].held.id)'
      <4> PICK i \in Ids, t \in Names : i = job[r].held.id /\ t = job[r].held.name
        BY <2>2
      <4>1. HasCategory(i)'
        BY <1>0, <2>3, <2>4, EnsureType
      <4>2. job'[r].held.id = i
        BY <1>0, <2>1, <2>3, <2>4 DEF JobStates
      <4> QED
        BY <4>1, <4>2 DEF HasCategory
    <3>2. job'[r] = [job[r] EXCEPT !.pc = "ensured"]
      BY <1>0, <2>3, <2>4
    <3>3. job'[r].pc = "ensured" /\ job'[r].held = job[r].held /\ job'[r].path = job[r].path
      BY <1>0, <2>1, <3>2 DEF JobStates
    <3> QED
      BY <2>1, <3>1, <3>3 DEF GoesOn, Rank
  <2>5. CASE ~ok
    BY <1>0, <2>3, <2>5 DEF IdleJob
  <2> QED
    BY <2>4, <2>5
<1>7. ASSUME RefuseRun(r) \/ JoinRun(r) \/ EndCrawl(r)
      PROVE  job'[r].pc = "idle"
  BY <1>0, <1>7 DEF RefuseRun, JoinRun, EndCrawl, IdleJob
<1>8. CASE ClaimRun(r)
  BY <1>0, <1>8 DEF ClaimRun, GoesOn, Ensured, Rank
<1>9. CASE CrawlPage(r)
  <2>1. job[r].pc = "crawling"
    BY <1>9 DEF CrawlPage
  <2>2. job'[r].path = job[r].path /\ job'[r].held = job[r].held
    BY <1>9, PageKeepsRuns
  <2>3. job'[r].pc \in {"crawling", "ending"}
    BY <1>9, <2>1, PageKeepsRuns DEF Crawling
  <2>4. Rank[job[r].pc] <= Rank[job'[r].pc]
    BY <2>1, <2>3 DEF Rank
  <2> QED
    BY <2>1, <2>2, <2>3, <2>4 DEF GoesOn, Ensured
<1>10. CASE Restart
  BY <1>10 DEF Restart, IdleJob
<1>11. CASE UNCHANGED job
  BY <1>1, <1>11
<1>12. UNCHANGED vars => UNCHANGED job
  BY DEF vars
<1> QED
  BY <1>1, <1>3, <1>4, <1>5, <1>6, <1>7, <1>8, <1>9, <1>10, <1>11, <1>12
  DEF Next, RunHandler

\* What a run stands on: its searcher is the one its path names, was given out,
\* and has last_run_at and category by the time the handler has passed those steps.
ServiceInv ==
  /\ PinInv
  /\ NamesUnique
  /\ HeldIsPath
  /\ AcceptedRunRecorded
  /\ CrawlHasCategory

LEMMA ServiceInit == Init => ServiceInv
<1> SUFFICES ASSUME Init PROVE ServiceInv
  OBVIOUS
<1>1. \A r \in Runs : job[r].pc = "idle"
  BY DEF Init, IdleJob
<1>2. NamesUnique
  BY DEF Init, ApiInit, StoreInit, NamesUnique, Live
<1>3. HeldIsPath /\ AcceptedRunRecorded /\ CrawlHasCategory
  BY <1>1 DEF HeldIsPath, AcceptedRunRecorded, CrawlHasCategory, Busy
<1> QED
  BY <1>2, <1>3, PinInit DEF ServiceInv

LEMMA ServiceStep == ServiceInv /\ [Next]_vars => ServiceInv'
<1> SUFFICES ASSUME ServiceInv, [Next]_vars PROVE ServiceInv'
  OBVIOUS
<1>1. TypeOK /\ StoreTypeOK /\ Statement /\ PinInv /\ PinInv' /\ NamesUnique'
  <2>1. PinInv /\ TypeOK /\ PinInv' /\ TypeOK' /\ Statement
    BY PinStep, StatementsOfStep DEF ServiceInv, PinInv
  <2> QED
    BY <2>1, NamesMove DEF ServiceInv, TypeOK, ApiTypeOK
<1>2. ASSUME NEW r \in Runs, Busy(r)
      PROVE  job[r].held.id \in Ids /\ Used(job[r].held.id)
  <2>1. job[r].held \in Held
    BY <1>2 DEF Held, HeldByRuns
  <2> QED
    BY <1>1, <2>1, HeldIds DEF PinInv, CopyOfRow
<1>3. ASSUME NEW r \in Runs, job'[r].pc # "idle"
      PROVE  job'[r].held.id = IdOf[job'[r].path]
  <2>1. CASE GoesOn(r)
    BY <2>1 DEF GoesOn, ServiceInv, HeldIsPath, Busy
  <2> QED
    BY <1>1, <1>3, <2>1, RunMoves DEF ReadsNow
<1>4. ASSUME NEW r \in Runs, job'[r].pc \notin {"idle", "read"}
      PROVE  profile'[job'[r].held.id].ran
  <2>1. GoesOn(r)
    BY <1>1, <1>4, RunMoves DEF ReadsNow
  <2>2. job'[r].held = job[r].held /\ Busy(r)
    BY <2>1 DEF GoesOn, Busy
  <2>3. CASE job[r].pc = "read"
    <3>1. TouchSearcherRun(job[r].held.user, job[r].held.id)
      BY <1>4, <2>1, <2>2, <2>3 DEF GoesOn, ServiceInv, HeldIsPath
    <3> QED
      BY <1>1, <1>2, <2>2, <3>1, TouchSets
  <2>4. CASE job[r].pc # "read"
    <3>1. profile[job[r].held.id].ran
      BY <2>2, <2>4 DEF ServiceInv, AcceptedRunRecorded, Busy
    <3> QED
      BY <1>1, <1>2, <2>2, <3>1, RanKept
  <2> QED
    BY <2>3, <2>4
<1>5. ASSUME NEW r \in Runs, job'[r].pc \in Ensured
      PROVE  HasCategory(job[r].held.id)' /\ job'[r].held = job[r].held
  <2>1. GoesOn(r)
    BY <1>1, <1>5, RunMoves DEF Ensured, ReadsNow
  <2>2. job'[r].held = job[r].held /\ Busy(r)
    BY <2>1 DEF GoesOn, Busy
  <2>3. CASE job[r].pc \notin Ensured
    BY <1>5, <2>1, <2>2, <2>3 DEF GoesOn
  <2>4. CASE job[r].pc \in Ensured
    <3> PICK i \in Ids : i = job[r].held.id
      BY <1>2, <2>2
    <3>1. HasCategory(i)
      BY <2>2, <2>4 DEF ServiceInv, CrawlHasCategory, Ensured
    <3>2. HasCategory(i)'
      BY <1>1, <3>1, CategoriesStay
    <3> QED
      BY <2>2, <3>2 DEF HasCategory
  <2> QED
    BY <2>3, <2>4
<1>6. HeldIsPath'
  BY <1>3 DEF HeldIsPath, Busy
<1>7. AcceptedRunRecorded'
  BY <1>4 DEF AcceptedRunRecorded
<1>8. CrawlHasCategory'
  BY <1>5 DEF CrawlHasCategory, Ensured, HasCategory
<1> QED
  BY <1>1, <1>6, <1>7, <1>8 DEF ServiceInv

LEMMA ServiceInvariant == Spec => []ServiceInv
<1>1. Init => ServiceInv
  BY ServiceInit
<1>2. ServiceInv /\ [Next]_vars => ServiceInv'
  BY ServiceStep
<1> QED
  BY <1>1, <1>2, PTL DEF Spec

\* No two live searchers of a user have one name, whatever handlers and crawls
\* overlap.
THEOREM NamesStayUnique == Spec => []NamesUnique
<1>1. ServiceInv => NamesUnique
  BY DEF ServiceInv
<1> QED
  BY <1>1, ServiceInvariant, PTL

\* last_run_at is set for every run that was accepted, and stays set.
THEOREM RunsAreRecorded == Spec => []AcceptedRunRecorded
<1>1. ServiceInv => AcceptedRunRecorded
  BY DEF ServiceInv
<1> QED
  BY <1>1, ServiceInvariant, PTL

\* No crawl sends its pages to a category that is not there.
THEOREM CrawlsHaveCategory == Spec => []CrawlHasCategory
<1>1. ServiceInv => CrawlHasCategory
  BY DEF ServiceInv
<1> QED
  BY <1>1, ServiceInvariant, PTL

\* A deleted searcher is not written again, by a handler or by a crawl.
THEOREM DeletedIsFinal == Spec => DeletedStaysDeleted
<1>1. TypeOK /\ [Next]_vars =>
        [\A i \in Ids : status[i] = "deleted" =>
           status'[i] = "deleted" /\ profile'[i] = profile[i]]_apiVars
  BY StatementsOfStep, DeletedKept DEF TypeOK, ApiTypeOK
<1> QED
  BY <1>1, TypeCorrect, PTL DEF Spec, DeletedStaysDeleted

\* Runs of a deleted searcher run down: none begins, none that has only read it
\* goes further, and the others keep their snapshot and their direction.  This is
\* the safety part of DeletedGoesQuiet.
THEOREM DeletedRunsEnd == Spec => DeletedRunsDown
<1>1. ASSUME ServiceInv, [Next]_vars, NEW i \in Ids, NEW r \in Runs,
             status[i] = "deleted", Busy(r)', job'[r].held.id = i
      PROVE  /\ Busy(r)
             /\ job'[r].held = job[r].held
             /\ Rank[job[r].pc] <= Rank[job'[r].pc]
             /\ job[r].pc = "read" => job'[r].pc = "read"
  <2>1. TypeOK /\ ~Live(i)
    BY <1>1 DEF ServiceInv, PinInv, Live
  <2>2. CASE ReadsNow(r)
    BY <1>1, <2>1, <2>2 DEF ReadsNow
  <2>3. CASE GoesOn(r)
    <3>1. IdOf[job[r].path] = i
      BY <1>1, <2>3 DEF GoesOn, ServiceInv, HeldIsPath, Busy
    <3>2. job[r].pc = "read" => job'[r].pc = "read"
      BY <2>1, <2>3, <3>1 DEF GoesOn, TouchSearcherRun, Owned
    <3> QED
      BY <2>3, <3>2 DEF GoesOn, Busy
  <2> QED
    BY <1>1, <2>1, <2>2, <2>3, RunMoves DEF Busy
<1>2. ServiceInv /\ [Next]_vars =>
        [\A i \in Ids, r \in Runs :
           status[i] = "deleted" /\ Busy(r)' /\ job'[r].held.id = i =>
             /\ Busy(r)
             /\ job'[r].held = job[r].held
             /\ Rank[job[r].pc] <= Rank[job'[r].pc]
             /\ job[r].pc = "read" => job'[r].pc = "read"]_vars
  BY <1>1
<1> QED
  BY <1>2, ServiceInvariant, PTL DEF Spec, DeletedRunsDown

\* Every copy a PUT still works with, and the table, agree on the filters of a
\* version also while crawls hold copies of their own.
THEOREM EditorsAgree == Spec => []VersionPinsFilters
<1>1. VersionPinsCrawls => VersionPinsFilters
  BY DEF VersionPinsCrawls, VersionPinsFilters, Observations
<1> QED
  BY <1>1, VersionsPinFilters, PTL

----------------------------------------------------------------------------
(* The handlers by themselves, as ProfileApi specifies them.               *)

\* The copies that PUTs hold, and the names: what the runs are left out of.
EditInv ==
  /\ ApiTypeOK
  /\ NamesUnique
  /\ \A s \in ReadsInProgress : CopyOfRow(s)
  /\ Agree(ReadsInProgress)

LEMMA EditInit == ApiInit => EditInv
<1> SUFFICES ASSUME ApiInit PROVE EditInv
  OBVIOUS
<1>1. ReadsInProgress = {}
  BY DEF ApiInit, IdleRequest, ReadsInProgress
<1>2. NamesUnique
  BY DEF ApiInit, StoreInit, NamesUnique, Live
<1> QED
  BY <1>1, <1>2, ApiInitTyped DEF EditInv, Agree

LEMMA ReadIds ==
  ASSUME ApiTypeOK, NEW s \in ReadsInProgress
  PROVE  s.id \in Ids /\ s.ver \in Nat
BY RequestCarries DEF ReadsInProgress, Profiles

LEMMA EditStep == EditInv /\ [ApiNext]_apiVars => EditInv'
<1> SUFFICES ASSUME EditInv, [ApiNext]_apiVars PROVE EditInv'
  OBVIOUS
<1>1. ApiTypeOK /\ Statement
  BY StatementsOfApi DEF EditInv
<1>2. ApiTypeOK'
  <2>1. CASE ApiNext
    BY <1>1, <2>1, ApiStepTyped
  <2>2. CASE UNCHANGED apiVars
    BY <1>1, <2>2 DEF apiVars, storeVars, ApiTypeOK, StoreTypeOK, CatalogTypeOK
  <2> QED
    BY <2>1, <2>2
<1>3. StoreTypeOK /\ StoreTypeOK'
  BY <1>1, <1>2 DEF ApiTypeOK
<1>4. NamesUnique'
  BY <1>1, <1>3, NamesMove DEF EditInv
<1>5. AreCopies(ReadsInProgress) /\ Agree(ReadsInProgress)
  BY <1>1, ReadIds DEF EditInv, AreCopies
<1>6. PICK C, D : C = ReadsInProgress /\ D = ReadsInProgress'
  OBVIOUS
<1>7. ReadSince(D, C)
  BY <1>1, <1>6, ReadsComeFromRows DEF ReadSince
<1>8. AreCopies(D)' /\ Agree(D)
  BY <1>1, <1>3, <1>5, <1>6, <1>7, CopiesStayPinned
<1> QED
  BY <1>2, <1>4, <1>6, <1>8 DEF EditInv, AreCopies, Agree

LEMMA EditInvariant == ApiSpec => []EditInv
<1>1. ApiInit => EditInv
  BY EditInit
<1>2. EditInv /\ [ApiNext]_apiVars => EditInv'
  BY EditStep
<1> QED
  BY <1>1, <1>2, PTL DEF ApiSpec

\* Whatever bodies requests carry, table, catalogue and requests are well formed.
THEOREM HandlersTyped == ApiSpec => []ApiTypeOK
<1>1. EditInv => ApiTypeOK
  BY DEF EditInv
<1> QED
  BY <1>1, EditInvariant, PTL

\* No two live searchers of a user have one name, whatever POSTs and PUTs overlap.
THEOREM HandlersKeepNames == ApiSpec => []NamesUnique
<1>1. EditInv => NamesUnique
  BY DEF EditInv
<1> QED
  BY <1>1, EditInvariant, PTL

\* Two handlers that saw one version of a searcher saw the same filters.
THEOREM HandlersAgree == ApiSpec => []VersionPinsFilters
<1>1. EditInv => VersionPinsFilters
  <2> SUFFICES ASSUME EditInv, NEW s \in ApiObservations, NEW t \in ApiObservations,
                      s.id = t.id, s.ver = t.ver
               PROVE  s.filters = t.filters
    BY DEF VersionPinsFilters
  <2>1. \A i \in Ids : Scan(i).id = i /\ Scan(i).ver = profile[i].ver
                       /\ Scan(i).filters = profile[i].cfg.filters
    BY DEF Scan
  <2> QED
    BY <2>1, ReadIds DEF EditInv, Agree, ApiObservations, CopyOfRow
<1> QED
  BY <1>1, EditInvariant, PTL

\* No PUT, auto-ai or second DELETE writes a deleted searcher.
THEOREM HandlersSpareDeleted == ApiSpec => DeletedStaysDeleted
<1>1. EditInv /\ [ApiNext]_apiVars =>
        [\A i \in Ids : status[i] = "deleted" =>
           status'[i] = "deleted" /\ profile'[i] = profile[i]]_apiVars
  BY StatementsOfApi, DeletedKept DEF EditInv, ApiTypeOK
<1> QED
  BY <1>1, EditInvariant, PTL DEF ApiSpec, DeletedStaysDeleted
====
