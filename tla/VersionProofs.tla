---- MODULE VersionProofs ----
(***************************************************************************)
(* config_version names the filters: theorems about what PUT requests, run *)
(* handlers and crawls hold while the table changes under them.            *)
(***************************************************************************)
EXTENDS CrawlRunsProofs

\* Every copy of a row that some handler or crawl still works with.
Held == ReadsInProgress \cup HeldByRuns

Used(i) == status[i] # "unused"

\* A copy is of the row as it was at its version.
CopyOfRow(s) ==
  /\ Used(s.id)
  /\ s.ver <= profile[s.id].ver
  /\ s.ver = profile[s.id].ver => s.filters = profile[s.id].cfg.filters

\* Copies of one version agree.
Agree(C) == \A s, t \in C : s.id = t.id /\ s.ver = t.ver => s.filters = t.filters

AreCopies(C) == \A s \in C : s.id \in Ids /\ s.ver \in Nat /\ CopyOfRow(s)

\* What D has over C was read from live rows.
ReadSince(D, C) == \A s \in D : s \in C \/ \E i \in Ids : Live(i) /\ s = Scan(i)

\* Copies agree with one another.  Not inductive without CopyOfRow: a new copy
\* is compared with the old ones through the row.
PinInv ==
  /\ TypeOK
  /\ \A s \in Held : CopyOfRow(s)
  /\ Agree(Held)

LEMMA HeldType == TypeOK => Held \subseteq Profiles
BY RequestCarries, JobCarries DEF TypeOK, Held, ReadsInProgress, HeldByRuns

LEMMA HeldIds == ASSUME TypeOK, NEW s \in Held PROVE s.id \in Ids /\ s.ver \in Nat
BY HeldType DEF Profiles

LEMMA PinImplies == PinInv => VersionPinsCrawls
<1> SUFFICES ASSUME PinInv, NEW s \in Observations, NEW t \in Observations,
                    s.id = t.id, s.ver = t.ver
             PROVE  s.filters = t.filters
  BY DEF VersionPinsCrawls
<1>1. Observations = Held \cup {Scan(i) : i \in Ids}
  BY DEF Observations, ApiObservations, Held
<1>2. \A i \in Ids : Scan(i).id = i /\ Scan(i).ver = profile[i].ver
                     /\ Scan(i).filters = profile[i].cfg.filters
  BY DEF Scan
<1> QED
  BY <1>1, <1>2, HeldIds DEF PinInv, Agree, CopyOfRow

LEMMA PinInit == Init => PinInv
<1> SUFFICES ASSUME Init PROVE PinInv
  OBVIOUS
<1>1. Held = {}
  BY DEF Init, ApiInit, IdleRequest, IdleJob, Held, ReadsInProgress, HeldByRuns, Busy
<1> QED
  BY <1>1, InitTyped DEF PinInv, Agree

\* What one step does to the row of an id already given out: its version does
\* not go down, and while it stays the filters stay.
RowKept(i) ==
  /\ Used(i)'
  /\ profile[i].ver <= profile'[i].ver
  /\ profile[i].ver = profile'[i].ver => profile'[i].cfg.filters = profile[i].cfg.filters

LEMMA UpdatedKeeps ==
  ASSUME NEW row \in Rows, NEW p \in Profiles
  PROVE  LET new == Updated(row, p) IN
           /\ row.ver <= new.ver
           /\ row.ver = new.ver => new.cfg.filters = row.cfg.filters
<1>1. CASE row.cfg = Stored(p.filters)
  <2>1. Updated(row, p).ver = row.ver /\ Updated(row, p).cfg = row.cfg
    BY <1>1 DEF Updated, Rows
  <2> QED
    BY <2>1 DEF Rows
<1>2. CASE row.cfg # Stored(p.filters)
  <2>1. Updated(row, p).ver = row.ver + 1
    BY <1>2 DEF Updated, Rows
  <2> QED
    BY <2>1 DEF Rows
<1> QED
  BY <1>1, <1>2

\* The statements a step can amount to, seen from the table.
Statement ==
  \/ UNCHANGED storeVars
  \/ \E u \in Users, i \in Ids, b \in Bodies : CreateSearchProfile(u, i, NewProfile(b))
  \/ \E i \in Ids, p \in Profiles : UpdateSearchProfile(p.user, i, p)
  \/ \E i \in Ids, enabled \in BOOLEAN : SetSearcherAutoAI(profile[i].user, i, enabled)
  \/ \E u \in Users, i \in Ids : TouchSearcherRun(u, i)
  \/ \E i \in Ids : DeleteSearchProfile(profile[i].user, i)

LEMMA StatementsOfApi ==
  ASSUME ApiTypeOK, [ApiNext]_apiVars
  PROVE  Statement
<1>1. ASSUME NEW q \in Requests, CommitUpdate(q)
      PROVE  \E i \in Ids, p \in Profiles : UpdateSearchProfile(p.user, i, p)
  <2> DEFINE p == Merged(req[q].held, req[q].body)
  <2>1. p \in Profiles
    BY <1>1, RequestCarries, MergedType DEF CommitUpdate
  <2>2. p.id \in Ids
    BY <2>1 DEF Profiles
  <2>3. UpdateSearchProfile(p.user, p.id, p)
    BY <1>1 DEF CommitUpdate
  <2> QED
    BY <2>1, <2>2, <2>3
<1>2. CASE UNCHANGED apiVars
  BY <1>2 DEF apiVars, Statement
<1>3. CASE ApiNext
  BY <1>1, <1>3
  DEF ApiNext, CreateProfile, BeginUpdate, RequestStep, AbandonUpdate, FinishEnsure,
      SetAutoAI, Delete, Statement
<1> QED
  BY <1>2, <1>3

LEMMA StatementsOfStep ==
  ASSUME TypeOK, [Next]_vars
  PROVE  Statement
<1>1. CASE ApiNext \/ UNCHANGED apiVars
  BY <1>1, StatementsOfApi DEF TypeOK
<1>2. ASSUME NEW r \in Runs, TouchRun(r)
      PROVE  Statement
  <2>1. job[r].held.user \in Users /\ IdOf[job[r].path] \in Ids
    BY <1>2, JobCarries, RunConstants DEF TouchRun, Busy, Profiles
  <2> QED
    BY <1>2, <2>1 DEF TouchRun, Statement
<1>3. ASSUME NEW r \in Runs,
             EnsureRun(r) \/ RefuseRun(r) \/ ClaimRun(r) \/ JoinRun(r) \/ CrawlPage(r) \/ EndCrawl(r)
      PROVE  UNCHANGED storeVars
  BY <1>3 DEF EnsureRun, RefuseRun, ClaimRun, JoinRun, CrawlPage, EndCrawl, apiVars
<1>4. ASSUME Restart \/ \E r \in Runs, p \in Paths : ReadProfile(r, p)
      PROVE  UNCHANGED storeVars
  BY <1>4 DEF Restart, ReadProfile, apiVars
<1>5. UNCHANGED vars => UNCHANGED apiVars
  BY DEF vars
<1> QED
  BY <1>1, <1>2, <1>3, <1>4, <1>5 DEF Next, RunHandler, Statement

\* No statement takes a row in use back to an earlier version, or changes the
\* filters of a version.
LEMMA RowsKept ==
  ASSUME StoreTypeOK, Statement, NEW i \in Ids, Used(i)
  PROVE  RowKept(i)
<1>0. /\ status \in [Ids -> {"unused", "live", "deleted"}]
      /\ profile \in [Ids -> Rows]
      /\ profile[i] \in Rows /\ profile[i].ver \in Nat
  BY DEF StoreTypeOK, Rows
<1>1. CASE UNCHANGED storeVars
  BY <1>0, <1>1 DEF storeVars, RowKept, Used
<1>2. ASSUME NEW u \in Users, NEW k \in Ids, NEW b \in Bodies,
             CreateSearchProfile(u, k, NewProfile(b))
      PROVE  RowKept(i)
  BY <1>0, <1>2 DEF CreateSearchProfile, RowKept, Used
<1>3. ASSUME NEW k \in Ids, NEW p \in Profiles, UpdateSearchProfile(p.user, k, p)
      PROVE  RowKept(i)
  <2>1. profile' = [profile EXCEPT ![k] = Updated(profile[k], p)] /\ UNCHANGED status
    BY <1>3 DEF UpdateSearchProfile
  <2>2. LET new == Updated(profile[i], p) IN
          /\ profile[i].ver <= new.ver
          /\ profile[i].ver = new.ver => new.cfg.filters = profile[i].cfg.filters
    BY <1>0, UpdatedKeeps
  <2> QED
    BY <1>0, <2>1, <2>2 DEF RowKept, Used
<1>4. ASSUME NEW k \in Ids, NEW enabled \in BOOLEAN,
             SetSearcherAutoAI(profile[k].user, k, enabled)
      PROVE  RowKept(i)
  BY <1>0, <1>4 DEF SetSearcherAutoAI, RowKept, Used, Rows
<1>5. ASSUME NEW u \in Users, NEW k \in Ids, TouchSearcherRun(u, k)
      PROVE  RowKept(i)
  BY <1>0, <1>5 DEF TouchSearcherRun, RowKept, Used, Rows
<1>6. ASSUME NEW k \in Ids, DeleteSearchProfile(profile[k].user, k)
      PROVE  RowKept(i)
  BY <1>0, <1>6 DEF DeleteSearchProfile, RowKept, Used
<1> QED
  BY <1>1, <1>2, <1>3, <1>4, <1>5, <1>6 DEF Statement

\* A PUT holds what it read from a live row.
LEMMA ReadsComeFromRows ==
  ASSUME ApiTypeOK, [ApiNext]_apiVars, NEW s \in ReadsInProgress'
  PROVE  s \in ReadsInProgress \/ \E i \in Ids : Live(i) /\ s = Scan(i)
<1>0. req \in [Requests -> RequestStates]
  BY DEF ApiTypeOK
<1>1. PICK q \in Requests : req'[q].pc = "read" /\ s = req'[q].held
  BY DEF ReadsInProgress
<1>2. CASE req'[q] = req[q]
  BY <1>1, <1>2 DEF ReadsInProgress
<1>3. ASSUME NEW i \in Ids, NEW b \in Bodies, BeginUpdate(q, i, b)
      PROVE  Live(i) /\ s = Scan(i)
  BY <1>0, <1>1, <1>3 DEF BeginUpdate
<1>4. ASSUME NEW p \in Requests, NEW i \in Ids, NEW b \in Bodies, BeginUpdate(p, i, b), p # q
      PROVE  req'[q] = req[q]
  BY <1>0, <1>4 DEF BeginUpdate
<1>5. ASSUME NEW p \in Requests, NEW u \in Users, NEW i \in Ids, NEW b \in Bodies,
             CreateProfile(p, u, i, b)
      PROVE  req'[q] = req[q]
  BY <1>0, <1>1, <1>5 DEF CreateProfile, AfterWrite, IdleRequest
<1>6. ASSUME NEW p \in Requests, RequestStep(p)
      PROVE  req'[q] = req[q]
  BY <1>0, <1>1, <1>6
  DEF RequestStep, CommitUpdate, AbandonUpdate, FinishEnsure, AfterWrite, IdleRequest
<1>7. ASSUME NEW i \in Ids,
             Delete(i) \/ \E enabled \in BOOLEAN : SetAutoAI(i, enabled)
      PROVE  req'[q] = req[q]
  BY <1>7 DEF Delete, SetAutoAI
<1>8. CASE ApiNext
  BY <1>2, <1>3, <1>4, <1>5, <1>6, <1>7, <1>8 DEF ApiNext
<1>9. CASE UNCHANGED apiVars
  BY <1>2, <1>9 DEF apiVars
<1> QED
  BY <1>8, <1>9

\* A copy is made by reading a live row, or was there before.
LEMMA CopiesComeFromRows ==
  ASSUME TypeOK, [Next]_vars, NEW s \in Held'
  PROVE  s \in Held \/ \E i \in Ids : Live(i) /\ s = Scan(i)
<1>0. req \in [Requests -> RequestStates] /\ job \in [Runs -> JobStates]
  BY DEF TypeOK, ApiTypeOK
<1>1. CASE s \in ReadsInProgress'
  <2>1. CASE ApiNext \/ UNCHANGED apiVars
    BY <1>1, <2>1, ReadsComeFromRows DEF TypeOK, Held
  <2>2. CASE UNCHANGED req
    BY <1>1, <2>2 DEF ReadsInProgress, Held
  <2>3. ASSUME NEW r \in Runs, RunHandler(r) \/ CrawlPage(r) \/ EndCrawl(r)
        PROVE  UNCHANGED req
    BY <2>3 DEF RunHandler, TouchRun, EnsureRun, RefuseRun, ClaimRun, JoinRun, CrawlPage,
                EndCrawl, apiVars
  <2>4. ASSUME NEW r \in Runs, NEW p \in Paths, ReadProfile(r, p)
        PROVE  UNCHANGED req
    BY <2>4 DEF ReadProfile, apiVars
  <2>5. CASE Restart
    BY <1>1, <2>5 DEF Restart, IdleRequest, ReadsInProgress
  <2>6. UNCHANGED vars => UNCHANGED apiVars
    BY DEF vars
  <2> QED
    BY <2>1, <2>2, <2>3, <2>4, <2>5, <2>6 DEF Next
<1>2. CASE s \in HeldByRuns'
  <2>1. PICK r \in Runs : job'[r].pc # "idle" /\ s = job'[r].held
    BY <1>2 DEF HeldByRuns, Busy
  <2>2. ASSUME job[r].pc # "idle", job'[r].held = job[r].held
        PROVE  s \in Held
    BY <2>1, <2>2 DEF Held, HeldByRuns, Busy
  <2>3. CASE UNCHANGED job
    BY <2>1, <2>2, <2>3
  <2>4. ASSUME NEW p \in Paths, ReadProfile(r, p)
        PROVE  \E i \in Ids : Live(i) /\ s = Scan(i)
    BY <1>0, <2>1, <2>4, RunConstants DEF ReadProfile
  <2>5. ASSUME NEW k \in Runs, NEW j, job' = [job EXCEPT ![k] = j], k # r
        PROVE  s \in Held
    BY <1>0, <2>1, <2>2, <2>5
  <2>6. ASSUME TouchRun(r) \/ EnsureRun(r) \/ RefuseRun(r) \/ ClaimRun(r) \/ JoinRun(r)
        PROVE  s \in Held
    <3>1. job[r].pc \in {"read", "touched", "ensured"} /\ job[r] \in JobStates
      BY <1>0, <2>6 DEF TouchRun, EnsureRun, RefuseRun, ClaimRun, JoinRun
    <3>2. PICK j : /\ job' = [job EXCEPT ![r] = j]
                   /\ \/ j = IdleJob
                      \/ \E pc \in {"touched", "ensured"} : j = [job[r] EXCEPT !.pc = pc]
                      \/ j = [pc |-> "crawling", path |-> job[r].path,
                              held |-> job[r].held, found |-> {}]
      BY <2>6 DEF TouchRun, EnsureRun, RefuseRun, ClaimRun, JoinRun
    <3>3. j.pc # "idle" => j.held = job[r].held
      BY <3>1, <3>2 DEF IdleJob, JobStates
    <3> QED
      BY <1>0, <2>1, <2>2, <3>1, <3>2, <3>3
  <2>7. ASSUME CrawlPage(r)
        PROVE  s \in Held
    <3>1. job[r].pc = "crawling" /\ job[r] \in JobStates
      BY <1>0, <2>7 DEF CrawlPage
    <3>2. PICK fresh, ok : job' = IF ok THEN [job EXCEPT ![r].found = @ \cup fresh]
                                        ELSE [job EXCEPT ![r].pc = "ending"]
      BY <2>7 DEF CrawlPage
    <3>3. job'[r].held = job[r].held
      <4>1. CASE ok
        BY <1>0, <3>1, <3>2, <4>1 DEF JobStates
      <4>2. CASE ~ok
        BY <1>0, <3>1, <3>2, <4>2 DEF JobStates
      <4> QED
        BY <4>1, <4>2
    <3> QED
      BY <2>2, <3>1, <3>3
  <2>8. ASSUME EndCrawl(r)
        PROVE  FALSE
    BY <1>0, <2>1, <2>8 DEF EndCrawl, IdleJob
  <2>9. ASSUME NEW k \in Runs, RunHandler(k) \/ CrawlPage(k) \/ EndCrawl(k), k # r
        PROVE  s \in Held
    <3>1. \E j : job' = [job EXCEPT ![k] = j]
      BY <2>9 DEF RunHandler, TouchRun, EnsureRun, RefuseRun, ClaimRun, JoinRun, CrawlPage,
                  EndCrawl
    <3> QED
      BY <2>5, <2>9, <3>1
  <2>10. ASSUME NEW k \in Runs, NEW p \in Paths, ReadProfile(k, p), k # r
         PROVE  s \in Held
    BY <2>5, <2>10 DEF ReadProfile
  <2>11. CASE Restart
    BY <2>1, <2>11 DEF Restart, IdleJob
  <2>12. CASE UNCHANGED vars
    BY <2>3, <2>12 DEF vars
  <2> QED
    BY <2>3, <2>4, <2>6, <2>7, <2>8, <2>9, <2>10, <2>11, <2>12 DEF Next, RunHandler
<1> QED
  BY <1>1, <1>2 DEF Held

\* Whoever holds the copies: if each is of the row as it was at its version, a
\* statement leaves it so, and a new copy agrees with the old ones.
LEMMA CopiesStayPinned ==
  ASSUME StoreTypeOK, StoreTypeOK', Statement, NEW C, NEW D,
         AreCopies(C), Agree(C), ReadSince(D, C)
  PROVE  AreCopies(D)' /\ Agree(D)
\* A copy is, before the step, of the row as it stands or of an earlier one.
<1>1. ASSUME NEW s \in D
      PROVE  s.id \in Ids /\ s.ver \in Nat /\ CopyOfRow(s)
  <2>1. ASSUME NEW i \in Ids, Live(i), s = Scan(i)
        PROVE  s.id \in Ids /\ s.ver \in Nat /\ CopyOfRow(s)
    <3>1. s.id = i /\ s.ver = profile[i].ver /\ s.filters = profile[i].cfg.filters
      BY <2>1 DEF Scan
    <3>2. profile[i].ver \in Nat
      BY DEF StoreTypeOK, Rows
    <3> QED
      BY <2>1, <3>1, <3>2 DEF CopyOfRow, Used, Live
  <2> QED
    BY <2>1 DEF AreCopies, ReadSince
<1>2. ASSUME NEW s \in D, NEW t \in D, s.id = t.id, s.ver = t.ver
      PROVE  s.filters = t.filters
  <2>1. CASE s \in C /\ t \in C
    BY <1>2, <2>1 DEF Agree
  <2>2. ASSUME NEW i \in Ids, s = Scan(i) \/ t = Scan(i)
        PROVE  s.filters = t.filters
    BY <1>1, <1>2, <2>2 DEF Scan, CopyOfRow
  <2> QED
    BY <2>1, <2>2 DEF ReadSince
<1>3. ASSUME NEW s \in D
      PROVE  CopyOfRow(s)'
  <2>1. s.id \in Ids /\ s.ver \in Nat /\ CopyOfRow(s)
    BY <1>1
  <2>2. RowKept(s.id)
    BY <2>1, RowsKept DEF CopyOfRow
  <2>3. profile[s.id].ver \in Nat /\ profile'[s.id].ver \in Nat
    BY <2>1 DEF StoreTypeOK, Rows
  <2> QED
    BY <2>1, <2>2, <2>3 DEF CopyOfRow, RowKept, Used
<1> QED
  BY <1>1, <1>2, <1>3 DEF AreCopies, Agree

LEMMA PinStep ==
  ASSUME PinInv, [Next]_vars
  PROVE  PinInv'
<1>1. TypeOK /\ TypeOK' /\ Statement
  BY StepTyped, StatementsOfStep DEF PinInv
<1>2. StoreTypeOK /\ StoreTypeOK'
  BY <1>1 DEF TypeOK, ApiTypeOK
<1>3. AreCopies(Held) /\ Agree(Held)
  BY <1>1, HeldIds DEF PinInv, AreCopies
<1>4. PICK C, D : C = Held /\ D = Held'
  OBVIOUS
<1>5. ReadSince(D, C)
  BY <1>1, <1>4, CopiesComeFromRows DEF ReadSince
<1>6. AreCopies(D)' /\ Agree(D)
  BY <1>1, <1>2, <1>3, <1>4, <1>5, CopiesStayPinned
<1> QED
  BY <1>1, <1>4, <1>6 DEF PinInv, AreCopies, Agree

\* Whoever holds a copy of a searcher at some version, however old, holds the
\* same filters as everybody else who sees that version.
THEOREM VersionsPinFilters == Spec => []VersionPinsCrawls
<1>1. Init => PinInv
  BY PinInit
<1>2. PinInv /\ [Next]_vars => PinInv'
  BY PinStep
<1>3. PinInv => VersionPinsCrawls
  BY PinImplies
<1> QED
  BY <1>1, <1>2, <1>3, PTL DEF Spec

----------------------------------------------------------------------------
\* The version recorded in the core, together with why no sync overtakes the
\* table: each carries the version of a copy.
SyncInv ==
  /\ PinInv
  /\ \A i \in Ids : cat[i].synced <= profile[i].ver
  /\ \A i \in Ids : ~Used(i) => cat[i].synced = 0

LEMMA SyncInit == Init => SyncInv
<1> SUFFICES ASSUME Init PROVE SyncInv
  OBVIOUS
<1>1. \A i \in Ids : cat[i].synced = 0 /\ profile[i].ver = 1
  BY DEF Init, ApiInit, StoreInit, CatalogInit, DemoRow
<1> QED
  BY <1>1, PinInit DEF SyncInv

\* A step leaves a recorded version alone or sets it to that of a copy.
LEMMA SyncedMoves ==
  ASSUME TypeOK, [Next]_vars, NEW i \in Ids
  PROVE  \/ cat'[i].synced = cat[i].synced
         \/ \E s \in Held : s.id = i /\ cat'[i].synced = s.ver
<1>0. CatalogTypeOK /\ ApiTypeOK
  BY DEF TypeOK, ApiTypeOK
<1>1. ASSUME NEW q \in Requests, FinishEnsure(q)
      PROVE  cat'[i].synced = cat[i].synced
  BY <1>0, <1>1, RequestCarries, EnsureType DEF FinishEnsure
<1>2. ASSUME NEW r \in Runs, EnsureRun(r)
      PROVE  cat'[i].synced = cat[i].synced
  <2>1. job[r].held.id \in Ids /\ job[r].held.name \in Names
    BY <1>2, JobCarries DEF EnsureRun, Busy, Profiles
  <2> QED
    BY <1>0, <1>2, <2>1, EnsureType DEF EnsureRun
<1>3. ASSUME NEW r \in Runs, CrawlPage(r)
      PROVE  \/ cat'[i].synced = cat[i].synced
             \/ \E s \in Held : s.id = i /\ cat'[i].synced = s.ver
  <2>1. job[r].held \in Held /\ job[r].held \in Profiles
    BY <1>3, JobCarries DEF CrawlPage, Busy, Held, HeldByRuns
  <2>2. /\ job[r].held.id \in Ids /\ job[r].held.name \in Names
        /\ job[r].held.ver \in Nat /\ Hits[job[r].held.filters] \in SUBSET Tenders
    BY <2>1, RunConstants DEF Profiles
  <2>3. PICK k \in Ids, t \in Names, v \in Nat :
          k = job[r].held.id /\ t = job[r].held.name /\ v = job[r].held.ver
    BY <2>2
  <2>4. PICK fresh \in SUBSET Tenders, ok \in BOOLEAN : SyncSearchConfig(k, t, v, fresh, ok)
    BY <1>3, <2>2, <2>3 DEF CrawlPage
  <2>5. /\ \A j \in Ids : j # k => cat'[j].synced = cat[j].synced
        /\ cat'[k].synced \in {cat[k].synced, v}
    BY <1>0, <2>4, SyncType
  <2> QED
    BY <2>1, <2>3, <2>5
<1>4. CASE UNCHANGED cat
  BY <1>4
<1>5. ASSUME NEW r \in Runs, RunHandler(r) \/ CrawlPage(r) \/ EndCrawl(r)
      PROVE  UNCHANGED cat \/ EnsureRun(r) \/ CrawlPage(r)
  BY <1>5 DEF RunHandler, TouchRun, RefuseRun, ClaimRun, JoinRun, EndCrawl, apiVars
<1>6. CASE ApiNext
  <2>1. UNCHANGED cat \/ \E q \in Requests : FinishEnsure(q)
    BY <1>6 DEF ApiNext, CreateProfile, BeginUpdate, RequestStep, CommitUpdate,
                AbandonUpdate, SetAutoAI, Delete
  <2> QED
    BY <1>1, <1>4, <2>1
<1>7. ASSUME Restart \/ UNCHANGED vars \/ \E r \in Runs, p \in Paths : ReadProfile(r, p)
      PROVE  UNCHANGED cat
  BY <1>7 DEF Restart, vars, apiVars, ReadProfile
<1> QED
  BY <1>2, <1>3, <1>4, <1>5, <1>6, <1>7 DEF Next

LEMMA SyncStep ==
  ASSUME SyncInv, [Next]_vars
  PROVE  SyncInv'
<1>1. TypeOK /\ TypeOK' /\ PinInv /\ PinInv'
  BY StepTyped, PinStep DEF SyncInv, PinInv
<1>2. ASSUME NEW i \in Ids
      PROVE  cat'[i].synced <= profile'[i].ver /\ (~Used(i)' => cat'[i].synced = 0)
  <2>1. /\ cat[i].synced \in Nat /\ cat'[i].synced \in Nat
        /\ profile[i].ver \in Nat /\ profile'[i].ver \in Nat
    BY <1>1 DEF TypeOK, ApiTypeOK, StoreTypeOK, Rows, CatalogTypeOK, Categories
  <2>2. CASE Used(i)
    <3>1. RowKept(i)
      BY <1>1, <2>2, StatementsOfStep, RowsKept DEF TypeOK, ApiTypeOK
    <3>2. cat'[i].synced <= profile[i].ver
      BY <1>1, SyncedMoves, HeldIds DEF SyncInv, PinInv, CopyOfRow
    <3> QED
      BY <2>1, <3>1, <3>2 DEF RowKept
  <2>3. CASE ~Used(i)
    <3>1. \A s \in Held : s.id # i
      BY <1>1, <2>3 DEF PinInv, CopyOfRow
    <3>2. cat'[i].synced = 0
      BY <1>1, <2>3, <3>1, SyncedMoves DEF SyncInv
    <3> QED
      BY <2>1, <3>2
  <2> QED
    BY <2>2, <2>3
<1> QED
  BY <1>1, <1>2 DEF SyncInv

\* zakupki-core never records a version the searcher has not reached.
THEOREM SyncedNeverAhead == Spec => []SyncedNotAhead
<1>1. Init => SyncInv
  BY SyncInit
<1>2. SyncInv /\ [Next]_vars => SyncInv'
  BY SyncStep
<1>3. SyncInv => SyncedNotAhead
  BY DEF SyncInv, SyncedNotAhead
<1> QED
  BY <1>1, <1>2, <1>3, PTL DEF Spec
====
