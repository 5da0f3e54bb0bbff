\* A crawl after a change of filters: is the list in the core replaced?
SPECIFICATION Spec
CONSTANTS
  u1 = u1
  i1 = i1
  n1 = n1
  n2 = n2
  d1 = d1
  empty = empty
  f1 = f1
  f2 = f2
  t1 = t1
  t2 = t2
  r1 = r1
  r2 = r2
  q1 = q1
  q2 = q2
  alias = alias
  Absent = Absent
  Blank = Blank
  NoTitle = NoTitle
  Nobody = Nobody
  Users = {u1}
  Ids <- OneId
  Names <- OneName
  Descs <- MCDescs
  NoDesc = empty
  Filters <- MCFilters
  DefaultFilters = f1
  DemoId = i1
  DemoUser = u1
  DemoName = n1
  DemoDesc = empty
  DemoFilters = f1
  Requests = {q1}
  Bodies <- MCBodies
  CoreSettings = {TRUE}
  MaxVersion = 2
  Tenders <- MCTenders
  Runs <- TwoRuns
  Paths <- OneId
  IdOf <- OwnSpelling
  Hits <- MCHits
INVARIANTS
  SyncedListMatchesFilters
