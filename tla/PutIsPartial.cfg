\* PUTs on /search-profiles that leave fields out.
SPECIFICATION ApiSpec
CONSTANTS
  u1 = u1
  u2 = u2
  i1 = i1
  i2 = i2
  n1 = n1
  n2 = n2
  d1 = d1
  empty = empty
  f1 = f1
  f2 = f2
  t1 = t1
  Absent = Absent
  Blank = Blank
  NoTitle = NoTitle
  Users <- MCUsers
  Ids <- MCIds
  Names <- MCNames
  Descs <- MCDescs
  NoDesc = empty
  Filters <- MCFilters
  DefaultFilters = f1
  DemoId = i1
  DemoUser = u1
  DemoName = n1
  DemoDesc = d1
  DemoFilters = f1
  r1 = r1
  r2 = r2
  Requests <- MCRequests
  Bodies <- PartialBodies
  CoreSettings = {FALSE}
  MaxVersion = 2
  Tenders <- MCTenders
CHECK_DEADLOCK FALSE
PROPERTIES
  PutIsPartial
