\* The site publishes, updates and withdraws while the pages are read, and may
\* block; the page limit asked for is below 1, so the default applies.
SPECIFICATION Spec
CONSTANTS
  a = a
  b = b
  c = c
  d = d
  e = e
  f = f
  g = g
  Regs <- SevenRegs
  FirstListing <- FourListed
  PageSize = 2
  DefaultMaxPages = 3
  PageFetchRetries = 3
  MaxPagesArg = 0
  Moves <- AllMoves
  MaxDrift = 2
  MayBlock = TRUE
\* FetchPages returns once.
CHECK_DEADLOCK FALSE
INVARIANTS
  TypeOK
  FoundCountIsDistinct
  DoneCoversListing
PROPERTIES
  ImplementsPageFeed
  GetsRunOut
