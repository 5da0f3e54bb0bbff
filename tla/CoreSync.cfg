\* One searcher's category under three calls at a time, each statement of which may fail.
SPECIFICATION Spec
CONSTANTS
  i1 = i1
  s1 = s1
  n1 = n1
  t1 = t1
  t2 = t2
  c1 = c1
  c2 = c2
  c3 = c3
  NoTitle = NoTitle
  NoId = NoId
  CategoryIds <- OneId
  Titles <- OneTitle
  Tenders <- TwoTenders
  Versions = {1, 2}
  Slugs <- OneSlug
  SlugOf <- MCSlugOf
  Calls <- ThreeCalls
SYMMETRY MCSymmetry
INVARIANTS
  TypeOK
  EnsuredHasCategory
  AnsweredSyncIsComplete
PROPERTIES
  ImplementsCatalog
