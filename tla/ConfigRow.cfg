\* PUTs with and without a configuration in any order, over the row of the migration.
SPECIFICATION Spec
CONSTANTS
  a = a
  b = b
  Empty = Empty
  Spaces = Spaces
  Rub = Rub
  UpdateDate = UpdateDate
  Null = Null
  NotANumber = NotANumber
  Texts <- MCTexts
  Docs <- MCDocs
  DemoSearch = a
  MaxVersion = 4
INVARIANTS
  TypeOK
  AsksAsTold
  ReadsAsWritten
PROPERTIES
  RewriteSettles
  ImplementsStore
