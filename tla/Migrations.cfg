\* Three processes start over an empty database; three faults anywhere.
\* Nothing is left to do when all serve and the faults are used up.
CHECK_DEADLOCK FALSE
SPECIFICATION Spec
CONSTANTS
  p1 = p1
  p2 = p2
  p3 = p3
  Processes <- ThreeProcesses
  KindOf <- MCKindOf
  Images = {3, 4}
  MaxFaults = 3
INVARIANTS
  TypeOK
  RecordedExactlyOnce
  ServesMigrated
PROPERTIES
  RestartsLeadToServing
  ImplementsSchema
  StartsConverge
