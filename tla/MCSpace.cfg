SPECIFICATION Spec
INVARIANTS
  RegionsExact
  StackServed
  FreedAll
  ArgvIntact
PROPERTIES
  WriteEnds
CHECK_DEADLOCK FALSE
