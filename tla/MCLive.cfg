SPECIFICATION Spec
PROPERTIES
  WriteCompletes
  RequestServed
  ReadReturns
CHECK_DEADLOCK FALSE
