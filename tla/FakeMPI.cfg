CONSTANTS
  Data <- SomeData
  MaxCalls = 4
SPECIFICATION Spec
INVARIANTS AsWithMPI NothingDangles
CHECK_DEADLOCK FALSE
