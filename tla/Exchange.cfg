CONSTANTS
  N = 3
  Calls = 2
  Sizes <- MCSizes
  AnySource = FALSE
SPECIFICATION FairSpec
INVARIANTS NothingMisread RightValues
PROPERTIES CallsReturn
