CONSTANTS
  MaxSize = 8
  Arguments <- MCArguments
  Shapes <- MCShapes
  Offsets <- MCOffsets
SPECIFICATION Spec
INVARIANTS DivisionsAreBlocks SelectionsAgree NeighboursMeet CutsKeepPlaces
CHECK_DEADLOCK FALSE
