CONSTANTS
  world = world
  a = a
  b = b
  x = x
  y = y
  Objects <- MCObjects
  Instance = world
  MaxComms = 3
  MaxAttrs = 4
  AttrValues <- MCValues
SPECIFICATION Spec
INVARIANTS Ownership
PROPERTIES HasValueSemantics
