CONSTANTS
  N = 3
  line1 = line1
  line2 = line2
  cell1 = cell1
  cell2 = cell2
  raw1 = raw1
  raw2 = raw2
  silence = silence
  Empty = silence
  Line <- MCLine
  Cell <- MCCell
  Raw <- MCRaw
  Scripts <- MCScripts
SPECIFICATION PrintingSpec
INVARIANTS RoundIntact FlushMeansPrinted LayoutFollowsOutput
PROPERTIES FlushReturns
