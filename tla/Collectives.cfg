\* Programs of two calls by three ranks.
SPECIFICATION FairSpec
CONSTANTS
    Size = 3
    Programs <- MCPrograms
INVARIANTS CollectivesAgree ResultsInOrder ArraysHold
PROPERTIES EverythingReturns
CHECK_DEADLOCK FALSE
