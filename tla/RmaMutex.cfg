CONSTANTS
  N = 3
  Home = 1
  ExclusiveEpochs = TRUE
  OrderedEpochs = TRUE
SPECIFICATION MCSpec
PROPERTIES ImplementsMutex OvertakenOnceByEach LockReturns
