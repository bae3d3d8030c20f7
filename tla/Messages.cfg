CONSTANTS
  Senders <- MCSenders
  Plans <- MCPlans
  Types <- MCTypes
SPECIFICATION FairSpec
INVARIANTS ReceivedAsSent BuffersFit
PROPERTIES EverythingArrives
