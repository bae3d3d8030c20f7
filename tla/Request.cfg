CONSTANTS
  req1 = req1
  req2 = req2
  buf1 = buf1
  buf2 = buf2
  nobuf = nobuf
  Posters <- MCPosters
  Buffers <- MCBuffers
  NoBuffer = nobuf
  MaxRequests = 4
SPECIFICATION WaitingSpec
INVARIANTS OneHolder BuffersQuiet CallsDefined
PROPERTIES ScopeIsLeft
