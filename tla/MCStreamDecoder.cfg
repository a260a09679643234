CONSTANTS
  Capacity = 2
  MaxOffer = 3
  MaxRequest = 2
  MaxFrames = 3
  MaxUnderruns = 1
  MaxChunk = 3
  Prebuffer = 3
SPECIFICATION Spec
INVARIANTS TypeOK NoLostWakeup OutcomeMatchesStream
PROPERTIES StopEndsDecode PlayingNeverStalls
