SPECIFICATION FairSpec
CONSTANTS
  Worker = {w1, w2}
  None = None
  QueueCapacity = 1
  MaxEvents = 5
PROPERTIES
  KeepsPromise
  Terminates
