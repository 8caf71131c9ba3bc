SPECIFICATION FairSpec
CONSTANTS
  h1 = h1
  h2 = h2
  None = None
  Handler = {h1, h2}
  Sends <- Listener
  MaxFrames = 1
  MayLeave = {h1}
INVARIANTS
  TypeOK
  NoLostWakeup
PROPERTIES
  EveryFrameWritten
