SPECIFICATION Spec
CONSTANTS
  h1 = h1
  h2 = h2
  None = None
  Handler = {h1, h2}
  Sends <- OneBad
  MaxFrames = 1
  MayLeave = {h2}
INVARIANTS
  SelectorSurvives
