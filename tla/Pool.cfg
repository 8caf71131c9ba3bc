SPECIFICATION FairSpec
CONSTANTS
  a1 = a1
  a2 = a2
  w1 = w1
  w2 = w2
  None = None
  Selector = Selector
  Act = {a1, a2}
  Worker = {w1, w2}
  MaxTasks = 4
INVARIANTS
  TypeOK
  OneTaskPerActor
  NoStrandedTask
PROPERTIES
  SerialExecution
  EveryTaskRuns
