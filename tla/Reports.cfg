SPECIFICATION FairSpec
CONSTANTS
  User = {"ann", "bob"}
  Channel = "police"
  MayBreak = {"bob"}
  Names <- Alphabet
  Files <- ProseFiles
  Remarks <- Talk
INVARIANTS
  ReportsArrive
  SummaryFaithful
  ConstructorReads
PROPERTIES
  AllReported
CHECK_DEADLOCK FALSE
