SPECIFICATION Spec
CONSTANTS
  ann = ann
  bob = bob
  news = news
  s1 = s1
  None = None
  User = {ann, bob}
  Channel = {news, s1}
  Texts = {"plain"}
  MayRefuse = FALSE
  MayDie = FALSE
  MaxMessages = 2
  Commands <- UserCommands
  MaxCommands = 6
  Careful = TRUE
INVARIANTS
  TypeOK
  ClientSurvives
  ChannelsAgree
  ReportsSigned
  NothingMissed
