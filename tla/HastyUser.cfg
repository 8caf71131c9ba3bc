SPECIFICATION FairSpec
CONSTANTS
  ann = ann
  bob = bob
  news = news
  s1 = s1
  None = None
  User = {ann, bob}
  Channel = {news, s1}
  Texts = {"plain", "ERROR"}
  MayRefuse = TRUE
  MayDie = TRUE
  MaxMessages = 1
  Commands <- HastyCommands
  MaxCommands = 4
  Careful = FALSE
INVARIANTS
  SubscriptionIdsUnique
  ReportsSigned
  NothingMissed
PROPERTIES
  GracefulLogout
  LogoutCompletes
