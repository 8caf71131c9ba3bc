SPECIFICATION Spec
CONSTANTS
  c1 = c1
  c2 = c2
  ann = ann
  bob = bob
  pw = pw
  pw2 = pw2
  news = news
  s1 = s1
  s2 = s2
  None = None
  NaN = NaN
  Conn = {c1, c2}
  Name = {ann, bob}
  Pass = {pw}
  Channel = {news}
  SubId = {s1, s2}
  Sends <- PersonalSends
  MaxFrames <- Frames34
INVARIANTS
  MessageIdsUnique
  SenderOrder
  FanoutComplete
  AnswersInOrder
  NoGhostSubscription
  SubscriptionDelivers
  LogoutForgets
  ReceiptMeansSubscribed
