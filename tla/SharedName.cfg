SPECIFICATION FairSpec
CONSTANTS
  c1 = c1
  c2 = c2
  ann = ann
  bob = bob
  pw = pw
  pw2 = pw2
  news = news
  s1 = s1
  s2 = s2
  None = None
  NaN = NaN
  Conn = {c1, c2}
  Name = {ann}
  Pass = {pw, pw2}
  Channel = {news}
  SubId = {s1, s2}
  Sends <- SharedSends
  MaxFrames <- Frames32
INVARIANTS
  TypeOK
  FanoutComplete
  AnswersInOrder
PROPERTIES
  EveryFrameAnswered
