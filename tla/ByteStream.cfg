SPECIFICATION UsersSpec
CONSTANTS
  a = a
  b = b
  Nul = Nul
  Char = {a, b}
  Line <- Lines
  Bye <- ByeWord
  MaxLines = 3
  MayBreak = TRUE
INVARIANTS
  TypeOK
  InStep
PROPERTIES
  IsFrameChannel
  AnswersCome
