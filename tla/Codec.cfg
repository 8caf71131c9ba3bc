SPECIFICATION Spec
CONSTANTS
  connect = connect
  send = send
  disconnect = disconnect
  name = name
  value = value
  text = text
  NL = NL
  Colon = Colon
  Nul = Nul
  Null = Null
  Word = {connect, send, disconnect, name, value, text}
  Frames <- ClientFrames
  MaxFrames = 3
INVARIANTS
  RoundTrip
CHECK_DEADLOCK FALSE
