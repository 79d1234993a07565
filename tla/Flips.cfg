CONSTANTS
  NumCrtc = 2
  Buf <- MCBuf
  front = front
  back = back
  First = front
  MaxFlip = 2
  MaxMove = 1
  MaxHang = 1
SPECIFICATION FairSpec
INVARIANTS OnePlace PinsBalance  QuiesceIsComplete
PROPERTIES FlipsEnd
CHECK_DEADLOCK FALSE
