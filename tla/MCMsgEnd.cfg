CONSTANTS
  Keys = {"f"}
  MaxKeys = 0
  KbdCap = 1
  NoMsg = NoMsg
SPECIFICATION MsgFairSpec
PROPERTY EndCommandEnds
CHECK_DEADLOCK FALSE
