CONSTANTS
  Keys = {"t", "c", "e", "n", "f"}
  MaxKeys = 2
  KbdCap = 1
  NoMsg = NoMsg
SPECIFICATION MsgFairSpec

  
PROPERTY CommandTasksEnd
CHECK_DEADLOCK FALSE
