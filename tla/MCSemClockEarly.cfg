\* The user types "f" although the screen process has not reported yet.
CONSTANTS
  Keys = {"f"}
  MaxKeys = 0
  KbdCap = 3
  ScrCap = 1
  Shown = 1
  Patient = FALSE
  NoCommand = NoCommand
SPECIFICATION ClockFairSpec
PROPERTY EndCommandEnds
CHECK_DEADLOCK FALSE
