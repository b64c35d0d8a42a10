\* The user sets a stopped clock three times; SCREEN has room for every time.
CONSTANTS
  Keys = {"h", "m", "x"}
  MaxKeys = 3
  KbdCap = 3
  ScrCap = 4
  Shown = 4
  Patient = TRUE
  NoCommand = NoCommand
SPECIFICATION ClockSpec
INVARIANTS
  ClockTypeOK
  ScreenCurrent
CHECK_DEADLOCK FALSE
