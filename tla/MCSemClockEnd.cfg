\* Liveness: the user waits for the display, hides or pauses it, and types "f".
CONSTANTS
  Keys = {"n", "p", "f"}
  MaxKeys = 1
  KbdCap = 3
  ScrCap = 1
  Shown = 1
  Patient = TRUE
  NoCommand = NoCommand
SPECIFICATION ClockFairSpec
PROPERTY EndCommandEnds
