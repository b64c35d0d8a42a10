\* Clock and chronometer commands through a mailbox that fills; then "f".
CONSTANTS
  Keys = {"r", "t", "c", "e", "i", "f"}
  MaxKeys = 2
  KbdCap = 1
  ScrCap = 1
  Shown = 1
  Patient = TRUE
  NoCommand = NoCommand
SPECIFICATION ClockSpec
INVARIANTS
  DisplayCounted
  
  CommandsMakeSense
PROPERTY CellsKept
