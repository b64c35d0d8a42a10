----------------------------- MODULE ClockRules -----------------------------
(***************************************************************************)
(* The commands of the digital clock and which of them make sense when      *)
(* (user/sem_clock/cmdclk.c, cmdcrn.c and the switch of ClockChrono_Read).  *)
(* A command buffer is named after the task that takes commands from it.    *)
(***************************************************************************)

Consumer == {"CLOCK", "CHRONO"}

ClockCommands == {"T", "R", "H", "M", "S"}
ChronoCommands == {"C", "I", "E"}
Command == ClockCommands \cup ChronoCommands \cup {"F"}

Statuses == {"stopped", "running", "stoppedInitial", "stoppedFinal"}

FirstStatus == [c \in Consumer |->
                  IF c = "CLOCK" THEN "stopped" ELSE "stoppedInitial"]

\* The test in CommandClock_Put and CommandChrono_Put.
AcceptsAll(c, st, cmd) == TRUE
Accepts(c, st, cmd) ==
  \/ c = "CLOCK" /\ (st = "running") = (cmd = "T")
  \/ c = "CHRONO" /\ (st = "running") # (cmd = "C")
  \/ cmd = "F"

\* The status a Get leaves when it took cmd.
After(c, st, cmd) ==
  IF c = "CHRONO" /\ st = "stoppedInitial" THEN "running"
  ELSE IF st = "running" /\ cmd = "E" THEN "stoppedFinal"
  ELSE IF st = "running" /\ cmd = "T" THEN "stopped"
  ELSE IF st = "stopped" /\ cmd = "R" THEN "running"
  ELSE st
=============================================================================
