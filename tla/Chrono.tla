------------------------------- MODULE Chrono -------------------------------
(***************************************************************************)
(* What the chronometer of the digital clock shows (the loop of             *)
(* ClockChrono_Chrono in user/sem_clock/clock.c with the real times): it    *)
(* runs in hundredths and shows a new line each second; an intermediate     *)
(* time stays for three seconds; stopping shows the final time.             *)
(***************************************************************************)
EXTENDS Hmsh

CONSTANTS
  Start,          \* times of day a run of the chronometer is looked at from
  MaxUnits        \* bound on the hundredths counted from there
ASSUME BoundAssumption == MaxUnits \in Nat
ASSUME StartAssumption == Start \subseteq Hour

VARIABLES
  times, Intermediatetimes, endIntermediateTimes,
  status,         \* running, final (after "E") or initial
  line,           \* what was put on display last
  since, units    \* history: units since the last "I", and since the start

chronoVars == <<times, Intermediatetimes, endIntermediateTimes, status, line,
                since, units>>
None == -1

\* A running chronometer that has shown the present second.
ChronoInit ==
  /\ times \in Start
  /\ Intermediatetimes = FALSE /\ endIntermediateTimes = Initialise
  /\ status = "running"
  /\ line = Convert(times, FALSE)
  /\ since = None /\ units = 0

\* "C": one unit later.  A held intermediate time is not replaced before three
\* seconds are over, and then at once.
Held(t) == Intermediatetimes /\ t # endIntermediateTimes
CommandC ==
  /\ status \in {"running", "initial"} /\ status' = "running"
  /\ units < MaxUnits
  /\ times' = PlusOneUnit(times)
  /\ Intermediatetimes' = Held(times')
  /\ LET display == IF Intermediatetimes THEN ~ Intermediatetimes'
                    ELSE reportSeconds(times)
     IN  line' = IF display THEN Convert(times', FALSE) ELSE line
  /\ since' = IF since = None THEN None ELSE since + 1
  /\ units' = units + 1
  /\ UNCHANGED endIntermediateTimes

HeldFor(n) ==
  /\ status = "running"
  /\ Intermediatetimes' = TRUE
  /\ endIntermediateTimes' = PlusNSeconds(n, times)
  /\ line' = Convert(times, TRUE)
  /\ since' = 0
  /\ UNCHANGED <<times, status, units>>
TwoSeconds == HeldFor(2)
CommandI == HeldFor(3)

CommandE ==
  /\ status = "running" /\ status' = "final"
  /\ line' = Convert(times, TRUE)
  /\ UNCHANGED <<times, Intermediatetimes, endIntermediateTimes, since, units>>

\* "R" comes after "E"; then the chronometer waits for "C".
CommandR ==
  /\ status = "final" /\ status' = "initial"
  /\ times' = Initialise
  /\ Intermediatetimes' = FALSE
  /\ line' = Convert(Initialise, FALSE)
  /\ since' = None /\ units' = 0
  /\ UNCHANGED endIntermediateTimes

ChronoNext == CommandC \/ CommandI \/ CommandE \/ CommandR
ChronoSpec == ChronoInit /\ [][ChronoNext]_chronoVars

-----------------------------------------------------------------------------
\* Types; the times are times of day (dispclk.c:38-60).
ChronoTypeOK ==
  /\ times \in Hour /\ endIntermediateTimes \in Hour
  /\ Intermediatetimes \in BOOLEAN
  /\ status \in {"running", "final", "initial"}
  /\ since \in {None} \cup Nat /\ units \in 0 .. MaxUnits

\* Every unit advances the time of day by one hundredth, through all the carries
\* and over midnight (dispclk.c:62, 81).
TimeExact == [][CommandC => Units(times') = (Units(times) + 1) % DAY]_chronoVars

\* An intermediate time is held for exactly three seconds (clock.c:209, 202).
HeldThreeSeconds ==
  status = "running" => (Intermediatetimes <=> since \in 0 .. 299)

\* The line on display is right: while nothing is held it says the present
\* second, and after "E" it says the final time to the hundredth.
LineRight ==
  /\ status = "running" /\ ~ Intermediatetimes
     => Said(line) \div 100 = Units(times) \div 100
  /\ status = "final" => Said(line) = Units(times)

\* What the chronometer shows is what the user asked for: both of the above.
ShownRight == HeldThreeSeconds /\ LineRight
=============================================================================
