---------------------------- MODULE CommandCell -----------------------------
(***************************************************************************)
(* What the two command buffers of the clock promise: a place for one       *)
(* command.  A command is put only into an empty place and only if it makes *)
(* sense in the present status; it is taken once, in that same status, and  *)
(* the status then changes as the command says.  Each is one step.          *)
(***************************************************************************)
EXTENDS ClockRules

CONSTANT NoCommand

VARIABLES slot, status

CellInit ==
  /\ slot = [c \in Consumer |-> NoCommand]
  /\ status = FirstStatus

Put(c, cmd) ==
  /\ slot[c] = NoCommand
  /\ Accepts(c, status[c], cmd)
  /\ slot' = [slot EXCEPT ![c] = cmd]
  /\ UNCHANGED status

\* A stopped chronometer that shows its final time takes no command.
Take(c) ==
  /\ slot[c] # NoCommand
  /\ status[c] # "stoppedFinal"
  /\ slot' = [slot EXCEPT ![c] = NoCommand]
  /\ status' = [status EXCEPT ![c] = After(c, @, slot[c])]

\* It goes back to its initial state by itself; a command that was put stays.
Reset(c) ==
  /\ status[c] = "stoppedFinal"
  /\ status' = [status EXCEPT ![c] = "stoppedInitial"]
  /\ UNCHANGED slot

CellNext ==
  \E c \in Consumer : (\E cmd \in Command : Put(c, cmd)) \/ Take(c) \/ Reset(c)

CellSpec == CellInit /\ [][CellNext]_<<slot, status>>
=============================================================================
