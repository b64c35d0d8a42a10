------------------------------ MODULE SemClock ------------------------------
(***************************************************************************)
(* The semaphore based digital clock (user/sem_clock): the tasks READ,      *)
(* CLOCK, CHRONO, WRITE and MASTER of clock.c, the keyboard process and the *)
(* screen process, with the command buffers of cmdclk.c and cmdcrn.c and    *)
(* the display buffers of dispclk.c between them.                           *)
(*                                                                         *)
(* Every semaphore or mailbox call is a step, and so is the work between    *)
(* two of them.  The state begins when all tasks of clock.c have started    *)
(* (the run script waits a second before it starts the keyboard).  The time *)
(* of day is abstracted to a number Convert shows differently after each    *)
(* change; module Hmsh has the arithmetic.                                  *)
(***************************************************************************)
EXTENDS ClockRules, Integers, Sequences

CONSTANTS
  Keys,           \* what the user may type
  MaxKeys,        \* bound on the keys typed before the last "f"
  KbdCap,         \* bytes in the mailbox KEYBRD, 100 in the source
  ScrCap,         \* messages of 12 bytes in the mailbox SCREEN, 8 in the source
  Shown,          \* how many times of day Convert tells apart
  Patient,        \* TRUE: the user types nothing before the display is there
  NoCommand

ASSUME CapAssumption == KbdCap \in Nat \ {0} /\ ScrCap \in Nat \ {0}
ASSUME ShownAssumption == Shown \in Nat \ {0} /\ MaxKeys \in Nat
ASSUME PatientAssumption == Patient \in BOOLEAN
ASSUME NoCommandAssumption == NoCommand \notin Command

Tasks == {"READ", "CLOCK", "CHRONO", "WRITE", "MASTER", "KBRTSK", "SCRTSK"}
END == -1         \* chain[1] == 101: the clock has ended
None == -2        \* a chain nobody wrote

VARIABLES
  pc,             \* where each task is
  kbd, scr,       \* the mailboxes
  typed,          \* keys typed so far
  resumed,        \* rt_task_resume(MASTER) was called
  deleted,        \* MASTER deleted the semaphores and mailboxes
  run, sync_sem,  \* the tasks that reported, and the start semaphore
  hide, Pause,
  ch, to,         \* READ: the command it puts and the buffer it puts it in
  notFull, notEmpty, buffer, status,    \* of each command buffer
  buffered,       \* of the chronometer's buffer
  command, time,  \* CLOCK and CHRONO: the command and the present time
  chain, receiver, \* WRITE: what it got and for which half of the line
  mutex, any,     \* the semaphores mutex and notEmpty of dispclk.c
  dstat, dbuf,    \* HourBufferstatus, TimesBufferstatus and their contents
  shown           \* the line on the screen

cellVars == <<notFull, notEmpty, buffer, status, buffered>>
dispVars == <<mutex, any, dstat, dbuf>>
readVars == <<ch, to, run, hide, Pause>>
workVars == <<command, time, chain, receiver>>
endVars == <<typed, resumed, deleted>>
clockVars == <<pc, kbd, scr, endVars, sync_sem, readVars, cellVars, workVars,
               dispVars, shown>>

ClockInit ==
  /\ pc = [t \in Tasks |-> IF t = "READ" THEN "receive"
                           ELSE IF t \in Consumer THEN "sync"
                           ELSE IF t = "WRITE" THEN "wait"
                           ELSE IF t = "MASTER" THEN "suspended" ELSE "hello"]
  /\ kbd = << >> /\ scr = << >>
  /\ typed = 0 /\ resumed = FALSE /\ deleted = FALSE
  /\ run = {} /\ sync_sem = 0
  /\ hide = FALSE /\ Pause = FALSE
  /\ ch = NoCommand /\ to = "CLOCK"
  /\ notFull = [c \in Consumer |-> 1]
  /\ notEmpty = [c \in Consumer |-> 0]
  /\ buffer = [c \in Consumer |-> NoCommand]
  /\ status = FirstStatus
  /\ buffered = FALSE
  /\ command = [c \in Consumer |-> IF c = "CHRONO" THEN "R" ELSE NoCommand]
  /\ time = [c \in Consumer |-> 0]
  /\ chain = None
  /\ receiver = "CLOCK"
  /\ mutex = 1 /\ any = 0
  /\ dstat = [c \in Consumer |-> "empty"]
  /\ dbuf = [c \in Consumer |-> None]
  /\ shown = [c \in Consumer |-> 0]

Goto(t, at) == pc' = [pc EXCEPT ![t] = at]
-----------------------------------------------------------------------------
\* rt_mbx_send waits for room, rt_mbx_send_if drops what does not fit.
mbx_send(c) == Len(kbd) < KbdCap /\ kbd' = Append(kbd, c)
mbx_send_if(c) == kbd' = IF Len(kbd) < KbdCap THEN Append(kbd, c) ELSE kbd

\* keybrd.c.
KeyHello ==
  /\ pc["KBRTSK"] = "hello" /\ mbx_send("k")
  /\ Goto("KBRTSK", "keys")
  /\ UNCHANGED <<scr, endVars, sync_sem, readVars, cellVars, workVars, dispVars,
                 shown>>

KeyTyped(k) ==
  /\ pc["KBRTSK"] = "keys"
  /\ Patient => run = {"K", "D"}
  /\ \/ k = "f" /\ Goto("KBRTSK", "r") /\ UNCHANGED <<kbd, typed>>
     \/ /\ k # "f" /\ typed < MaxKeys
        /\ mbx_send_if(k) /\ typed' = typed + 1 /\ UNCHANGED pc
  /\ UNCHANGED <<scr, resumed, deleted, sync_sem, readVars, cellVars, workVars,
                 dispVars, shown>>

\* The three last commands.
KeyLast ==
  /\ pc["KBRTSK"] \in {"r", "c", "f"} /\ mbx_send(pc["KBRTSK"])
  /\ Goto("KBRTSK", IF pc["KBRTSK"] = "r" THEN "c"
                    ELSE IF pc["KBRTSK"] = "c" THEN "f" ELSE "resume")
  /\ UNCHANGED <<scr, endVars, sync_sem, readVars, cellVars, workVars, dispVars,
                 shown>>

KeyResume ==
  /\ pc["KBRTSK"] = "resume"
  /\ resumed' = TRUE
  /\ Goto("KBRTSK", "leave")
  /\ UNCHANGED <<kbd, scr, typed, deleted, sync_sem, readVars, cellVars,
                 workVars, dispVars, shown>>

KeyLeave ==
  /\ pc["KBRTSK"] = "leave" /\ pc["MASTER"] = "end"
  /\ pc' = [pc EXCEPT !["KBRTSK"] = "end", !["SCRTSK"] = "end"]
  /\ UNCHANGED <<kbd, scr, endVars, sync_sem, readVars, cellVars, workVars,
                 dispVars, shown>>

\* screen.c.
ScreenHello ==
  /\ pc["SCRTSK"] = "hello" /\ mbx_send("d")
  /\ Goto("SCRTSK", "loop")
  /\ UNCHANGED <<scr, endVars, sync_sem, readVars, cellVars, workVars, dispVars,
                 shown>>

ScreenShow ==
  /\ pc["SCRTSK"] = "loop" /\ scr # << >> /\ ~ deleted
  /\ scr' = Tail(scr)
  /\ shown' = [shown EXCEPT ![Head(scr).dest] = Head(scr).val]
  /\ UNCHANGED <<pc, kbd, endVars, sync_sem, readVars, cellVars, workVars,
                 dispVars>>

-----------------------------------------------------------------------------
\* ClockChrono_Read.
toupper == [t |-> "T", r |-> "R", h |-> "H", m |-> "M", s |-> "S", c |-> "C",
            i |-> "I", e |-> "E", n |-> "N", p |-> "P", k |-> "K", d |-> "D",
            f |-> "F", F |-> "F", x |-> "X"]

\* A key is taken from the mailbox: a command for one of the buffers (first the
\* clock's for "F"), the switch of the display, a pause, or a start report.
ReadReceive ==
  /\ pc["READ"] = "receive" /\ kbd # << >>
  /\ kbd' = Tail(kbd)
  /\ LET key == toupper[Head(kbd)]
     IN  \/ /\ key \in Command
            /\ ch' = key
            /\ to' = IF key \in ChronoCommands THEN "CHRONO" ELSE "CLOCK"
            /\ Goto("READ", "put")
            /\ UNCHANGED <<hide, Pause, run, sync_sem>>
         \/ /\ key = "N" /\ hide' = ~ hide
            /\ UNCHANGED <<pc, ch, to, Pause, run, sync_sem>>
         \/ /\ key = "P" /\ Pause' = TRUE /\ Goto("READ", "pause")
            /\ UNCHANGED <<ch, to, hide, run, sync_sem>>
         \/ /\ key \in {"K", "D"}
            /\ run' = run \cup {key}
            /\ sync_sem' = IF run' = {"K", "D"} THEN sync_sem + 2 ELSE sync_sem
            /\ UNCHANGED <<pc, ch, to, hide, Pause>>
         \/ key = "X" /\ UNCHANGED <<pc, readVars, sync_sem>>
  /\ UNCHANGED <<scr, endVars, cellVars, workVars, dispVars, shown>>

ReadPause ==
  /\ pc["READ"] = "pause"
  /\ Pause' = FALSE
  /\ Goto("READ", "receive")
  /\ UNCHANGED <<kbd, scr, endVars, sync_sem, ch, to, run, hide, cellVars,
                 workVars, dispVars, shown>>

\* CommandClock_Put and CommandChrono_Put: rt_sem_wait(notFull), the test, and
\* then the store or the return of notFull.
StoresAtOnce ==
  /\ pc["READ"] = "put" /\ Goto("READ", "test")
  /\ UNCHANGED <<kbd, scr, endVars, sync_sem, readVars, cellVars, workVars,
                 dispVars, shown>>

PutWait ==
  /\ pc["READ"] = "put" /\ notFull[to] > 0
  /\ notFull' = [notFull EXCEPT ![to] = @ - 1]
  /\ Goto("READ", "test")
  /\ UNCHANGED <<kbd, scr, endVars, sync_sem, readVars, notEmpty, buffer, status,
                 buffered, workVars, dispVars, shown>>

PutTest ==
  /\ pc["READ"] = "test"
  /\ Goto("READ", IF Accepts(to, status[to], ch) THEN "store" ELSE "refuse")
  /\ UNCHANGED <<kbd, scr, endVars, sync_sem, readVars, cellVars, workVars,
                 dispVars, shown>>

\* Where READ goes after a Put: "F" is for both buffers, then the task ends.
EndsClockOnly ==
  Goto("READ", IF ch = "F" THEN "end" ELSE "receive") /\ UNCHANGED to
PutDone ==
  IF ch = "F" /\ to = "CLOCK"
  THEN Goto("READ", "put") /\ to' = "CHRONO"
  ELSE Goto("READ", IF ch = "F" THEN "end" ELSE "receive") /\ UNCHANGED to

PutStore ==
  /\ pc["READ"] = "store"
  /\ buffer' = [buffer EXCEPT ![to] = ch]
  /\ notEmpty' = [notEmpty EXCEPT ![to] = @ + 1]
  /\ PutDone
  /\ UNCHANGED <<kbd, scr, endVars, sync_sem, ch, run, hide, Pause, notFull,
                 status, buffered, workVars, dispVars, shown>>

PutRefuse ==
  /\ pc["READ"] = "refuse"
  /\ notFull' = [notFull EXCEPT ![to] = @ + 1]
  /\ PutDone
  /\ UNCHANGED <<kbd, scr, endVars, sync_sem, ch, run, hide, Pause, notEmpty,
                 buffer, status, buffered, workVars, dispVars, shown>>
-----------------------------------------------------------------------------
\* ClockChrono_Clock and ClockChrono_Chrono wait for both processes.
Sync(c) ==
  /\ pc[c] = "sync" /\ sync_sem > 0
  /\ sync_sem' = sync_sem - 1
  /\ Goto(c, IF c = "CHRONO" THEN "act" ELSE "get")
  /\ UNCHANGED <<kbd, scr, endVars, readVars, cellVars, workVars, dispVars,
                 shown>>

\* CommandClock_Get and CommandChrono_Get up to rt_sem_wait(notEmpty); a running
\* clock goes on without a command, and the chronometer has one set aside.
GetWait(c) ==
  /\ pc[c] = "get" /\ status[c] # "stoppedFinal"
  /\ \/ /\ c = "CHRONO" /\ status[c] = "stoppedInitial" /\ buffered
        /\ buffered' = FALSE
        /\ Goto(c, "copy")
        /\ UNCHANGED <<notEmpty, command>>
     \/ /\ ~ (c = "CHRONO" /\ status[c] = "stoppedInitial" /\ buffered)
        /\ notEmpty[c] > 0
        /\ notEmpty' = [notEmpty EXCEPT ![c] = @ - 1]
        /\ Goto(c, "copy")
        /\ UNCHANGED <<buffered, command>>
     \/ /\ status[c] = "running" /\ notEmpty[c] = 0
        /\ command' = [command EXCEPT ![c] = IF c = "CLOCK" THEN "R" ELSE "C"]
        /\ Goto(c, "act")
        /\ UNCHANGED <<buffered, notEmpty>>
  /\ UNCHANGED <<kbd, scr, endVars, sync_sem, readVars, notFull, buffer, status,
                 time, chain, receiver, dispVars, shown>>

\* The rest of a Get: the command and the new status, then notFull.
GetCopy(c) ==
  /\ pc[c] = "copy"
  /\ command' = [command EXCEPT ![c] = buffer[c]]
  /\ status' = [status EXCEPT ![c] = After(c, @, buffer[c])]
  /\ Goto(c, "release")
  /\ UNCHANGED <<kbd, scr, endVars, sync_sem, readVars, notFull, notEmpty,
                 buffer, buffered, time, chain, receiver, dispVars, shown>>

GetRelease(c) ==
  /\ pc[c] = "release"
  /\ notFull' = [notFull EXCEPT ![c] = @ + 1]
  /\ Goto(c, "act")
  /\ UNCHANGED <<kbd, scr, endVars, sync_sem, readVars, notEmpty, buffer, status,
                 buffered, workVars, dispVars, shown>>

\* CommandChrono_Get in stoppedFinal: a command within five seconds is set
\* aside and its place not given back; in any case the chronometer is reset.
GetFinal ==
  /\ pc["CHRONO"] = "get" /\ status["CHRONO"] = "stoppedFinal"
  /\ \/ /\ notEmpty["CHRONO"] > 0
        /\ notEmpty' = [notEmpty EXCEPT !["CHRONO"] = @ - 1]
        /\ buffered' = TRUE
     \/ notEmpty["CHRONO"] = 0 /\ UNCHANGED <<notEmpty, buffered>>
  /\ command' = [command EXCEPT !["CHRONO"] = "R"]
  /\ status' = [status EXCEPT !["CHRONO"] = "stoppedInitial"]
  /\ Goto("CHRONO", "act")
  /\ UNCHANGED <<kbd, scr, endVars, sync_sem, readVars, notFull, buffer, time,
                 chain, receiver, dispVars, shown>>

\* The switch of the two tasks.  The time is shown anew when it was set, when a
\* second is complete, and for an intermediate or final time.
Act(c, display) ==
  /\ pc[c] = "act" /\ command[c] # "F"
  /\ command[c] \in {"H", "M", "S", "I", "E"} => display
  /\ command[c] = "R" /\ c = "CHRONO" => display
  /\ command[c] = "T" => ~ display
  /\ time' = [time EXCEPT ![c] = IF c = "CHRONO" /\ command[c] = "R" THEN 0
                                 ELSE IF display THEN (@ + 1) % Shown ELSE @]
  /\ Goto(c, IF display THEN "lock" ELSE "get")
  /\ UNCHANGED <<kbd, scr, endVars, sync_sem, readVars, cellVars, command, chain,
                 receiver, dispVars, shown>>

\* "F": the clock sends a last chain that ends WRITE, the chronometer just ends.
ActEnd(c) ==
  /\ pc[c] = "act" /\ command[c] = "F"
  /\ Goto(c, IF c = "CLOCK" THEN "lock" ELSE "end")
  /\ UNCHANGED <<kbd, scr, endVars, sync_sem, readVars, cellVars, workVars,
                 dispVars, shown>>

-----------------------------------------------------------------------------
\* Display_PutHour and Display_PutTimes, and the second half of Display_Get.
Lock(t) ==
  /\ pc[t] = "lock" /\ mutex > 0
  /\ mutex' = mutex - 1
  /\ Goto(t, IF t = "WRITE" THEN "take" ELSE "store")
  /\ UNCHANGED <<kbd, scr, endVars, sync_sem, readVars, cellVars, workVars, any,
                 dstat, dbuf, shown>>

\* A new chain replaces one that was not fetched; notEmpty is signalled once.
Store(c, text, units) ==
  /\ pc[c] = "store"
  /\ dbuf' = [dbuf EXCEPT ![c] = text]
  /\ dstat' = [dstat EXCEPT ![c] = "full"]
  /\ any' = any + units
  /\ Goto(c, "unlock")
  /\ UNCHANGED <<kbd, scr, endVars, sync_sem, readVars, cellVars, workVars, mutex,
                 shown>>
Text(c) == IF command[c] = "F" THEN END ELSE time[c]

SignalsAlways(c) == Store(c, Text(c), 1)
KeepsOld(c) == IF dstat[c] = "empty" THEN Store(c, Text(c), 1) ELSE Store(c, dbuf[c], 0)
DisplayStore(c) == Store(c, Text(c), IF dstat[c] = "empty" THEN 1 ELSE 0)

Unlock(t) ==
  /\ pc[t] = "unlock"
  /\ mutex' = mutex + 1
  /\ Goto(t, IF t = "WRITE" THEN "send"
             ELSE IF command[t] = "F" THEN "end" ELSE "get")
  /\ UNCHANGED <<kbd, scr, endVars, sync_sem, readVars, cellVars, workVars, any,
                 dstat, dbuf, shown>>

\* ClockChrono_Write.
DisplayWait ==
  /\ pc["WRITE"] = "wait" /\ any > 0
  /\ any' = any - 1
  /\ Goto("WRITE", "lock")
  /\ UNCHANGED <<kbd, scr, endVars, sync_sem, readVars, cellVars, workVars, mutex,
                 dstat, dbuf, shown>>

\* The times come first; with both buffers empty the chain would be an old one.
DisplayTake ==
  /\ pc["WRITE"] = "take"
  /\ \/ \E c \in Consumer :
          /\ dstat[c] = "full"
          /\ c = "CLOCK" => dstat["CHRONO"] = "empty"
          /\ receiver' = c
          /\ chain' = dbuf[c]
          /\ dstat' = [dstat EXCEPT ![c] = "empty"]
     \/ /\ \A c \in Consumer : dstat[c] = "empty"
        /\ UNCHANGED <<receiver, chain, dstat>>
  /\ Goto("WRITE", "unlock")
  /\ UNCHANGED <<kbd, scr, endVars, sync_sem, readVars, cellVars, command, time,
                 mutex, any, dbuf, shown>>

WriteSend ==
  /\ pc["WRITE"] = "send"
  /\ LET msg == [dest |-> receiver, val |-> chain]
         sent == ~ hide /\ ~ Pause /\ Len(scr) < ScrCap
     IN  \/ chain = END /\ Goto("WRITE", "end") /\ UNCHANGED scr
         \/ /\ chain # END
            /\ scr' = IF sent THEN Append(scr, msg) ELSE scr
            /\ Goto("WRITE", "wait")
  /\ UNCHANGED <<kbd, endVars, sync_sem, readVars, cellVars, workVars, dispVars,
                 shown>>

\* main, once keybrd resumed it: wait until the four tasks are gone, clean up.
Cleanup(gone) ==
  /\ pc["MASTER"] = "suspended" /\ resumed
  /\ \A t \in gone : pc[t] = "end"
  /\ deleted' = TRUE
  /\ Goto("MASTER", "end")
  /\ UNCHANGED <<kbd, scr, typed, resumed, sync_sem, readVars, cellVars, workVars,
                 dispVars, shown>>

ForgetsChrono == Cleanup({"READ", "CLOCK", "WRITE"})
MasterCleanup == Cleanup({"READ", "CLOCK", "CHRONO", "WRITE"})

-----------------------------------------------------------------------------
Read == \/ ReadReceive \/ ReadPause \/ PutWait \/ PutTest \/ PutStore \/ PutRefuse
Work(c) == \/ Sync(c) \/ GetWait(c) \/ GetCopy(c) \/ GetRelease(c)
           \/ c = "CHRONO" /\ GetFinal
           \/ \E display \in BOOLEAN : Act(c, display)
           \/ ActEnd(c) \/ DisplayStore(c) \/ Unlock(c)
Write == DisplayWait \/ DisplayTake \/ Unlock("WRITE") \/ WriteSend
Keyboard == KeyHello \/ KeyLast \/ KeyResume \/ KeyLeave
Screen == ScreenHello \/ ScreenShow

\* Everything is over: the keyboard process has exited.
Finished == pc["KBRTSK"] = "end" /\ UNCHANGED clockVars

ClockNext ==
  \/ Keyboard \/ Screen \/ Read \/ Write \/ MasterCleanup \/ Finished
  \/ \E k \in Keys : KeyTyped(k)
  \/ \E c \in Consumer : Work(c)
  \/ \E t \in Consumer \cup {"WRITE"} : Lock(t)

ClockSpec == ClockInit /\ [][ClockNext]_clockVars

\* A task that is ready runs.  A semaphore hands its unit to the task that has
\* waited longest, so that nobody waits for the mutex for ever.
ClockFairSpec ==
  /\ ClockSpec
  /\ WF_clockVars(Keyboard) /\ WF_clockVars(Screen) /\ WF_clockVars(Read)
  /\ WF_clockVars(Write) /\ WF_clockVars(MasterCleanup)
  /\ \A c \in Consumer : WF_clockVars(Work(c))
  /\ \A t \in Consumer \cup {"WRITE"} : SF_clockVars(Lock(t))

-----------------------------------------------------------------------------
Places == {"hello", "keys", "r", "c", "f", "resume", "leave", "loop", "receive",
           "pause", "put", "test", "store", "refuse", "sync", "get", "copy",
           "release", "act", "lock", "unlock", "wait", "take", "send",
           "suspended", "end"}

\* Types; the semaphores of the buffers never exceed what they guard: one command
\* each, and one time for each half of the line (cmdclk.c, cmdcrn.c, dispclk.c).
ClockTypeOK ==
  /\ pc \in [Tasks -> Places]
  /\ Len(kbd) <= KbdCap /\ Len(scr) <= ScrCap
  /\ notFull \in [Consumer -> 0 .. 1] /\ notEmpty \in [Consumer -> 0 .. 1]
  /\ buffer \in [Consumer -> Command \cup {NoCommand}]
  /\ status \in [Consumer -> Statuses]
  /\ command \in [Consumer -> Command \cup {NoCommand}]
  /\ mutex \in 0 .. 1 /\ any \in 0 .. 2
  /\ sync_sem \in Nat

\* The two command buffers with their semaphores are places for one command
\* each, put and taken in one step: the test of a Put (cmdclk.c:35, cmdcrn.c:38)
\* still holds when the command is stored, and no command is lost, taken twice
\* or overwritten.
InPlace(c) == notEmpty[c] = 1 \/ pc[c] = "copy" \/ (c = "CHRONO" /\ buffered)
Cell == INSTANCE CommandCell WITH
          slot <- [c \in Consumer |-> IF InPlace(c) THEN buffer[c] ELSE NoCommand]
CellsKept == Cell!CellSpec

\* The commands the switch of a task has, with the status they are for.
MakesSense(c) ==
  \/ command[c] = "F"
  \/ c = "CLOCK" /\ command[c] = "R" /\ status[c] = "running"
  \/ c = "CLOCK" /\ command[c] \in {"T", "H", "M", "S"} /\ status[c] = "stopped"
  \/ c = "CHRONO" /\ command[c] \in {"C", "I"} /\ status[c] = "running"
  \/ c = "CHRONO" /\ command[c] = "E" /\ status[c] = "stoppedFinal"
  \/ c = "CHRONO" /\ command[c] = "R" /\ status[c] = "stoppedInitial"

\* A task acts only on commands its switch has, in the status they are for: the
\* hour is never set while the clock runs, an intermediate time is taken only
\* from a running chronometer.
CommandsMakeSense == \A c \in Consumer : pc[c] = "act" => MakesSense(c)

\* WRITE never passes on a chain nobody put (dispclk.c:138 leaves it unset when
\* both buffers are empty): notEmpty counts the full buffers.
DisplayCounted ==
  LET full == {c \in Consumer : dstat[c] = "full"}
      n(P) == IF P THEN 1 ELSE 0
  IN  /\ any + n(pc["WRITE"] \in {"lock", "take"})
           = n("CLOCK" \in full) + n("CHRONO" \in full)
      /\ pc["WRITE"] = "send" => chain # None

\* The screen does not stay behind, although a new time replaces one that WRITE
\* has not fetched (dispclk.c:117): with nothing on its way it shows the latest.
\* For runs in which nothing is hidden and the mailbox SCREEN never fills.
ScreenCurrent ==
  \A c \in Consumer :
    /\ pc[c] \notin {"sync", "lock", "store"} /\ dbuf[c] # END
    /\ dstat[c] = "empty"
    /\ pc["WRITE"] \in {"take", "unlock", "send"} => receiver # c
    /\ \A i \in DOMAIN scr : scr[i].dest # c
    => shown[c] = time[c]

\* MASTER deletes semaphores and mailboxes only when no task of clock.c can
\* still use them (clock.c:323).
CleanupSafe == deleted => \A t \in Consumer \cup {"READ", "WRITE"} : pc[t] = "end"

\* Once "f" was typed everything ends (the menu says "f-end this", keybrd.c:43).
EndCommandEnds == pc["KBRTSK"] = "r" ~> pc["KBRTSK"] = "end"
=============================================================================
