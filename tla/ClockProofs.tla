---------------------------- MODULE ClockProofs -----------------------------
(***************************************************************************)
(* The semaphore clock for every number of keys, every size of the          *)
(* mailboxes and every set of times: the command buffers are atomic places  *)
(* for one command, the display semaphore counts the full display buffers,  *)
(* commands meet the status they were accepted for, and the clean-up comes  *)
(* after the last use.                                                      *)
(***************************************************************************)
EXTENDS SemClock, TLAPS

Unit(P) == IF P THEN 1 ELSE 0

-----------------------------------------------------------------------------
(* The command buffers.                                                    *)

\* The commands ClockChrono_Read puts into a buffer, and the status it may have.
For(c) == (IF c = "CLOCK" THEN ClockCommands ELSE ChronoCommands) \cup {"F"}
StatusOf(c) ==
  IF c = "CLOCK" THEN {"stopped", "running"}
  ELSE {"running", "stoppedInitial", "stoppedFinal"}

CellTypes ==
  /\ pc \in [Tasks -> Places]
  /\ notFull \in [Consumer -> Nat] /\ notEmpty \in [Consumer -> Nat]
  /\ buffer \in [Consumer -> Command \cup {NoCommand}]
  /\ command \in [Consumer -> Command \cup {NoCommand}]
  /\ status \in [Consumer -> Statuses]
  /\ buffered \in BOOLEAN /\ to \in Consumer

\* The right to use a buffer is in one of five places: notFull, READ between its
\* wait and its signal, notEmpty, the consumer between its wait and its signal,
\* or with the command the chronometer has set aside.
Token(c) ==
  notFull[c] + notEmpty[c]
    + Unit(pc["READ"] \in {"test", "store", "refuse"} /\ to = c)
    + Unit(pc[c] \in {"copy", "release"}) + Unit(c = "CHRONO" /\ buffered) = 1

CellOK(c) ==
  /\ Token(c)
  /\ status[c] \in StatusOf(c)
  /\ InPlace(c) => buffer[c] \in For(c) /\ Accepts(c, status[c], buffer[c])
  /\ pc[c] = "copy" => status[c] # "stoppedFinal"
  /\ pc[c] \in {"release", "act"} => MakesSense(c)
  /\ c = "CHRONO" /\ pc[c] = "sync" => MakesSense(c)

ReadOK ==
  /\ pc["READ"] \in {"put", "test", "store", "refuse"} => ch \in For(to)
  /\ pc["READ"] = "store" => Accepts(to, status[to], ch)

CellInv == CellTypes /\ ReadOK /\ \A c \in Consumer : CellOK(c)

\* The buffers are empty and the semaphores say so.
LEMMA CellInitInv == ClockInit => CellInv
<1> SUFFICES ASSUME ClockInit PROVE CellInv
  BY Zenon
<1>1. CellTypes
  <2>1. pc \in [Tasks -> Places]
    BY Zenon DEF ClockInit, Places
  <2>2. /\ notFull \in [Consumer -> Nat] /\ notEmpty \in [Consumer -> Nat]
        /\ buffer \in [Consumer -> Command \cup {NoCommand}]
        /\ buffered \in BOOLEAN /\ to \in Consumer
    BY Zenon DEF ClockInit, Consumer
  <2>3. command \in [Consumer -> Command \cup {NoCommand}]
    BY Zenon DEF ClockInit, Consumer, Command, ClockCommands
  <2>4. status \in [Consumer -> Statuses]
    BY Zenon DEF ClockInit, Consumer, Statuses, FirstStatus
  <2> QED BY Zenon, <2>1, <2>2, <2>3, <2>4 DEF CellTypes
<1>2. ReadOK
  BY Zenon DEF ClockInit, ReadOK, Tasks, Consumer
<1>3. ASSUME NEW c \in Consumer PROVE CellOK(c)
  BY SMT, Z3 DEF ClockInit, CellOK, Token, Unit, StatusOf, InPlace, MakesSense, Tasks,
         Consumer, FirstStatus
<1> QED BY Zenon, <1>1, <1>2, <1>3 DEF CellInv

\* A step that leaves the buffers alone and moves a consumer only between places
\* where it has no part in them.
LEMMA CellQuiet ==
  ASSUME CellInv, UNCHANGED <<cellVars, command, to, ch>>,
         pc' \in [Tasks -> Places], pc'["READ"] = pc["READ"],
         \A c \in Consumer :
           \/ pc'[c] = pc[c]
           \/ /\ pc[c] \notin {"copy", "release"}
              /\ pc'[c] \notin {"copy", "release", "act", "sync"}
  PROVE  CellInv'
<1>1. CellTypes'
  BY Zenon DEF CellInv, CellTypes, cellVars
<1>2. ReadOK'
  BY Zenon DEF CellInv, ReadOK, cellVars
<1>3. ASSUME NEW c \in Consumer PROVE CellOK(c)'
  BY SMT, Z3 DEF CellInv, CellOK, Token, Unit, InPlace, MakesSense, cellVars
<1> QED BY Zenon, <1>1, <1>2, <1>3 DEF CellInv

\* What READ does.  It waits for notFull before it tests the status, and until it
\* stores the command or gives notFull back the consumer takes nothing.
LEMMA CellRead == CellInv /\ Read => CellInv'
<1> SUFFICES ASSUME CellInv, Read PROVE CellInv'
  BY Zenon
<1> USE DEF CellInv, CellTypes, Goto, Tasks, Consumer, cellVars, workVars, readVars
<1>1. CASE ReadReceive
  <2>1. /\ pc["READ"] = "receive" /\ pc'["READ"] \in {"receive", "put", "pause"}
        /\ \A c \in Consumer : pc'[c] = pc[c]
        /\ UNCHANGED <<cellVars, command>>
    BY Zenon, <1>1 DEF ReadReceive
  <2>2. CellTypes'
    BY SMT, Z3, <1>1 DEF ReadReceive, Places
  <2>3. ReadOK'
    BY Zenon, <1>1 DEF ReadReceive, ReadOK, For, Command, ClockCommands, ChronoCommands
  <2>4. ASSUME NEW c \in Consumer PROVE CellOK(c)'
    BY Zenon, <2>1 DEF CellOK, Token, Unit, InPlace, MakesSense
  <2> QED BY Zenon, <2>2, <2>3, <2>4
<1>2. CASE ReadPause
  <2>1. CellTypes' /\ ReadOK'
    BY Zenon, <1>2 DEF ReadPause, ReadOK, Places
  <2>2. ASSUME NEW c \in Consumer PROVE CellOK(c)'
    BY SMT, Z3, <1>2 DEF ReadPause, CellOK, Token, Unit, InPlace, MakesSense
  <2> QED BY Zenon, <2>1, <2>2
<1>3. CASE PutWait
  <2>1. CellTypes' /\ ReadOK'
    BY SMT, Z3, <1>3 DEF PutWait, ReadOK, For, Places
  <2>2. ASSUME NEW c \in Consumer PROVE CellOK(c)'
    BY SMT, Z3, <1>3 DEF PutWait, CellOK, Token, Unit, InPlace, MakesSense
  <2> QED BY Zenon, <2>1, <2>2
<1>4. CASE PutTest
  <2>1. CellTypes' /\ ReadOK'
    BY Zenon, <1>4 DEF PutTest, ReadOK, For, Places
  <2>2. ASSUME NEW c \in Consumer PROVE CellOK(c)'
    BY SMT, Z3, <1>4 DEF PutTest, CellOK, Token, Unit, InPlace, MakesSense
  <2> QED BY Zenon, <2>1, <2>2
<1>5. CASE PutStore
  <2>1. ch \in For(to) /\ Accepts(to, status[to], ch)
    BY Zenon, <1>5 DEF PutStore, ReadOK
  <2>2. CellTypes'
    BY SMT, Z3, <1>5, <2>1 DEF PutStore, PutDone, For, Command, Places
  <2>3. ReadOK'
    BY Zenon, <1>5 DEF PutStore, PutDone, ReadOK, For
  <2>4. ASSUME NEW c \in Consumer PROVE CellOK(c)'
    BY SMT, Z3, <1>5, <2>1 DEF PutStore, PutDone, CellOK, Token, Unit, InPlace, MakesSense
  <2> QED BY Zenon, <2>2, <2>3, <2>4
<1>6. CASE PutRefuse
  <2>1. CellTypes' /\ ReadOK'
    BY SMT, Z3, <1>6 DEF PutRefuse, PutDone, ReadOK, For, Places
  <2>2. ASSUME NEW c \in Consumer PROVE CellOK(c)'
    BY SMT, Z3, <1>6 DEF PutRefuse, PutDone, CellOK, Token, Unit, InPlace, MakesSense
  <2> QED BY Zenon, <2>1, <2>2
<1> QED BY Zenon, <1>1, <1>2, <1>3, <1>4, <1>5, <1>6 DEF Read

\* What a consumer does with its buffer.  A command it takes was accepted in the
\* status the consumer still has: the right to the buffer has come from READ.
LEMMA CellGet ==
  ASSUME CellInv, NEW c \in Consumer,
         Sync(c) \/ GetWait(c) \/ GetCopy(c) \/ GetRelease(c)
  PROVE  CellInv'
<1> USE DEF CellInv, CellTypes, Goto, Tasks, Consumer, cellVars, workVars, readVars
<1>1. CASE Sync(c)
  <2>1. CellTypes' /\ ReadOK'
    BY Zenon, <1>1 DEF Sync, ReadOK, Places
  <2>2. ASSUME NEW d \in Consumer PROVE CellOK(d)'
    BY SMT, Z3, <1>1 DEF Sync, CellOK, Token, Unit, InPlace, MakesSense
  <2> QED BY Zenon, <2>1, <2>2
<1>2. CASE GetWait(c)
  <2>0. /\ pc[c] = "get" /\ status[c] # "stoppedFinal"
        /\ UNCHANGED <<notFull, buffer, status, ch, to>>
    BY Zenon, <1>2 DEF GetWait
  <2>1. CASE /\ c = "CHRONO" /\ status[c] = "stoppedInitial" /\ buffered
             /\ buffered' = FALSE /\ Goto(c, "copy") /\ UNCHANGED <<notEmpty, command>>
    <3>1. CellTypes' /\ ReadOK'
      BY Zenon, <2>0, <2>1 DEF ReadOK, Places
    <3>2. CellOK("CLOCK")'
      BY Zenon, <2>0, <2>1 DEF CellOK, Token, Unit, InPlace, MakesSense
    <3>3. CellOK("CHRONO")'
      BY SMT, Z3, <2>0, <2>1 DEF CellOK, Token, Unit, InPlace
    <3> QED BY Zenon, <3>1, <3>2, <3>3
  <2>2. CASE /\ ~ (c = "CHRONO" /\ status[c] = "stoppedInitial" /\ buffered)
             /\ notEmpty[c] > 0 /\ notEmpty' = [notEmpty EXCEPT ![c] = @ - 1]
             /\ Goto(c, "copy") /\ UNCHANGED <<buffered, command>>
    <3>1. CellTypes' /\ ReadOK'
      BY SMT, Z3, <2>0, <2>2 DEF ReadOK, Places
    <3>2. ASSUME NEW d \in Consumer, d # c PROVE CellOK(d)'
      BY SMT, Z3, <2>0, <2>2, <3>2 DEF CellOK, Token, Unit, InPlace, MakesSense
    <3>3. Token(c)'
      <4>1. /\ pc'[c] = "copy" /\ pc'["READ"] = pc["READ"]
            /\ notFull[c] \in Nat /\ notEmpty[c] \in Nat
            /\ notEmpty'[c] = notEmpty[c] - 1
        BY Zenon, <2>2
      <4>2. Token(c)
        BY Zenon DEF CellOK
      <4> HIDE DEF CellInv
      <4> QED BY SMT, Z3, <2>0, <2>2, <4>1, <4>2 DEF Token, Unit
    <3>4. InPlace(c)
      BY SMT, Z3, <2>0, <2>2 DEF CellOK, Token, Unit, InPlace
    <3>5. CellOK(c)'
      BY Zenon, <2>0, <2>2, <3>3, <3>4 DEF CellOK
    <3> QED BY Zenon, <3>1, <3>2, <3>5
  <2>3. CASE /\ status[c] = "running" /\ notEmpty[c] = 0
             /\ command' = [command EXCEPT ![c] = IF c = "CLOCK" THEN "R" ELSE "C"]
             /\ Goto(c, "act") /\ UNCHANGED <<buffered, notEmpty>>
    <3>1. CellTypes' /\ ReadOK'
      BY Zenon, <2>0, <2>3 DEF ReadOK, Places, Command, ClockCommands, ChronoCommands
    <3>2. ASSUME NEW d \in Consumer, d # c PROVE CellOK(d)'
      BY SMT, Z3, <2>0, <2>3, <3>2 DEF CellOK, Token, Unit, InPlace, MakesSense
    <3>3. CellOK(c)'
      BY Zenon, <2>0, <2>3 DEF CellOK, Token, Unit, InPlace, MakesSense
    <3> QED BY Zenon, <3>1, <3>2, <3>3
  <2> QED BY Zenon, <1>2, <2>1, <2>2, <2>3 DEF GetWait
<1>3. CASE GetCopy(c)
  <2>1. InPlace(c) /\ buffer[c] \in For(c) /\ Accepts(c, status[c], buffer[c])
    BY Zenon, <1>3 DEF GetCopy, InPlace, CellOK
  <2>2. After(c, status[c], buffer[c]) \in StatusOf(c)
    BY Zenon, <2>1 DEF CellOK, StatusOf, After, For, ClockCommands, ChronoCommands
  <2>3. CellTypes'
    BY Zenon, <1>3, <2>2 DEF GetCopy, Places, StatusOf, Statuses
  <2>4. pc["READ"] \in {"test", "store", "refuse"} => to # c
    BY SMT, Z3, <1>3 DEF GetCopy, CellOK, Token, Unit
  <2>5. ReadOK'
    BY Zenon, <1>3, <2>4 DEF GetCopy, ReadOK
  <2>6. ASSUME NEW d \in Consumer, d # c PROVE CellOK(d)'
    BY SMT, Z3, <1>3, <2>6 DEF GetCopy, CellOK, Token, Unit, InPlace, MakesSense
  <2>7. MakesSense(c)'
    BY Zenon, <1>3, <2>1 DEF GetCopy, CellOK, StatusOf, MakesSense, Accepts, After, For,
       ClockCommands, ChronoCommands
  <2>8. CellOK(c)'
    BY SMT, Z3, <1>3, <2>2, <2>7 DEF GetCopy, CellOK, Token, Unit, InPlace
  <2> QED BY Zenon, <2>3, <2>5, <2>6, <2>8
<1>4. CASE GetRelease(c)
  <2>1. CellTypes' /\ ReadOK'
    BY SMT, Z3, <1>4 DEF GetRelease, ReadOK, Places
  <2>2. ASSUME NEW d \in Consumer PROVE CellOK(d)'
    BY SMT, Z3, <1>4 DEF GetRelease, CellOK, Token, Unit, InPlace, MakesSense
  <2> QED BY Zenon, <2>1, <2>2
<1> QED BY Zenon, <1>1, <1>2, <1>3, <1>4

\* The final time of the chronometer is over: a command that waits was accepted for
\* a stopped chronometer, and it still is one.
LEMMA CellFinal == CellInv /\ GetFinal => CellInv'
<1> SUFFICES ASSUME CellInv, GetFinal PROVE CellInv'
  BY Zenon
<1> USE DEF CellInv, CellTypes, Tasks, Consumer
<1>0. /\ pc["CHRONO"] = "get" /\ status["CHRONO"] = "stoppedFinal"
      /\ command' = [command EXCEPT !["CHRONO"] = "R"]
      /\ status' = [status EXCEPT !["CHRONO"] = "stoppedInitial"]
      /\ pc' = [pc EXCEPT !["CHRONO"] = "act"]
      /\ UNCHANGED <<notFull, buffer, ch, to>>
  BY Zenon DEF GetFinal, Goto, readVars
<1>1. /\ notEmpty' \in [Consumer -> Nat] /\ buffered' \in BOOLEAN
      /\ notEmpty'["CLOCK"] = notEmpty["CLOCK"]
      /\ notEmpty'["CHRONO"] + Unit(buffered') = notEmpty["CHRONO"] + Unit(buffered)
      /\ notEmpty'["CHRONO"] = 1 \/ buffered' <=> notEmpty["CHRONO"] = 1 \/ buffered
  <2>1. notEmpty["CHRONO"] + Unit(buffered) <= 1
    BY SMT, Z3 DEF CellOK, Token, Unit
  <2>2. CASE UNCHANGED <<notEmpty, buffered>>
    BY Zenon, <2>2 DEF Unit
  <2>3. CASE /\ notEmpty["CHRONO"] > 0 /\ buffered' = TRUE
             /\ notEmpty' = [notEmpty EXCEPT !["CHRONO"] = @ - 1]
    <3>1. notEmpty["CHRONO"] = 1 /\ buffered = FALSE
      BY SMT, Z3, <2>1, <2>3 DEF Unit
    <3> QED BY SMT, Z3, <2>3, <3>1 DEF Unit
  <2> QED BY Zenon, <2>2, <2>3 DEF GetFinal
<1>2. CellTypes'
  BY Zenon, <1>0, <1>1 DEF Places, Statuses, Command, ClockCommands
<1>3. ReadOK'
  BY Zenon, <1>0 DEF ReadOK, Accepts
<1>4. CellOK("CLOCK")'
  BY Zenon, <1>0, <1>1 DEF CellOK, Token, Unit, InPlace, MakesSense
<1>5. CellOK("CHRONO")'
  <2>1. Token("CHRONO")'
    BY SMT, Z3, <1>0, <1>1 DEF CellOK, Token, Unit
  <2>2. InPlace("CHRONO")' => InPlace("CHRONO")
    BY Zenon, <1>0, <1>1 DEF InPlace
  <2> QED BY Zenon, <1>0, <2>1, <2>2 DEF CellOK, MakesSense, StatusOf, Accepts
<1> QED BY Zenon, <1>2, <1>3, <1>4, <1>5

\* The other steps of the two consumers, and all steps of WRITE, MASTER and the
\* two processes, leave the command buffers alone.
Elsewhere ==
  \/ \E c \in Consumer : \/ \E display \in BOOLEAN : Act(c, display)
                         \/ ActEnd(c) \/ DisplayStore(c) \/ Unlock(c)
  \/ \E t \in Consumer \cup {"WRITE"} : Lock(t)
  \/ \E k \in Keys : KeyTyped(k)
  \/ Keyboard \/ Screen \/ Write \/ MasterCleanup \/ UNCHANGED clockVars

\* Such a step changes neither a buffer nor what READ and the consumers have of it.
LEMMA ElsewhereQuiet ==
  ASSUME pc \in [Tasks -> Places], Elsewhere
  PROVE  /\ UNCHANGED <<cellVars, command, to, ch>>
         /\ pc' \in [Tasks -> Places] /\ pc'["READ"] = pc["READ"]
         /\ \A c \in Consumer :
              \/ pc'[c] = pc[c]
              \/ /\ pc[c] \notin {"copy", "release"}
                 /\ pc'[c] \notin {"copy", "release", "act", "sync"}
<1> USE DEF Goto, Tasks, Places, Consumer, readVars, workVars, cellVars
<1>1. CASE \E c \in Consumer : \E display \in BOOLEAN : Act(c, display)
  BY SMT, Z3, <1>1 DEF Act
<1>2. CASE \E c \in Consumer : ActEnd(c)
  BY SMT, Z3, <1>2 DEF ActEnd
<1>3. CASE \E c \in Consumer : DisplayStore(c)
  BY SMT, Z3, <1>3 DEF DisplayStore, Store
<1>4. CASE \E t \in Consumer \cup {"WRITE"} : Unlock(t)
  BY SMT, Z3, <1>4 DEF Unlock
<1>5. CASE \E t \in Consumer \cup {"WRITE"} : Lock(t)
  BY SMT, Z3, <1>5 DEF Lock
<1>6. CASE \E k \in Keys : KeyTyped(k)
  BY SMT, Z3, <1>6 DEF KeyTyped
<1>7. CASE KeyHello \/ KeyResume \/ KeyLeave
  BY SMT, Z3, <1>7 DEF KeyHello, KeyResume, KeyLeave
<1>8. CASE KeyLast
  BY Zenon, <1>8 DEF KeyLast
<1>9. CASE Screen
  BY SMT, Z3, <1>9 DEF Screen, ScreenHello, ScreenShow
<1>10. CASE DisplayWait
  BY Zenon, <1>10 DEF DisplayWait
<1>11. CASE DisplayTake
  BY Zenon, <1>11 DEF DisplayTake
<1>12. CASE WriteSend
  BY SMT, Z3, <1>12 DEF WriteSend
<1>13. CASE MasterCleanup
  BY Zenon, <1>13 DEF MasterCleanup, Cleanup
<1>14. CASE UNCHANGED clockVars
  BY Zenon, <1>14 DEF clockVars
<1> QED
  BY Zenon, <1>1, <1>2, <1>3, <1>4, <1>5, <1>6, <1>7, <1>8, <1>9, <1>10, <1>11, <1>12,
     <1>13, <1>14 DEF Elsewhere, Keyboard, Write

\* The steps that use a command buffer, and the others.
LEMMA ClockSteps ==
  ASSUME [ClockNext]_clockVars
  PROVE  \/ Read \/ GetFinal \/ Elsewhere
         \/ \E c \in Consumer : Sync(c) \/ GetWait(c) \/ GetCopy(c) \/ GetRelease(c)
BY Zenon DEF ClockNext, Work, Elsewhere, Finished

\* Every step keeps CellInv.
LEMMA CellStep == CellInv /\ [ClockNext]_clockVars => CellInv'
<1> SUFFICES ASSUME CellInv, [ClockNext]_clockVars PROVE CellInv'
  BY Zenon
<1>1. CASE Elsewhere
  <2>1. pc \in [Tasks -> Places]
    BY Zenon DEF CellInv, CellTypes
  <2> QED BY Zenon, <1>1, <2>1, ElsewhereQuiet, CellQuiet
<1> QED BY Zenon, <1>1, ClockSteps, CellRead, CellGet, CellFinal

\* A task acts only on commands its switch has, in the status they are for
\* (ClockChrono_Clock and ClockChrono_Chrono).
THEOREM CommandsRight == ClockSpec => []CommandsMakeSense
<1>1. CellInv => CommandsMakeSense
  BY Zenon DEF CellInv, CellOK, CommandsMakeSense
<1> QED BY <1>1, CellInitInv, CellStep, PTL DEF ClockSpec

-----------------------------------------------------------------------------
(* The command buffers implement CommandCell.                              *)

Slot == [c \in Consumer |-> IF InPlace(c) THEN buffer[c] ELSE NoCommand]

\* A step after which the same commands are in the same places is a stutter.
LEMMA SlotSame ==
  ASSUME UNCHANGED <<buffer, status>>,
         \A c \in Consumer : InPlace(c)' = InPlace(c)
  PROVE  UNCHANGED <<Slot, status>>
BY Zenon DEF Slot

\* READ's store is the Put of the abstract cell: it happens while READ has the
\* right to the buffer, so the buffer is empty and the test still holds.
LEMMA StoreIsPut ==
  ASSUME CellInv, PutStore, NEW c \in Consumer, c = to, NEW cmd, cmd = ch
  PROVE  Cell!Put(c, cmd) /\ cmd \in Command
<1> USE DEF Consumer, Tasks, Goto
<1>1. /\ pc["READ"] = "store" /\ cmd \in For(c) /\ Accepts(c, status[c], cmd)
      /\ buffer \in [Consumer -> Command \cup {NoCommand}]
      /\ buffer' = [buffer EXCEPT ![c] = cmd]
      /\ notEmpty \in [Consumer -> Nat]
      /\ notEmpty' = [notEmpty EXCEPT ![c] = @ + 1]
      /\ UNCHANGED <<status, buffered, notFull>>
      /\ \A d \in Consumer : pc'[d] = pc[d]
  BY Zenon DEF CellInv, CellTypes, ReadOK, PutStore, PutDone
<1>2. notEmpty[c] = 0 /\ ~ InPlace(c)
  <2>1. Token(c) /\ notFull[c] \in Nat /\ notEmpty[c] \in Nat
    BY Zenon DEF CellInv, CellTypes, CellOK
  <2> QED BY SMT, Z3, <1>1, <2>1 DEF Token, Unit, InPlace
<1>3. InPlace(c)'
  BY SMT, Z3, <1>1, <1>2 DEF InPlace
<1>4. ASSUME NEW d \in Consumer, d # c PROVE InPlace(d)' = InPlace(d)
  BY Zenon, <1>1, <1>4 DEF InPlace
<1>5. Slot' = [Slot EXCEPT ![c] = cmd]
  BY Zenon, <1>1, <1>3, <1>4 DEF Slot
<1>6. Slot[c] = NoCommand
  BY Zenon, <1>1, <1>2 DEF Slot
<1>7. cmd \in Command
  BY Zenon, <1>1 DEF For, Command
<1> QED BY Zenon, <1>1, <1>5, <1>6, <1>7 DEF Cell!Put, Cell!Accepts, Accepts, Slot, Cell!Consumer

\* The consumer's copy is the Take of the abstract cell: the command that was put
\* last, in the status it was accepted for.
LEMMA CopyIsTake ==
  ASSUME CellInv, NEW c \in Consumer, GetCopy(c)
  PROVE  Cell!Take(c)
<1> USE DEF Consumer, Tasks, Goto
<1>1. /\ pc[c] = "copy" /\ buffer[c] \in For(c) /\ status[c] # "stoppedFinal"
      /\ UNCHANGED <<buffer, notEmpty, buffered>> /\ status \in [Consumer -> Statuses]
      /\ status' = [status EXCEPT ![c] = After(c, @, buffer[c])]
      /\ pc'[c] = "release" /\ \A d \in Consumer \ {c} : pc'[d] = pc[d]
  BY Zenon DEF CellInv, CellTypes, CellOK, GetCopy, InPlace
<1>2. InPlace(c)
  BY Zenon, <1>1 DEF InPlace
<1>3. ~ InPlace(c)'
  BY SMT, Z3, <1>1 DEF CellInv, CellTypes, CellOK, Token, Unit, InPlace
<1>4. ASSUME NEW d \in Consumer, d # c PROVE InPlace(d)' = InPlace(d)
  BY Zenon, <1>1, <1>4 DEF InPlace
<1>5. Slot' = [Slot EXCEPT ![c] = NoCommand]
  BY Zenon, <1>1, <1>3, <1>4 DEF Slot
<1>6. Slot[c] = buffer[c] /\ buffer[c] # NoCommand
  BY Zenon, <1>1, <1>2, NoCommandAssumption DEF Slot, For, Command
<1> QED BY Zenon, <1>1, <1>5, <1>6 DEF Cell!Take, Cell!After, After, Slot, Cell!Consumer

\* The end of the final time is the Reset of the abstract cell; a command that was
\* put keeps its place, whether it is set aside or not.
LEMMA FinalIsReset == CellInv /\ GetFinal => Cell!Reset("CHRONO")
<1> SUFFICES ASSUME CellInv, GetFinal PROVE Cell!Reset("CHRONO")
  BY Zenon
<1> USE DEF Consumer, Tasks
<1>1. /\ pc["CHRONO"] = "get" /\ status["CHRONO"] = "stoppedFinal"
      /\ status' = [status EXCEPT !["CHRONO"] = "stoppedInitial"]
      /\ pc'["CHRONO"] = "act" /\ pc'["CLOCK"] = pc["CLOCK"]
      /\ UNCHANGED buffer
      /\ notEmpty \in [Consumer -> Nat]
  BY Zenon DEF GetFinal, Goto, CellInv, CellTypes
<1>2. notEmpty["CHRONO"] \in {0, 1}
  BY SMT, Z3 DEF CellInv, CellTypes, CellOK, Token, Unit
<1>3. InPlace("CHRONO")' = InPlace("CHRONO") /\ InPlace("CLOCK")' = InPlace("CLOCK")
  BY SMT, Z3, <1>1, <1>2 DEF GetFinal, InPlace
<1>4. UNCHANGED Slot
  BY Zenon, <1>1, <1>3 DEF Slot
<1> QED BY Zenon, <1>1, <1>4 DEF Cell!Reset, Slot, Cell!Consumer

\* The other steps of READ, CLOCK and CHRONO change no place.
LEMMA ReadStutters ==
  CellInv /\ Read => (PutStore \/ UNCHANGED <<Slot, status>>)
<1> SUFFICES ASSUME CellInv, Read, ~ PutStore PROVE UNCHANGED <<Slot, status>>
  BY Zenon
<1>1. /\ UNCHANGED <<notEmpty, buffer, status, buffered>>
      /\ \A c \in Consumer : pc'[c] = pc[c]
  <2> USE DEF CellInv, CellTypes, Goto, Tasks, Consumer, cellVars
  <2>1. CASE ReadReceive
    BY Zenon, <2>1 DEF ReadReceive
  <2>2. CASE ReadPause
    BY Zenon, <2>2 DEF ReadPause
  <2>3. CASE PutWait \/ PutTest
    BY Zenon, <2>3 DEF PutWait, PutTest
  <2>4. CASE PutRefuse
    BY Zenon, <2>4 DEF PutRefuse, PutDone
  <2> QED BY Zenon, <2>1, <2>2, <2>3, <2>4 DEF Read
<1> QED BY Zenon, <1>1, SlotSame DEF InPlace

\* Waiting for a command or giving the place back moves no command.
LEMMA GetStutters ==
  ASSUME CellInv, NEW c \in Consumer, Sync(c) \/ GetWait(c) \/ GetRelease(c)
  PROVE  UNCHANGED <<Slot, status>>
<1> USE DEF Goto, Tasks, Consumer, cellVars
<1>1. UNCHANGED <<buffer, status>> /\ \A d \in Consumer \ {c} : pc'[d] = pc[d]
  BY Zenon DEF CellInv, CellTypes, Sync, GetWait, GetRelease
<1>2. ASSUME NEW d \in Consumer, d # c PROVE InPlace(d)' = InPlace(d)
  BY SMT, Z3, <1>1, <1>2 DEF InPlace, Sync, GetWait, GetRelease, CellInv, CellTypes
<1>3. notEmpty[c] \in {0, 1} /\ notEmpty \in [Consumer -> Nat]
  BY SMT, Z3 DEF CellInv, CellTypes, CellOK, Token, Unit
<1>4. InPlace(c)' = InPlace(c)
  <2>1. CASE Sync(c)
    BY Zenon, <2>1 DEF Sync, InPlace, CellInv, CellTypes
  <2>2. CASE GetWait(c)
    BY SMT, Z3, <2>2, <1>3 DEF GetWait, InPlace, CellInv, CellTypes
  <2>3. CASE GetRelease(c)
    BY Zenon, <2>3 DEF GetRelease, InPlace, CellInv, CellTypes
  <2> QED BY Zenon, <2>1, <2>2, <2>3
<1> QED BY Zenon, <1>1, <1>2, <1>4, SlotSame

\* Every step of the program is a step of the abstract cells or leaves them alone.
LEMMA CellRefines ==
  CellInv /\ [ClockNext]_clockVars => [Cell!CellNext]_<<Slot, status>>
<1> SUFFICES ASSUME CellInv, [ClockNext]_clockVars
             PROVE  Cell!CellNext \/ UNCHANGED <<Slot, status>>
  BY Zenon
<1> USE DEF Cell!CellNext, Cell!Consumer, Cell!Command, Command, Cell!ClockCommands,
            ClockCommands, Cell!ChronoCommands, ChronoCommands
<1>1. CASE PutStore
  BY Zenon, <1>1, StoreIsPut DEF CellInv, CellTypes, Consumer
<1>2. CASE Read /\ ~ PutStore
  BY Zenon, <1>2, ReadStutters
<1>3. CASE \E c \in Consumer : GetCopy(c)
  BY Zenon, <1>3, CopyIsTake DEF Consumer
<1>4. CASE \E c \in Consumer : Sync(c) \/ GetWait(c) \/ GetRelease(c)
  BY Zenon, <1>4, GetStutters
<1>5. CASE GetFinal
  BY Zenon, <1>5, FinalIsReset
<1>6. CASE Elsewhere
  <2>1. pc \in [Tasks -> Places]
    BY Zenon DEF CellInv, CellTypes
  <2>2. /\ UNCHANGED cellVars
        /\ \A c \in Consumer : pc'[c] = "copy" <=> pc[c] = "copy"
    BY Zenon, <1>6, <2>1, ElsewhereQuiet
  <2> QED BY Zenon, <2>2, SlotSame DEF InPlace, cellVars
<1> QED BY Zenon, <1>1, <1>2, <1>3, <1>4, <1>5, <1>6, ClockSteps

\* The two command buffers with their semaphores are atomic places for one command
\* (cmdclk.c, cmdcrn.c): no command is lost, taken twice or overwritten, and the
\* test of a Put still holds when the command is taken.
THEOREM BuffersAreCells == ClockSpec => CellsKept
<1>1. ClockInit => Cell!CellInit
  BY Zenon DEF ClockInit, Cell!CellInit, Cell!FirstStatus, FirstStatus, Cell!Consumer,
         Consumer, InPlace, Tasks
<1>2. CellInv /\ [ClockNext]_clockVars =>
        [Cell!CellNext]_<<[c \in Consumer |-> IF InPlace(c) THEN buffer[c] ELSE NoCommand],
                         status>>
  BY Zenon, CellRefines DEF Slot
<1> QED BY <1>1, <1>2, CellInitInv, CellStep, PTL DEF ClockSpec, CellsKept, Cell!CellSpec

-----------------------------------------------------------------------------
(* The display buffers.                                                    *)

DispTypes ==
  /\ pc \in [Tasks -> Places]
  /\ mutex \in Nat /\ any \in Nat
  /\ dstat \in [Consumer -> {"empty", "full"}]
  /\ dbuf \in [Consumer -> Int] /\ time \in [Consumer -> Nat]
  /\ chain \in Int /\ receiver \in Consumer

\* The mutex is free or with the one task inside Display_PutHour, Display_PutTimes
\* or Display_Get.
MutexHeld ==
  mutex + Unit(pc["WRITE"] \in {"take", "unlock"})
    + Unit(pc["CLOCK"] \in {"store", "unlock"})
    + Unit(pc["CHRONO"] \in {"store", "unlock"}) = 1

\* notEmpty counts the full buffers; WRITE has a unit until it has emptied one.
FullCounted ==
  any + Unit(pc["WRITE"] \in {"lock", "take"})
    = Unit(dstat["CLOCK"] = "full") + Unit(dstat["CHRONO"] = "full")

DispInv ==
  /\ DispTypes /\ MutexHeld /\ FullCounted
  /\ \A c \in Consumer : dstat[c] = "full" => dbuf[c] # None
  /\ pc["WRITE"] \in {"unlock", "send"} => chain # None

\* The display is empty and nobody is inside.
LEMMA DispInitInv == ClockInit => DispInv
<1> SUFFICES ASSUME ClockInit PROVE DispInv
  BY Zenon
<1>1. pc \in [Tasks -> Places]
  BY Zenon, CellInitInv DEF CellInv, CellTypes
<1> QED BY SMT, Z3, <1>1 DEF ClockInit, DispInv, DispTypes, MutexHeld, FullCounted, Unit, Tasks,
           Consumer, None

\* A step outside the display functions.
LEMMA DispQuiet ==
  ASSUME DispInv, UNCHANGED <<dispVars, chain, receiver>>,
         pc' \in [Tasks -> Places], time' \in [Consumer -> Nat],
         pc'["WRITE"] = pc["WRITE"],
         \A c \in Consumer :
           \/ pc'[c] = pc[c]
           \/ pc[c] \notin {"store", "unlock"} /\ pc'[c] \notin {"store", "unlock"}
  PROVE  DispInv'
<1> USE DEF DispInv, dispVars
<1>1. DispTypes'
  BY Zenon DEF DispTypes
<1>2. MutexHeld' /\ FullCounted'
  BY Zenon DEF MutexHeld, FullCounted, Unit, Consumer
<1> QED BY Zenon, <1>1, <1>2

\* The steps outside the display functions, whoever takes them.
NoDisplay ==
  \/ Read \/ GetFinal \/ Keyboard \/ Screen \/ MasterCleanup
  \/ \E c \in Consumer : \/ Sync(c) \/ GetWait(c) \/ GetCopy(c) \/ GetRelease(c)
                         \/ \E display \in BOOLEAN : Act(c, display)
                         \/ ActEnd(c)
  \/ \E k \in Keys : KeyTyped(k)
  \/ UNCHANGED clockVars

\* They leave the display alone.
LEMMA NoDisplayQuiet ==
  ASSUME pc \in [Tasks -> Places], time \in [Consumer -> Nat], NoDisplay
  PROVE  /\ UNCHANGED <<dispVars, chain, receiver>>
         /\ time' \in [Consumer -> Nat]
         /\ pc' \in [Tasks -> Places] /\ pc'["WRITE"] = pc["WRITE"]
         /\ \A c \in Consumer :
              \/ pc'[c] = pc[c]
              \/ pc[c] \notin {"store", "unlock"} /\ pc'[c] \notin {"store", "unlock"}
<1> USE DEF Goto, Tasks, Places, Consumer, workVars, dispVars
<1>1. CASE ReadReceive
  BY SMT, Z3, <1>1 DEF ReadReceive
<1>2. CASE ReadPause \/ PutWait \/ PutTest
  BY SMT, Z3, <1>2 DEF ReadPause, PutWait, PutTest
<1>3. CASE PutStore
  BY SMT, Z3, <1>3 DEF PutStore, PutDone
<1>4. CASE PutRefuse
  BY SMT, Z3, <1>4 DEF PutRefuse, PutDone
<1>5. CASE GetFinal
  BY Zenon, <1>5 DEF GetFinal
<1>6. CASE \E c \in Consumer : Sync(c) \/ GetCopy(c) \/ GetRelease(c)
  BY SMT, Z3, <1>6 DEF Sync, GetCopy, GetRelease
<1>7. CASE \E c \in Consumer : GetWait(c)
  BY SMT, Z3, <1>7 DEF GetWait
<1>8. CASE \E c \in Consumer : \E display \in BOOLEAN : Act(c, display)
  <2>1. PICK c \in Consumer, display \in BOOLEAN : Act(c, display)
    BY Zenon, <1>8
  <2>2. (time[c] + 1) % Shown \in Nat
    BY SMT, Z3, ShownAssumption
  <2>3. time' \in [Consumer -> Nat]
    BY Zenon, <2>1, <2>2 DEF Act
  <2> QED BY Zenon, <2>1, <2>3 DEF Act
<1>9. CASE \E c \in Consumer : ActEnd(c)
  BY SMT, Z3, <1>9 DEF ActEnd
<1>10. CASE \E k \in Keys : KeyTyped(k)
  BY SMT, Z3, <1>10 DEF KeyTyped
<1>11. CASE KeyHello \/ KeyResume \/ KeyLeave
  BY SMT, Z3, <1>11 DEF KeyHello, KeyResume, KeyLeave
<1>12. CASE KeyLast
  BY Zenon, <1>12 DEF KeyLast
<1>13. CASE Screen
  BY SMT, Z3, <1>13 DEF Screen, ScreenHello, ScreenShow
<1>14. CASE MasterCleanup
  BY Zenon, <1>14 DEF MasterCleanup, Cleanup
<1>15. CASE UNCHANGED clockVars
  BY Zenon, <1>15 DEF clockVars
<1> QED
  BY Zenon, <1>1, <1>2, <1>3, <1>4, <1>5, <1>6, <1>7, <1>8, <1>9, <1>10, <1>11, <1>12,
     <1>13, <1>14, <1>15 DEF NoDisplay, Read, Keyboard

\* What the display functions do to it.  WRITE never finds both buffers empty: it
\* has a unit of notEmpty.
LEMMA DispStep == DispInv /\ [ClockNext]_clockVars => DispInv'
<1> SUFFICES ASSUME DispInv, [ClockNext]_clockVars PROVE DispInv'
  BY Zenon
<1> USE DEF DispInv, DispTypes, Goto, Tasks, Consumer, workVars
<1>1. CASE NoDisplay
  <2> HIDE DEF DispInv
  <2> QED BY Zenon, <1>1, NoDisplayQuiet, DispQuiet DEF DispInv
<1>2. CASE \E t \in Consumer \cup {"WRITE"} : Lock(t)
  <2>1. PICK t \in Consumer \cup {"WRITE"} : Lock(t)
    BY Zenon, <1>2
  <2>2. DispTypes'
    BY SMT, Z3, <2>1 DEF Lock, Places
  <2> QED BY SMT, Z3, <2>1, <2>2 DEF Lock, MutexHeld, FullCounted, Unit
<1>3. CASE \E t \in Consumer \cup {"WRITE"} : Unlock(t)
  <2>1. PICK t \in Consumer \cup {"WRITE"} : Unlock(t)
    BY Zenon, <1>3
  <2>2. DispTypes'
    BY SMT, Z3, <2>1 DEF Unlock, Places
  <2> QED BY SMT, Z3, <2>1, <2>2 DEF Unlock, MutexHeld, FullCounted, Unit
<1>4. CASE \E c \in Consumer : DisplayStore(c)
  <2>1. PICK c \in Consumer : DisplayStore(c)
    BY Zenon, <1>4
  <2>2. Text(c) \in Int /\ Text(c) # None
    BY SMT, Z3 DEF Text, END, None
  <2>3. DispTypes'
    BY SMT, Z3, <2>1, <2>2 DEF DisplayStore, Store, Places
  <2>4. MutexHeld'
    BY Zenon, <2>1 DEF DisplayStore, Store, MutexHeld, Unit
  <2>5. FullCounted'
    BY SMT, Z3, <2>1 DEF DisplayStore, Store, FullCounted, Unit
  <2> QED BY Zenon, <2>1, <2>2, <2>3, <2>4, <2>5 DEF DisplayStore, Store
<1>5. CASE DisplayWait
  <2>1. DispTypes'
    BY SMT, Z3, <1>5 DEF DisplayWait, Places
  <2> QED BY SMT, Z3, <1>5, <2>1 DEF DisplayWait, MutexHeld, FullCounted, Unit
<1>6. CASE DisplayTake
  <2>1. PICK c \in Consumer : /\ dstat[c] = "full" /\ receiver' = c /\ chain' = dbuf[c]
                             /\ dstat' = [dstat EXCEPT ![c] = "empty"]
    BY SMT, Z3, <1>6 DEF DisplayTake, FullCounted, Unit
  <2>2. DispTypes'
    BY Zenon, <1>6, <2>1 DEF DisplayTake, Places
  <2>3. MutexHeld'
    BY Zenon, <1>6 DEF DisplayTake, MutexHeld, Unit
  <2>4. FullCounted'
    BY SMT, Z3, <1>6, <2>1 DEF DisplayTake, FullCounted, Unit
  <2> QED BY Zenon, <1>6, <2>1, <2>2, <2>3, <2>4 DEF DisplayTake
<1>7. CASE WriteSend
  <2>1. DispTypes'
    BY SMT, Z3, <1>7 DEF WriteSend, Places, dispVars
  <2> QED BY Zenon, <1>7, <2>1 DEF WriteSend, MutexHeld, FullCounted, Unit, dispVars
<1> QED
  BY Zenon, <1>1, <1>2, <1>3, <1>4, <1>5, <1>6, <1>7
  DEF ClockNext, Work, Write, Finished, NoDisplay

\* WRITE passes on only chains somebody put (Display_Get, dispclk.c:138): notEmpty
\* counts the full display buffers in every interleaving.
THEOREM DisplayCounts == ClockSpec => []DisplayCounted
<1>1. DispInv => DisplayCounted
  BY Zenon DEF DispInv, DispTypes, FullCounted, Unit, DisplayCounted, Consumer
<1> QED BY <1>1, DispInitInv, DispStep, PTL DEF ClockSpec

-----------------------------------------------------------------------------
(* The end, and the mailboxes.                                             *)

\* A task that has ended takes no further step, and only MASTER deletes.
LEMMA EndsStay ==
  ASSUME pc \in [Tasks -> Places], [ClockNext]_clockVars
  PROVE  /\ \A t \in Consumer \cup {"READ", "WRITE"} : pc[t] = "end" => pc'[t] = "end"
         /\ UNCHANGED deleted \/ MasterCleanup
<1> USE DEF Goto, Tasks, Consumer, endVars
<1>1. CASE Read
  <2>1. pc["READ"] # "end" /\ \A t \in Tasks \ {"READ"} : pc'[t] = pc[t]
    BY Zenon, <1>1 DEF Read, ReadReceive, ReadPause, PutWait, PutTest, PutStore, PutRefuse, PutDone
  <2>2. UNCHANGED deleted
    BY Zenon, <1>1 DEF Read, ReadReceive, ReadPause, PutWait, PutTest, PutStore, PutRefuse
  <2> QED BY Zenon, <2>1, <2>2
<1>2. CASE \E c \in Consumer : Work(c)
  <2>1. PICK c \in Consumer : Work(c)
    BY Zenon, <1>2
  <2>2. CASE Sync(c) \/ GetCopy(c) \/ GetRelease(c) \/ ActEnd(c) \/ Unlock(c)
    BY Zenon, <2>2 DEF Sync, GetCopy, GetRelease, ActEnd, Unlock
  <2>3. CASE GetWait(c)
    BY Zenon, <2>3 DEF GetWait
  <2>4. CASE GetFinal
    BY Zenon, <2>4 DEF GetFinal
  <2>5. CASE \E display \in BOOLEAN : Act(c, display)
    BY Zenon, <2>5 DEF Act
  <2>6. CASE DisplayStore(c)
    BY Zenon, <2>6 DEF DisplayStore, Store
  <2> QED BY Zenon, <2>1, <2>2, <2>3, <2>4, <2>5, <2>6 DEF Work
<1>3. CASE Write
  <2>1. pc["WRITE"] # "end" /\ \A t \in Tasks \ {"WRITE"} : pc'[t] = pc[t]
    BY Zenon, <1>3 DEF Write, DisplayWait, DisplayTake, Unlock, WriteSend
  <2>2. UNCHANGED deleted
    BY Zenon, <1>3 DEF Write, DisplayWait, DisplayTake, Unlock, WriteSend
  <2> QED BY Zenon, <2>1, <2>2
<1>4. CASE \E t \in Consumer \cup {"WRITE"} : Lock(t)
  BY Zenon, <1>4 DEF Lock
<1>5. CASE Keyboard \/ Screen \/ \E k \in Keys : KeyTyped(k)
  BY Zenon, <1>5 DEF Keyboard, KeyHello, KeyLast, KeyResume, KeyLeave, KeyTyped, Screen,
              ScreenHello, ScreenShow
<1>6. CASE MasterCleanup
  BY Zenon, <1>6 DEF MasterCleanup, Cleanup
<1>7. CASE UNCHANGED clockVars
  BY Zenon, <1>7 DEF clockVars
<1> QED
  BY Zenon, <1>1, <1>2, <1>3, <1>4, <1>5, <1>6, <1>7 DEF ClockNext, Finished

\* MASTER deletes semaphores and mailboxes only when no task of clock.c can still
\* use them (main, clock.c:323): the four tasks have ended, for good.
THEOREM CleanupComesLast == ClockSpec => []CleanupSafe
<1>1. ClockInit => CleanupSafe
  BY Zenon DEF ClockInit, CleanupSafe
<1>2. ASSUME CellInv, CleanupSafe, [ClockNext]_clockVars PROVE CleanupSafe'
  <2>1. pc \in [Tasks -> Places]
    BY Zenon, <1>2 DEF CellInv, CellTypes
  <2>2. MasterCleanup => \A t \in Consumer \cup {"READ", "WRITE"} : pc[t] = "end"
    BY Zenon DEF MasterCleanup, Cleanup, Consumer
  <2> QED BY Zenon, <1>2, <2>1, <2>2, EndsStay DEF CleanupSafe
<1> QED BY <1>1, <1>2, CellInitInv, CellStep, PTL DEF ClockSpec

KeyCode == Keys \cup {"k", "d", "r", "c", "f"}
Message == [dest : Consumer, val : Int]

\* The mailboxes hold no more than they have room for.
BoxInv ==
  /\ kbd \in Seq(KeyCode) /\ Len(kbd) <= KbdCap
  /\ scr \in Seq(Message) /\ Len(scr) <= ScrCap
  /\ sync_sem \in Nat

\* Every step keeps to the room.
LEMMA BoxStep == BoxInv /\ DispInv /\ [ClockNext]_clockVars => BoxInv'
<1> SUFFICES ASSUME BoxInv, DispInv, [ClockNext]_clockVars PROVE BoxInv'
  BY Zenon
<1> USE DEF BoxInv
<1>1. CASE UNCHANGED <<kbd, scr, sync_sem>>
  BY Zenon, <1>1
<1>2. CASE KeyHello \/ ScreenHello
  <2>1. PICK c \in KeyCode : mbx_send(c)
    BY Zenon, <1>2 DEF KeyHello, ScreenHello, KeyCode
  <2>2. kbd' \in Seq(KeyCode) /\ Len(kbd') <= KbdCap
    BY SMT, Z3, <2>1, CapAssumption DEF mbx_send
  <2> QED BY Zenon, <1>2, <2>2 DEF KeyHello, ScreenHello
<1>3. CASE KeyLast
  BY SMT, Z3, <1>3, CapAssumption DEF KeyLast, mbx_send, KeyCode
<1>4. CASE \E k \in Keys : KeyTyped(k)
  BY SMT, Z3, <1>4, CapAssumption DEF KeyTyped, mbx_send_if, KeyCode
<1>5. CASE ScreenShow
  BY SMT, Z3, <1>5, CapAssumption DEF ScreenShow
<1>6. CASE ReadReceive
  BY SMT, Z3, <1>6, CapAssumption DEF ReadReceive, readVars
<1>7. CASE \E c \in Consumer : Sync(c)
  BY SMT, Z3, <1>7 DEF Sync
<1>8. CASE WriteSend
  <2>1. [dest |-> receiver, val |-> chain] \in Message
    BY Zenon DEF DispInv, DispTypes, Message
  <2>2. UNCHANGED <<kbd, sync_sem>>
    BY Zenon, <1>8 DEF WriteSend
  <2>3. scr' \in Seq(Message) /\ Len(scr') <= ScrCap
    BY SMTT(30), Z3T(30), <1>8, <2>1, CapAssumption DEF WriteSend
  <2> QED BY Zenon, <2>2, <2>3
<1>9. CASE ReadPause \/ PutWait \/ PutTest \/ PutStore \/ PutRefuse
  BY Zenon, <1>9, <1>1 DEF ReadPause, PutWait, PutTest, PutStore, PutRefuse
<1>10. CASE \E c \in Consumer : Work(c) /\ ~ Sync(c)
  BY Zenon, <1>10, <1>1 DEF Work, GetWait, GetCopy, GetRelease, GetFinal, Act, ActEnd,
     DisplayStore, Store, Unlock
<1>11. CASE DisplayWait \/ DisplayTake \/ \E t \in Consumer \cup {"WRITE"} : Lock(t) \/ Unlock(t)
  BY Zenon, <1>11, <1>1 DEF DisplayWait, DisplayTake, Lock, Unlock
<1>12. CASE KeyResume \/ KeyLeave \/ MasterCleanup \/ UNCHANGED clockVars
  BY Zenon, <1>12, <1>1 DEF KeyResume, KeyLeave, MasterCleanup, Cleanup, clockVars
<1> QED
  BY Zenon, <1>2, <1>3, <1>4, <1>5, <1>6, <1>7, <1>8, <1>9, <1>10, <1>11, <1>12
  DEF ClockNext, Keyboard, Screen, Read, Write, Finished

\* The semaphores never exceed what they guard and the mailboxes never overflow,
\* whatever the sizes and the keys (cmdclk.c, cmdcrn.c, dispclk.c).
THEOREM ClockTypes == ClockSpec => []ClockTypeOK
<1>1. ClockInit => BoxInv
  BY SMT, Z3, CapAssumption DEF ClockInit, BoxInv
<1>2. CellInv /\ DispInv /\ BoxInv => ClockTypeOK
  <2> SUFFICES ASSUME CellInv, DispInv, BoxInv PROVE ClockTypeOK
    BY Zenon
  <2>1. ASSUME NEW c \in Consumer PROVE notFull[c] \in 0 .. 1 /\ notEmpty[c] \in 0 .. 1
    <3>1. Token(c) /\ notFull[c] \in Nat /\ notEmpty[c] \in Nat
      BY Zenon DEF CellInv, CellTypes, CellOK
    <3> QED BY SMT, Z3, <3>1 DEF Token, Unit
  <2>2. notFull \in [Consumer -> 0 .. 1] /\ notEmpty \in [Consumer -> 0 .. 1]
    BY Zenon, <2>1 DEF CellInv, CellTypes
  <2>3. mutex \in 0 .. 1
    BY SMT, Z3 DEF DispInv, DispTypes, MutexHeld, Unit
  <2>4. any \in 0 .. 2
    BY SMT, Z3 DEF DispInv, DispTypes, FullCounted, Unit
  <2> QED BY Zenon, <2>2, <2>3, <2>4 DEF CellInv, CellTypes, BoxInv, ClockTypeOK
<1> QED
  BY <1>1, <1>2, CellInitInv, CellStep, DispInitInv, DispStep, BoxStep, PTL DEF ClockSpec
=============================================================================
