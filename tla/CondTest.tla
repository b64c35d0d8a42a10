------------------------------ MODULE CondTest ------------------------------
(***************************************************************************)
(* The condition variable demo (kern/condtest/condtest.c): four tasks pass  *)
(* cond_data from 1 to 3 through one condition variable on which they wait  *)
(* for different values.  A section under mtx is one step.  A signal wakes  *)
(* the waiter of the highest priority: rt_cond_init makes a queue in        *)
(* priority order, and task n has priority n - 1.                           *)
(***************************************************************************)
EXTENDS Integers, Sequences, FiniteSetsExt

VARIABLES
  cond_data,
  cond,           \* the tasks queued on the condition variable
  point,          \* per task, where it is
  loop            \* per task, which of its while loops it is in or before

condVars == <<cond_data, cond, point, loop>>

CondTask == 1..4
\* The value each while loop of a task waits for.
Awaited == <<<<1, 3>>, <<2, 3>>, <<3>>, <<3>>>>
Wanted(t) == Awaited[t][loop[t]]

CondInit ==
  /\ cond_data = 0 /\ cond = {}
  /\ point = [t \in CondTask |-> IF t = 4 THEN "set" ELSE "lock"]
  /\ loop = [t \in CondTask |-> 1]

\* rt_cond_signal: at most one waiter goes back to its lock and its test.
Signalled == IF cond = {} THEN {} ELSE {Min(cond)}
Woken(ts) == [t \in CondTask |-> IF t \in ts THEN "lock" ELSE point[t]]

\* lock; while (cond_data < Wanted) wait; unlock
Await(t) ==
  /\ point[t] = "lock"
  /\ LET waits == cond_data < Wanted(t) IN
       /\ cond' = IF waits THEN cond \union {t} ELSE cond
       /\ point' = [point EXCEPT ![t] = IF waits THEN "queued" ELSE "look"]
  /\ UNCHANGED <<cond_data, loop>>

\* The test of cond_data after the unlock, and what the task goes on with.
After(t) == CASE t = 1 /\ loop[t] = 1 -> "set"
              [] t = 2 /\ loop[t] = 1 -> "lock"
              [] t = 3 -> "set"
              [] OTHER -> "ended"
Look(t) ==
  /\ point[t] = "look"
  /\ point' = [point EXCEPT ![t] = After(t)]
  /\ loop' = [loop EXCEPT ![t] = IF After(t) = "lock" THEN 2 ELSE @]
  /\ UNCHANGED <<cond_data, cond>>

\* task1: cond_data = 2; signal; and the second loop, all under the lock.
SetsAndTells(told) ==
  /\ point[1] = "set"
  /\ cond_data' = 2
  /\ cond' = (cond \ told) \union {1}
  /\ point' = [Woken(told) EXCEPT ![1] = "queued"]
  /\ loop' = [loop EXCEPT ![1] = 2]
TellsNobody == SetsAndTells({})
Task1Sets == SetsAndTells(Signalled)

\* task3: the two seconds are over.  They are long against what the others have to
\* do: by then each of them waits or has ended.
TimesOut ==
  /\ point[3] = "queued"
  /\ \A t \in CondTask \ {3} : point[t] \in {"queued", "ended"}
  /\ cond' = cond \ {3} /\ point' = [point EXCEPT ![3] = "look"]
  /\ UNCHANGED <<cond_data, loop>>
Task3Sets ==
  /\ point[3] = "set" /\ point' = [point EXCEPT ![3] = "tell"]
  /\ cond_data' = 3
  /\ UNCHANGED <<cond, loop>>
Task3Broadcasts ==
  /\ point[3] = "tell" /\ point' = [Woken(cond) EXCEPT ![3] = "ended"]
  /\ cond' = {}
  /\ UNCHANGED <<cond_data, loop>>

\* task4: cond_data = 1 under the lock, the signal after it.
Task4Sets ==
  /\ point[4] = "set" /\ point' = [point EXCEPT ![4] = "tell"]
  /\ cond_data' = 1
  /\ UNCHANGED <<cond, loop>>
Task4Signals ==
  /\ point[4] = "tell" /\ point' = [Woken(Signalled) EXCEPT ![4] = "lock"]
  /\ cond' = cond \ Signalled
  /\ UNCHANGED <<cond_data, loop>>

Step(t) ==
  \/ Await(t)
  \/ Look(t)
  \/ t = 1 /\ Task1Sets
  \/ t = 3 /\ (TimesOut \/ Task3Sets \/ Task3Broadcasts)
  \/ t = 4 /\ (Task4Sets \/ Task4Signals)

\* cleanup_module waits for this.
CondEnded == (\A t \in CondTask : point[t] = "ended") /\ UNCHANGED condVars

CondNext == CondEnded \/ \E t \in CondTask : Step(t)
-----------------------------------------------------------------------------
\* Types; a task is in the queue of the condition variable exactly while it waits.
CondTypeOK ==
  /\ cond_data \in 0..3
  /\ point \in [CondTask -> {"set", "lock", "queued", "look", "tell", "ended"}]
  /\ \A t \in CondTask : loop[t] \in DOMAIN Awaited[t]
  /\ cond = {t \in CondTask : point[t] = "queued"}

\* Each task sees just the value it waited for, although it looks without the lock
\* (condtest.c:49, 61, 77, 86, 127), and task3 gives up at 2 (condtest.c:103): no
\* signal went to a task that waits for something else.
InTurn ==
  \A t \in CondTask :
    point[t] = "look" => cond_data = IF t = 3 THEN 2 ELSE Wanted(t)

\* Every task ends: one broadcast after one time-out reaches all that still wait
\* (condtest.c:98, 110).
CondTasksEnd == <>(\A t \in CondTask : point[t] = "ended")
=============================================================================
