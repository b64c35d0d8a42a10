------------------------------ MODULE RingSync ------------------------------
(***************************************************************************)
(* The named objects demo (kern/namedstuff/rt_process.c): tasks that print  *)
(* in turn with a ring of semaphores, then use one semaphore and one        *)
(* mailbox first and time out on them later, and a start task that gathers  *)
(* and releases them.  sync_sem goes both ways: from the tasks to the start *)
(* task twice (lines 61 and 71), and back from it at the end (line 154).    *)
(* Any CPU may run any task; the one-second delays are long against         *)
(* everything else, so that a delay ends only when no task can go on.       *)
(***************************************************************************)
EXTENDS Integers

CONSTANTS
  NUM_TASKS,
  ROUNDS          \* of the ring: 5 in the code
ASSUME RingAssumption == NUM_TASKS \in Nat \ {0} /\ ROUNDS \in Nat \ {0}

VARIABLES
  sems, sync_sem, prio_sem,       \* counts of the semaphores
  mbx_in, mbx_out,                \* messages in the mailboxes
  where, turns,                   \* per task: where it is, turns printed
  start, lap                      \* the start task, and its loop counter

RingTask == 0..NUM_TASKS - 1
semVars == <<sems, sync_sem, prio_sem>>
mbxVars == <<mbx_in, mbx_out>>
taskVars == <<where, turns>>
startVars == <<start, lap>>
ringVars == <<semVars, mbxVars, taskVars, startVars>>

RingStarts(free) ==
  /\ sems = [t \in RingTask |-> free] /\ sync_sem = 0 /\ prio_sem = 0
  /\ mbx_in = 0 /\ mbx_out = 0
  /\ where = [t \in RingTask |-> "ring"] /\ turns = [t \in RingTask |-> 0]
  /\ start = "begin" /\ lap = 0
AllFree == RingStarts(1)
RingInit == RingStarts(0)
-----------------------------------------------------------------------------
(* A task.                                                                 *)
Goes(t, from, to) == where[t] = from /\ where' = [where EXCEPT ![t] = to]
TaskOnly == UNCHANGED <<startVars, turns>>

Turn(t) ==
  /\ Goes(t, "ring", "print") /\ sems[t] > 0
  /\ sems' = [sems EXCEPT ![t] = @ - 1]
  /\ TaskOnly /\ UNCHANGED <<sync_sem, prio_sem, mbxVars>>
PrintTurn(t) ==
  /\ Goes(t, "print", "pass")
  /\ turns' = [turns EXCEPT ![t] = @ + 1]
  /\ UNCHANGED <<semVars, mbxVars, startVars>>
Pass(t) ==
  /\ Goes(t, "pass", IF turns[t] < ROUNDS THEN "ring" ELSE "sync")
  /\ sems' = [sems EXCEPT ![(t + 1) % NUM_TASKS] = @ + 1]
  /\ TaskOnly /\ UNCHANGED <<sync_sem, prio_sem, mbxVars>>

SyncOne(t) ==
  /\ Goes(t, "sync", "prio") /\ sync_sem' = sync_sem + 1
  /\ TaskOnly /\ UNCHANGED <<sems, prio_sem, mbxVars>>
Prio(t) ==
  /\ Goes(t, "prio", "sleep") /\ prio_sem > 0 /\ prio_sem' = prio_sem - 1
  /\ TaskOnly /\ UNCHANGED <<sems, sync_sem, mbxVars>>
NoSync(t) ==
  /\ Goes(t, "resync", "receive")
  /\ TaskOnly /\ UNCHANGED <<semVars, mbxVars>>
SyncTwo(t) ==
  /\ Goes(t, "resync", "receive") /\ sync_sem' = sync_sem + 1
  /\ TaskOnly /\ UNCHANGED <<sems, prio_sem, mbxVars>>

Receive(t) ==
  /\ Goes(t, "receive", "send") /\ mbx_in > 0 /\ mbx_in' = mbx_in - 1
  /\ TaskOnly /\ UNCHANGED <<semVars, mbx_out>>
Send(t) ==
  /\ Goes(t, "send", "released") /\ mbx_out < NUM_TASKS /\ mbx_out' = mbx_out + 1
  /\ TaskOnly /\ UNCHANGED <<semVars, mbx_in>>
Released(t) ==
  /\ Goes(t, "released", "mbxtimed") /\ sync_sem > 0 /\ sync_sem' = sync_sem - 1
  /\ TaskOnly /\ UNCHANGED <<sems, prio_sem, mbxVars>>

Untimed(t) == \/ Turn(t) \/ PrintTurn(t) \/ Pass(t) \/ SyncOne(t) \/ Prio(t)
              \/ SyncTwo(t) \/ Receive(t) \/ Send(t) \/ Released(t)
-----------------------------------------------------------------------------
(* The start task: six loops over the tasks.                               *)
Loop(from, to, n) ==
  /\ start = from /\ lap' = (lap + 1) % n
  /\ start' = IF lap = n - 1 THEN to ELSE from
  /\ UNCHANGED <<sems, taskVars>>

Begin ==
  /\ start = "begin" /\ start' = "gather" /\ UNCHANGED lap
  /\ sems' = [sems EXCEPT ![0] = @ + 1]
  /\ UNCHANGED <<sync_sem, prio_sem, mbxVars, taskVars>>
Gather(from, to) ==
  /\ Loop(from, to, NUM_TASKS) /\ sync_sem > 0 /\ sync_sem' = sync_sem - 1
  /\ UNCHANGED <<prio_sem, mbxVars>>
Posts(n) ==
  /\ Loop("post", "regather", n) /\ prio_sem' = prio_sem + 1
  /\ UNCHANGED <<sync_sem, mbxVars>>
OneMore == Posts(NUM_TASKS + 1)
Post == Posts(NUM_TASKS)
Mail ==
  /\ Loop("mail", "replies", NUM_TASKS) /\ mbx_in < NUM_TASKS
  /\ mbx_in' = mbx_in + 1
  /\ UNCHANGED <<sync_sem, prio_sem, mbx_out>>
Replies ==
  /\ Loop("replies", "release", NUM_TASKS) /\ mbx_out > 0
  /\ mbx_out' = mbx_out - 1
  /\ UNCHANGED <<sync_sem, prio_sem, mbx_in>>
Release ==
  /\ Loop("release", "complete", NUM_TASKS) /\ sync_sem' = sync_sem + 1
  /\ UNCHANGED <<prio_sem, mbxVars>>

StartTask == \/ Begin \/ Gather("gather", "post") \/ Post
             \/ Gather("regather", "mail") \/ Mail \/ Replies \/ Release
-----------------------------------------------------------------------------
(* Delays.  No task has anything left to do but wait.                      *)
TaskWaits(t) == \/ where[t] = "ring" /\ sems[t] = 0
                \/ where[t] = "prio" /\ prio_sem = 0
                \/ where[t] = "receive" /\ mbx_in = 0
                \/ where[t] = "released" /\ sync_sem = 0
                \/ where[t] \in {"sleep", "timed", "mbxtimed", "complete"}
StartWaits == \/ start \in {"gather", "regather"} /\ sync_sem = 0
              \/ start = "replies" /\ mbx_out = 0
              \/ start = "complete"
Quiet == StartWaits /\ \A t \in RingTask : TaskWaits(t)
OneLess(n) == IF n > 0 THEN n - 1 ELSE 0

SleepEnds(t) ==
  /\ Goes(t, "sleep", "timed") /\ Quiet
  /\ TaskOnly /\ UNCHANGED <<semVars, mbxVars>>
\* The semaphore or the time-out, with the same message.
PrioTimed(t) ==
  /\ Goes(t, "timed", "resync") /\ (prio_sem > 0 \/ Quiet)
  /\ prio_sem' = OneLess(prio_sem)
  /\ TaskOnly /\ UNCHANGED <<sems, sync_sem, mbxVars>>
MbxTimed(t) ==
  /\ Goes(t, "mbxtimed", "complete") /\ (mbx_in > 0 \/ Quiet)
  /\ mbx_in' = OneLess(mbx_in)
  /\ TaskOnly /\ UNCHANGED <<semVars, mbx_out>>

TaskStep(t) == Untimed(t) \/ SleepEnds(t) \/ PrioTimed(t) \/ MbxTimed(t)
RingEnded ==
  /\ start = "complete" /\ \A t \in RingTask : where[t] = "complete"
  /\ UNCHANGED ringVars
RingNext == RingEnded \/ StartTask \/ \E t \in RingTask : TaskStep(t)
RingSpec == RingInit /\ [][RingNext]_ringVars
-----------------------------------------------------------------------------
\* Types; no semaphore or mailbox ever holds more than one token per task.
RingTypeOK ==
  /\ \A t \in RingTask : sems[t] \in 0..1 /\ turns[t] \in 0..ROUNDS
  /\ sync_sem \in 0..NUM_TASKS /\ prio_sem \in 0..NUM_TASKS
  /\ mbx_in \in 0..NUM_TASKS /\ mbx_out \in 0..NUM_TASKS
  /\ lap \in 0..NUM_TASKS - 1

\* The names are printed in the order of the ring, round by round
\* (rt_process.c:50-59).
RingOrder ==
  \A s, t \in RingTask : s < t => turns[s] - turns[t] \in {0, 1}

\* The timed waits of a task (rt_process.c:67, 86) find nothing left to take: the
\* messages "sem timeout" and "mbx timeout" are true.
TimeoutsReal ==
  \A t \in RingTask :
    /\ where[t] = "timed" => prio_sem = 0
    /\ where[t] = "mbxtimed" => mbx_in = 0

\* No task that waits for its release (rt_process.c:85) can take the signal of a
\* task to the start task, for which the same semaphore serves (rt_process.c:71).
NotStolen ==
  (sync_sem > 0 /\ \E t \in RingTask : where[t] = "released")
    => start \in {"release", "complete"}

\* Every token is taken by the task it is meant for: both of the above.
TokensMeant == TimeoutsReal /\ NotStolen

\* The tasks and the start task complete.
RingCompletes ==
  <>(start = "complete" /\ \A t \in RingTask : where[t] = "complete")
=============================================================================
