------------------------------ MODULE MCDemos -------------------------------
(***************************************************************************)
(* Model-checking instance of seven programs that share nothing: a          *)
(* behaviour is one of one of them, and the others rest.                    *)
(***************************************************************************)
EXTENDS Chrono, TimerBench, CondTest, RtAgent, RingSync, Scrambler, MsgCopy

VARIABLE demo

\* Just before a full minute, hour and day, in the middle of a second.
Edges == {[hours |-> 23, minutes |-> 59, seconds |-> 57, hundredthes |-> 50]}

\* Early, late by one period, and late by several.
SomeLatencies == {-1, 2, 5}

demoVars == <<demo, chronoVars, benchVars, condVars, agentVars, ringVars, scrVars,
              copyVars>>

\* The programs that rest stay in one initial state.
Resting ==
  /\ demo # "scrambler" => /\ bytes = LONG * (PORTWORD + 1) /\ kind = "RPC_REQ"
                           /\ Cardinality({msg[j] : j \in DOMAIN msg}) = 1
  /\ demo # "copy" => queue = [qbytes |-> 0, cbytes |-> 0, mode |-> 0]

DemoInit ==
  /\ demo \in {"chrono", "bench", "cond", "agent", "ring", "scrambler", "copy"}
  /\ ChronoInit /\ BenchInit /\ CondInit /\ AgentInit /\ RingInit /\ ScrInit
  /\ CopyInit
  /\ Resting

Only(d) ==
  /\ demo = d /\ UNCHANGED demo
  /\ d # "chrono" => UNCHANGED chronoVars
  /\ d # "bench" => UNCHANGED benchVars
  /\ d # "cond" => UNCHANGED condVars
  /\ d # "agent" => UNCHANGED agentVars
  /\ d # "ring" => UNCHANGED ringVars
  /\ d # "scrambler" => UNCHANGED scrVars
  /\ d # "copy" => UNCHANGED copyVars

DemoNext ==
  \/ Only("chrono") /\ ChronoNext
  \/ Only("bench") /\ BenchNext
  \/ Only("cond") /\ CondNext
  \/ Only("agent") /\ AgentNext
  \/ Only("ring") /\ RingNext
  \/ Only("scrambler") /\ ScrNext
  \/ Only("copy") /\ CopyNext

\* A task that is ready runs, and a delay ends.
DemoSpec ==
  /\ DemoInit /\ [][DemoNext]_demoVars
  /\ WF_demoVars(Only("bench") /\ Display) /\ WF_demoVars(Only("bench") /\ Timer)
  /\ WF_demoVars(Only("bench") /\ Cleanup)
  /\ \A t \in CondTask : WF_demoVars(Only("cond") /\ Step(t))
  /\ WF_demoVars(Only("agent") /\ Sender) /\ WF_demoVars(Only("agent") /\ Receiver)
  /\ WF_demoVars(Only("agent") /\ Agent)
  /\ \A t \in RingTask : WF_demoVars(Only("ring") /\ TaskStep(t))
  /\ WF_demoVars(Only("ring") /\ StartTask)

\* The types of the seven programs.
DemosTypeOK ==
  /\ ChronoTypeOK /\ BenchTypeOK /\ CondTypeOK /\ AgentTypeOK /\ RingTypeOK

\* The programs end.  A reader of the benchmark does not wait for ever; one broadcast
\* after one time-out reaches all the tasks that wait for the condition (condtest.c:98,
\* 110); all the blocks reach the receiver of the agent demo and its sender ends
\* (sender.c:45, 69); the tasks and the start task of the ring complete
\* (rt_process.c:94, 159).
DemosEnd ==
  /\ WaitEnds
  /\ demo = "cond" => CondTasksEnd
  /\ demo = "agent" => AllRelayed
  /\ demo = "ring" => RingCompletes
=============================================================================
