------------------------------ MODULE RtAgent -------------------------------
(***************************************************************************)
(* The agent demo (user/rt_agent): a periodic kernel task (rt_agent.c, fun) *)
(* relays a block in shared memory from a sender (sender.c) to a receiver   *)
(* (receiver.c).  shmsem lends the block to the sender and agentsem gives   *)
(* it back; the receiver asks for it with an rpc and returns it with a send.*)
(* A period in which the agent finds nothing is a return to its test.       *)
(***************************************************************************)
EXTENDS Integers

CONSTANT COUNT    \* blocks the sender sends
ASSUME CountAssumption == COUNT \in Nat

VARIABLES
  shm0,           \* shm[0]: 0, or 1 for any positive number of words
  sumRight,       \* the checksum behind the words is theirs
  shmsem, agentsem,
  agent, op,      \* where the agent is, and its state variable
  sender, todo, receiver,
  block, relayed, \* history: blocks written, and checked by the receiver
  wrong           \* history: some task has printed WRONG CHECKSUM

memVars == <<shm0, sumRight, block>>
agentVars == <<memVars, shmsem, agentsem, agent, op, sender, todo, receiver,
               relayed, wrong>>

AgentInit ==
  /\ shm0 = 1 /\ sumRight = FALSE
  /\ shmsem = 0 /\ agentsem = 0
  /\ agent = "names" /\ op = 4
  /\ sender = "new" /\ todo = COUNT /\ receiver = "new"
  /\ block = 0 /\ relayed = 0 /\ wrong = FALSE
-----------------------------------------------------------------------------
(* The sender.                                                             *)
SndOnly == UNCHANGED <<agent, op, receiver, relayed, wrong>>

SndStart ==
  /\ sender = "new" /\ sender' = "wait"
  /\ SndOnly /\ UNCHANGED <<memVars, shmsem, agentsem, todo>>

SndWait ==
  /\ sender = "wait" /\ shmsem > 0 /\ shmsem' = shmsem - 1
  /\ sender' = IF todo > 0 THEN "size" ELSE "zero"
  /\ SndOnly /\ UNCHANGED <<memVars, agentsem, todo>>

\* A new size, so that the checksum is looked for in another place.
SndSize ==
  /\ sender = "size" /\ sender' = "fill"
  /\ shm0' = 1 /\ sumRight' = FALSE
  /\ SndOnly /\ UNCHANGED <<block, shmsem, agentsem, todo>>

SndFill ==
  /\ sender = "fill" /\ sender' = "signal"
  /\ sumRight' = TRUE /\ block' = block + 1
  /\ SndOnly /\ UNCHANGED <<shm0, shmsem, agentsem, todo>>

SndSignal ==
  /\ sender = "signal" /\ sender' = "wait"
  /\ agentsem' = agentsem + 1 /\ todo' = todo - 1
  /\ SndOnly /\ UNCHANGED <<memVars, shmsem>>

\* shm[0] = 0: no words, whose sum is not what lies in shm[1].
SndZero ==
  /\ sender = "zero" /\ sender' = "bye"
  /\ shm0' = 0 /\ sumRight' = FALSE
  /\ SndOnly /\ UNCHANGED <<block, shmsem, agentsem, todo>>

SndBye ==
  /\ sender = "bye" /\ sender' = "ended"
  /\ agentsem' = agentsem + 1
  /\ SndOnly /\ UNCHANGED <<memVars, shmsem, todo>>

Sender == \/ SndStart \/ SndWait \/ SndSize \/ SndFill
          \/ SndSignal \/ SndZero \/ SndBye
-----------------------------------------------------------------------------
(* The receiver.  "rpc" and "send" are its blocking calls.  Calls to a      *)
(* task that has ended return at once, and leave msg as it was.            *)
RcvMoves(from, to) ==
  /\ receiver = from /\ receiver' = to
  /\ UNCHANGED <<memVars, shmsem, agentsem, agent, op, sender, todo>>
Calls(call, next) == IF agent = "ended" THEN next ELSE call

RcvStart == RcvMoves("new", "call") /\ UNCHANGED <<relayed, wrong>>
RcvCall ==
  /\ RcvMoves("call", Calls("rpc", "returned"))
  /\ UNCHANGED <<relayed, wrong>>
RcvCheck ==
  /\ RcvMoves("returned", Calls("send", "call"))
  /\ relayed' = block
  /\ wrong' = (wrong \/ ~ sumRight)
RcvEnd == RcvMoves("told", "ended") /\ UNCHANGED <<relayed, wrong>>

Receiver == RcvStart \/ RcvCall \/ RcvCheck \/ RcvEnd
-----------------------------------------------------------------------------
(* The agent.                                                              *)
AgentOnly == UNCHANGED <<memVars, sender, todo, relayed>>

FindTasks ==
  /\ agent = "names" /\ sender # "new" /\ receiver # "new"
  /\ agent' = "test"
  /\ AgentOnly /\ UNCHANGED <<shmsem, agentsem, op, receiver, wrong>>

\* while (shm[0]) switch (op)
Case == <<"case1", "case2", "case3", "case4">>
Test ==
  /\ agent = "test" /\ agent' = IF shm0 = 0 THEN "last" ELSE Case[op]
  /\ AgentOnly /\ UNCHANGED <<shmsem, agentsem, op, receiver, wrong>>

Case1 ==
  /\ agent = "case1"
  /\ IF agentsem = 0
     THEN agent' = "test" /\ UNCHANGED <<agentsem, op>>
     ELSE agent' = "check" /\ agentsem' = agentsem - 1 /\ op' = 2
  /\ AgentOnly /\ UNCHANGED <<shmsem, receiver, wrong>>

Check ==
  /\ agent = "check" /\ agent' = "case2"
  /\ wrong' = (wrong \/ ~ sumRight)
  /\ AgentOnly /\ UNCHANGED <<shmsem, agentsem, op, receiver>>

\* rt_receive_if takes what the receiver is blocked with.  A send ends there; an rpc
\* waits for the answer.
Sending == receiver \in {"rpc", "send"}
AfterSend == IF receiver = "send" THEN "call" ELSE "unanswered"
Answered(with) == IF receiver = "rpc" THEN with ELSE AfterSend

Case2 ==
  /\ agent = "case2"
  /\ IF Sending
     THEN agent' = "case3" /\ op' = 3 /\ receiver' = Answered("returned")
     ELSE agent' = "test" /\ UNCHANGED <<op, receiver>>
  /\ AgentOnly /\ UNCHANGED <<shmsem, agentsem, wrong>>

DoesNotAwaitSend ==
  /\ agent = "case3" /\ agent' = "case4"
  /\ receiver' = IF Sending THEN AfterSend ELSE receiver
  /\ AgentOnly /\ UNCHANGED <<shmsem, agentsem, op, wrong>>
Case3 ==
  /\ agent = "case3"
  /\ IF Sending
     THEN agent' = "case4" /\ receiver' = AfterSend
     ELSE agent' = "test" /\ UNCHANGED receiver
  /\ AgentOnly /\ UNCHANGED <<shmsem, agentsem, op, wrong>>

Case4 ==
  /\ agent = "case4" /\ agent' = "test" /\ op' = 1
  /\ shmsem' = shmsem + 1
  /\ AgentOnly /\ UNCHANGED <<agentsem, receiver, wrong>>

Last ==
  /\ agent = "last" /\ Sending
  /\ agent' = "ended" /\ receiver' = Answered("told")
  /\ AgentOnly /\ UNCHANGED <<shmsem, agentsem, op, wrong>>

Agent == \/ FindTasks \/ Test \/ Case1 \/ Check \/ Case2 \/ Case3 \/ Case4
         \/ Last
-----------------------------------------------------------------------------
AgentEnded ==
  /\ {agent, sender, receiver} = {"ended"}
  /\ UNCHANGED agentVars

AgentNext == Sender \/ Receiver \/ Agent \/ AgentEnded

\* Each of the three is a task that the scheduler runs when it is ready.
AgentSpec ==
  /\ AgentInit /\ [][AgentNext]_agentVars
  /\ WF_agentVars(Sender) /\ WF_agentVars(Receiver) /\ WF_agentVars(Agent)
-----------------------------------------------------------------------------
\* Types; one semaphore count is enough for either direction.
AgentTypeOK ==
  /\ shm0 \in 0..1 /\ sumRight \in BOOLEAN /\ wrong \in BOOLEAN
  /\ shmsem \in 0..1 /\ agentsem \in 0..1
  /\ op \in 1..4 /\ todo \in 0..COUNT
  /\ block \in 0..COUNT /\ relayed \in 0..COUNT
  /\ receiver # "unanswered"

\* The sender touches the block only after the receiver has checked what it held
\* (sender.c:47, rt_agent.c:103): nothing is overwritten before it is relayed.
NothingOverwritten ==
  sender \in {"size", "fill", "zero"} => relayed = block

\* While the sender has blocks to send no checksum is found wrong (rt_agent.c:88,
\* receiver.c:50): neither task reads a block that is being written.
ChecksumsWhileSending == wrong => shm0 = 0

\* The block is in one hand at a time: both of the above.
OneHolder == NothingOverwritten /\ ChecksumsWhileSending

\* All the blocks reach the receiver, and the sender ends (sender.c:45, 69).
AllRelayed == <>(sender = "ended" /\ relayed = COUNT)
=============================================================================
