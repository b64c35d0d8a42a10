----------------------------- MODULE SysvTyped ------------------------------
(***************************************************************************)
(* The message queues implement TypedQueue: the mapping from the queues,    *)
(* the sleeping receivers and what they were handed to the abstract state.  *)
(***************************************************************************)
EXTENDS SysvMsg

Content ==
  [o \in Obj |-> IF o \in Live THEN [i \in DOMAIN msgs[o] |-> heap[msgs[o][i]]]
                 ELSE << >>]
Waiting ==
  [t \in Task |-> IF pc[t] = "rcv" /\ r_msg[t] = "EAGAIN"
                  THEN {[queue |-> msq[t], args |-> req[t]]} ELSE {}]
Handed ==
  [t \in Task |-> IF r_msg[t] \in Msg
                  THEN {[type |-> heap[r_msg[t]].type, args |-> req[t]]} ELSE {}]

Typed == INSTANCE TypedQueue WITH
  Queue <- Obj, Reader <- Task,
  Messages <- {[type |-> r.type, ts |-> r.sz] : r \in SndReqs}, Requests <- RcvReqs,
  content <- Content, waiting <- Waiting, handed <- Handed, answer <- ret.got

\* What the queues do is what TypedQueue says: the hand-over of pipelined_send
\* (msg.c:635) passes over no older message, rt_msgrcv takes the message it should
\* (msg.c:790), and no message waits beside a receiver that can take it.
QueuesTyped == Typed!QueueSpec
=============================================================================
