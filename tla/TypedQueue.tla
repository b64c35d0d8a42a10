----------------------------- MODULE TypedQueue -----------------------------
(***************************************************************************)
(* What the message queues promise their users: messages come out in the    *)
(* order they went in, as far as the types asked for allow; a receiver      *)
(* waits only for what is not there, and a message is not queued while a    *)
(* receiver that can take it waits.  Every operation is one step.           *)
(***************************************************************************)
EXTENDS MsgTypes, WaitLists

CONSTANTS Queue, Reader, Messages, Requests

VARIABLES
  content,        \* the messages in each queue, oldest first
  waiting,        \* what each reader waits for: a queue and a request, or nothing
  handed,         \* what each reader was given while it waited, if anything
  answer          \* what the latest step gave a reader, if anything

queueVars == <<content, waiting, handed, answer>>

QueueInit ==
  /\ content = [q \in Queue |-> << >>]
  /\ waiting = [t \in Reader |-> {}]
  /\ handed = [t \in Reader |-> {}]
  /\ answer = {}

\* A message of this type for this request.
Given(type, r) == [type |-> type, args |-> r]

Asking(q, m) ==
  {t \in Reader : \E w \in waiting[t] : w.queue = q /\ testmsg(m.type, w.args)}
Able(q, m) ==
  {t \in Asking(q, m) : \E w \in waiting[t] : w.args.noerror \/ m.ts <= w.args.sz}
Released(S) == [t \in Reader |-> IF t \in S THEN {} ELSE waiting[t]]
Unanswerable(q, r) == \A i \in DOMAIN content[q] : ~ testmsg(content[q][i].type, r)

\* A reader that asked for m gets it at once.  Nothing older in the queue is what
\* it asked for.  Readers whose buffer is too small for m may be refused.
Hand(q, m, t) ==
  /\ handed' = [handed EXCEPT ![t] = {Given(m.type, w.args) : w \in waiting[t]}]
  /\ t \in Able(q, m)
  /\ \A w \in waiting[t] : Unanswerable(q, w.args)
  /\ \E S \in SUBSET (Asking(q, m) \ Able(q, m)) : waiting' = Released(S \cup {t})
  /\ answer' = {}
  /\ UNCHANGED content

\* The message is queued: no waiting reader can take it, and those that asked for
\* it are told that it is too big.
Enqueue(q, m) ==
  /\ content' = [content EXCEPT ![q] = Append(@, m)]
  /\ Able(q, m) = {}
  /\ waiting' = Released(Asking(q, m))
  /\ answer' = {}
  /\ UNCHANGED handed

\* The oldest message asked for, of least type if the request says so.
Best(s, r, i) ==
  /\ testmsg(s[i].type, r)
  /\ \A j \in DOMAIN s :
       testmsg(s[j].type, r) =>
         IF convert_mode(r) = "LESSEQUAL"
         THEN s[i].type < s[j].type \/ (s[i].type = s[j].type /\ i <= j)
         ELSE i <= j
Take(q, i, r) ==
  /\ answer' = {Given(content[q][i].type, r)}
  /\ Best(content[q], r, i)
  /\ content' = [content EXCEPT ![q] = DropAt(@, i)]
  /\ UNCHANGED <<waiting, handed>>

Wait(t, q, r) ==
  /\ waiting[t] = {} /\ waiting' = [waiting EXCEPT ![t] = {[queue |-> q, args |-> r]}]
  /\ Unanswerable(q, r)
  /\ answer' = {}
  /\ UNCHANGED <<content, handed>>

\* A reader returns, with its message or without one.
Return(t) ==
  /\ answer' = handed[t]
  /\ waiting' = [waiting EXCEPT ![t] = {}]
  /\ handed' = [handed EXCEPT ![t] = {}]
  /\ UNCHANGED content

Remove(q) ==
  /\ content' = [content EXCEPT ![q] = << >>]
  /\ waiting' = Released({t \in Reader : \E w \in waiting[t] : w.queue = q})
  /\ answer' = {}
  /\ UNCHANGED handed

\* Everything else leaves the queues and the readers alone.
Quiet == answer' = {} /\ UNCHANGED <<content, waiting, handed>>

QueueNext ==
  \/ Quiet
  \/ \E t \in Reader : Return(t)
  \/ \E q \in Queue : Remove(q)
  \/ \E q \in Queue, r \in Requests : \E i \in DOMAIN content[q] : Take(q, i, r)
  \/ \E q \in Queue, m \in Messages : Enqueue(q, m) \/ \E t \in Reader : Hand(q, m, t)
  \/ \E t \in Reader, q \in Queue, r \in Requests : Wait(t, q, r)

QueueSpec == QueueInit /\ [][QueueNext]_queueVars
=============================================================================
