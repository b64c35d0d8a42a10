------------------------------ MODULE SysvMsg -------------------------------
(***************************************************************************)
(* System V message queues for RTAI tasks (user/sysvmsg/msg.c): rt_msgget,  *)
(* rt_msgctl, rt_msgsnd and rt_msgrcv, called by concurrent real-time tasks *)
(* on several CPUs.                                                         *)
(*                                                                         *)
(* A section between msg_lock and msg_unlock runs with ids->ary held and    *)
(* interrupts off, so it is one step, together with the thread-local work   *)
(* before and after it (argument checks, load_msg, store_msg, free_msg).    *)
(* What happens while the lock is not held is a step of its own: sleeping   *)
(* in schedule(), freeing the messages of a removed queue, and reading      *)
(* q_perm.seq of a new queue after msg_unlock.                              *)
(***************************************************************************)
EXTENDS IpcIds, WaitLists, MsgTypes

CONSTANTS
  Task, NoTask,
  Cred,           \* euid, groups and capabilities of each task
  Msg,            \* addresses rt_malloc can return for messages
  MsgMax,         \* msg_ctlmax
  MsgMnb,         \* msg_ctlmnb
  GetReqs,        \* key and msgflg of rt_msgget
  SetReqs,        \* the msqid_ds of IPC_SET
  SndReqs,        \* mtype, msgsz and msgflg of rt_msgsnd
  RcvReqs,        \* msgtyp, msgsz and msgflg of rt_msgrcv
  CallIds         \* the values callers pass as msqid

Rights == {"r", "w"}
Modes == [{"u", "g", "o"} -> SUBSET Rights]
SndArgs == [type : Int, sz : Int, nowait : BOOLEAN]
RcvArgs == [typ : Int, sz : Int, nowait : BOOLEAN, noerror : BOOLEAN,
            except : BOOLEAN]

ASSUME TaskAssumption == NoTask \notin Task
ASSUME LimitAssumption == MsgMax \in Nat /\ MsgMnb \in Nat
ASSUME GetAssumption ==
  \A r \in GetReqs : r.key \in Key /\ r.mode \in Modes
                     /\ r.creat \in BOOLEAN /\ r.excl \in BOOLEAN
ASSUME SetAssumption ==
  \A r \in SetReqs : r.qbytes \in Nat /\ r.mode \in Modes
ASSUME SndAssumption == SndReqs \subseteq SndArgs
ASSUME RcvAssumption == RcvReqs \subseteq RcvArgs
ASSUME CallIdAssumption == CallIds \subseteq -1 .. INT_MAX
ASSUME MsgAssumption == {"none", "EAGAIN", "EIDRM", "E2BIG"} \cap Msg = {}

VARIABLES
  acl,            \* uid, gid, cuid, cgid and mode of each q_perm
  qbytes,         \* q_qbytes
  cbytes,         \* q_cbytes
  qnum,           \* q_qnum
  msgs,           \* q_messages
  rcvs,           \* q_receivers
  snds,           \* q_senders
  heap,           \* m_type and m_ts of each allocated message
  msg_bytes,      \* the two global counters
  msg_hdrs,
  sem,            \* the holder of ids->sem
  pc,             \* where a task is inside a call
  msqid,          \* local variables of the call: msqid (or id),
  msq,            \*   msq,
  req,            \*   the arguments,
  s_msg,          \*   the loaded message of a sleeping sender,
  killed,         \*   mss->list.next = NULL,
  r_msg,          \*   msr_d.r_msg,
  info,           \*   msginfo.msgpool and msginfo.msgmap
  wake,           \* pending rt_task_resume calls of each task
  sig,            \* signal_pending
  ret             \* the value the latest step returned from a call, and which
                  \*   message it took out for which request

qVars == <<acl, qbytes, cbytes, qnum, msgs>>
counters == <<msg_bytes, msg_hdrs>>
frameVars == <<pc, msqid, msq, req, s_msg, killed>>
vars == <<idsVars, qVars, counters, rcvs, snds, heap, sem, frameVars, r_msg,
          info, wake, sig, ret>>

Free == [type |-> 0, ts |-> -1]         \* contents of an unallocated message
FreeAcl == [uid |-> NULL, gid |-> NULL, cuid |-> NULL, cgid |-> NULL,
            mode |-> [c \in {"u", "g", "o"} |-> {}]]
NoReq == [none |-> TRUE]

Err(c) == [code |-> c, val |-> 0, got |-> {}]
Ok(v) == [code |-> "OK", val |-> v, got |-> {}]
NoRet == [code |-> "none", val |-> 0, got |-> {}]

-----------------------------------------------------------------------------
\* ipcperms: the class of the task decides; CAP_IPC_OWNER overrides.
granted(t, o) ==
  IF Cred[t].euid \in {acl[o].cuid, acl[o].uid} THEN acl[o].mode["u"]
  ELSE IF {acl[o].cgid, acl[o].gid} \cap Cred[t].groups # {}
       THEN acl[o].mode["g"]
       ELSE acl[o].mode["o"]

ipcperms(t, o, want) ==
  want \subseteq granted(t, o) \/ "IPC_OWNER" \in Cred[t].caps

\* (flag >> 6) | (flag >> 3) | flag
requested(mode) == mode["u"] \cup mode["g"] \cup mode["o"]

mayControl(t, o) ==
  \/ Cred[t].euid \in {acl[o].cuid, acl[o].uid}
  \/ "SYS_ADMIN" \in Cred[t].caps

\* The position the search loop of _rt_msgrcv stops with: the first message
\* that passes testmsg; with SEARCH_LESSEQUAL the first one of least type.
FirstMatch(o, r, i) ==
  /\ testmsg(heap[msgs[o][i]].type, r)
  /\ \A j \in 1 .. i - 1 : ~ testmsg(heap[msgs[o][j]].type, r)
found(o, r, i) ==
  LET type(j) == heap[msgs[o][j]].type
  IN  /\ testmsg(type(i), r)
      /\ \A j \in DOMAIN msgs[o] :
           testmsg(type(j), r) =>
             IF convert_mode(r) = "LESSEQUAL"
             THEN type(i) < type(j) \/ (type(i) = type(j) /\ i <= j)
             ELSE i <= j

full(o, sz) == sz + cbytes[o] > qbytes[o] \/ 1 + qnum[o] > qbytes[o]

\* r_maxsize of a sleeping receiver (INT_MAX with MSG_NOERROR).
fits(t, ts) == req[t].noerror \/ ts <= req[t].sz

\* pipelined_send walks the receivers from the head: a receiver that wants the
\* message of request s but has too small a buffer is woken with E2BIG, the
\* first one that can take it ends the walk.
ComparesTypes(t, s) == req[t].typ = s.type
wants(t, s) == testmsg(s.type, req[t])

takers(o, s) ==
  {i \in DOMAIN rcvs[o] : wants(rcvs[o][i], s) /\ fits(rcvs[o][i], s.sz)}

toobig(o, s) ==
  {rcvs[o][i] : i \in {j \in DOMAIN rcvs[o] :
     /\ wants(rcvs[o][j], s) /\ ~ fits(rcvs[o][j], s.sz)
     /\ \A k \in takers(o, s) : j < k}}

resume(w, S) == [u \in Task |-> IF u \in S THEN w[u] + 1 ELSE w[u]]

FreeObj ==
  {o \in Obj : /\ \A lid \in Slots : entries[lid] # o
               /\ \A t \in Task : pc[t] = "rmfree" => msq[t] # o}
FreeMsg == {m \in Msg : heap[m] = Free}

-----------------------------------------------------------------------------
SysvInit ==
  /\ IdsInit
  /\ acl = [o \in Obj |-> FreeAcl]
  /\ qbytes = [o \in Obj |-> 0]
  /\ cbytes = [o \in Obj |-> 0]
  /\ qnum = [o \in Obj |-> 0]
  /\ msgs = [o \in Obj |-> << >>]
  /\ rcvs = [o \in Obj |-> << >>]
  /\ snds = [o \in Obj |-> << >>]
  /\ heap = [m \in Msg |-> Free]
  /\ msg_bytes = 0
  /\ msg_hdrs = 0
  /\ sem = NoTask
  /\ pc = [t \in Task |-> "idle"]
  /\ msqid = [t \in Task |-> -1]
  /\ msq = [t \in Task |-> NULL]
  /\ req = [t \in Task |-> NoReq]
  /\ s_msg = [t \in Task |-> "none"]
  /\ killed = [t \in Task |-> FALSE]
  /\ r_msg = [t \in Task |-> "none"]
  /\ info = [t \in Task |-> [pool |-> 0, map |-> 0]]
  /\ wake = [t \in Task |-> 0]
  /\ sig = [t \in Task |-> FALSE]
  /\ ret = NoRet

\* The call returns v: its locals are gone, and a pending signal is handled.
Leave(t, v) ==
  /\ pc' = [pc EXCEPT ![t] = "idle"]
  /\ msqid' = [msqid EXCEPT ![t] = -1]
  /\ msq' = [msq EXCEPT ![t] = NULL]
  /\ req' = [req EXCEPT ![t] = NoReq]
  /\ s_msg' = [s_msg EXCEPT ![t] = "none"]
  /\ killed' = [killed EXCEPT ![t] = FALSE]
  /\ sig' = [sig EXCEPT ![t] = FALSE]
  /\ ret' = v

\* The call goes on, at a point where ids->ary is not held.
Stay(t, at, id, o, r, m) ==
  /\ pc' = [pc EXCEPT ![t] = at]
  /\ msqid' = [msqid EXCEPT ![t] = id]
  /\ msq' = [msq EXCEPT ![t] = o]
  /\ req' = [req EXCEPT ![t] = r]
  /\ s_msg' = [s_msg EXCEPT ![t] = m]
  /\ killed' = [killed EXCEPT ![t] = FALSE]
  /\ ret' = NoRet
  /\ UNCHANGED sig

\* A call that returns without having changed anything.
Refuse(t, v) ==
  /\ Leave(t, v)
  /\ UNCHANGED <<idsVars, qVars, counters, rcvs, snds, heap, sem, r_msg, info,
                 wake>>

-----------------------------------------------------------------------------
\* rt_msgget up to msg_unlock in newque: the queue is in the table and fully
\* initialised; ids->sem is still held.
MsggetNew(t, r) ==
  /\ pc[t] = "idle" /\ sem = NoTask
  /\ r.key = IPC_PRIVATE \/ r.creat
  /\ \E o \in FreeObj, lid \in Slots :
       /\ r.key = IPC_PRIVATE \/ WithKey(r.key) = {}
       /\ ipc_addid(o, r.key, lid)
       /\ acl' = [acl EXCEPT ![o] =
                    [uid |-> Cred[t].euid, cuid |-> Cred[t].euid,
                     gid |-> Cred[t].egid, cgid |-> Cred[t].egid,
                     mode |-> r.mode]]
       /\ qbytes' = [qbytes EXCEPT ![o] = MsgMnb]
       /\ cbytes' = [cbytes EXCEPT ![o] = 0]
       /\ qnum' = [qnum EXCEPT ![o] = 0]
       /\ msgs' = [msgs EXCEPT ![o] = << >>]
       /\ rcvs' = [rcvs EXCEPT ![o] = << >>]
       /\ snds' = [snds EXCEPT ![o] = << >>]
       /\ Stay(t, "getret", lid, o, NoReq, "none")
  /\ sem' = t
  /\ UNCHANGED <<counters, heap, r_msg, info, wake>>

\* The rest of newque and rt_msgget: q_perm.seq is read after msg_unlock.
GetRet(t, s, holder) ==
  /\ pc[t] = "getret"
  /\ sem' = holder
  /\ Leave(t, Ok(ipc_buildid(msqid[t], s)))
  /\ UNCHANGED <<idsVars, qVars, counters, rcvs, snds, heap, r_msg, info, wake>>

NoUp(t) == GetRet(t, perm[msq[t]].seq, sem)
ReadsIdsSeq(t) == GetRet(t, seq, NoTask)
MsggetRet(t) == GetRet(t, perm[msq[t]].seq, NoTask)

\* newque fails: rt_malloc returns NULL, or there is no free slot.
MsggetFail(t, r) ==
  /\ pc[t] = "idle" /\ sem = NoTask
  /\ \/ r.key = IPC_PRIVATE
     \/ r.creat /\ WithKey(r.key) = {}
  /\ \/ Leave(t, Err("ENOMEM")) /\ UNCHANGED idsVars
     \/ FreeObj # {} /\ ipc_addid_full /\ Leave(t, Err("ENOSPC"))
  /\ UNCHANGED <<qVars, counters, rcvs, snds, heap, sem, r_msg, info, wake>>

\* rt_msgget of a key that is in the table, or that must be and is not.
MsggetOld(t, r) ==
  /\ pc[t] = "idle" /\ sem = NoTask /\ r.key # IPC_PRIVATE
  /\ \/ WithKey(r.key) = {} /\ ~ r.creat /\ Refuse(t, Err("ENOENT"))
     \/ \E lid \in ipc_findkey(r.key) :
          LET o == entries[lid]
          IN  \/ r.creat /\ r.excl /\ Refuse(t, Err("EEXIST"))
              \/ /\ ~ (r.creat /\ r.excl)
                 /\ ~ ipcperms(t, o, requested(r.mode))
                 /\ Refuse(t, Err("EACCES"))
              \/ /\ ~ (r.creat /\ r.excl)
                 /\ ipcperms(t, o, requested(r.mode))
                 /\ Refuse(t, Ok(ipc_buildid(lid, perm[o].seq)))

-----------------------------------------------------------------------------
\* msg_lock and msg_checkid at the start of a call: why the call is refused,
\* or "" when it may go on.
refusal(id) ==
  IF id < 0 \/ ipc_lock(id) = NULL THEN "EINVAL"
  ELSE IF ipc_checkid(ipc_lock(id), id) THEN "EIDRM" ELSE ""

\* IPC_STAT, and MSG_STAT, which takes a slot and returns the id in it.
CtlStat(t, id) ==
  /\ pc[t] = "idle"
  /\ \/ refusal(id) # "" /\ Refuse(t, Err(refusal(id)))
     \/ /\ refusal(id) = "" /\ ~ ipcperms(t, ipc_lock(id), {"r"})
        /\ Refuse(t, Err("EACCES"))
     \/ /\ refusal(id) = "" /\ ipcperms(t, ipc_lock(id), {"r"})
        /\ Refuse(t, Ok(0))

CtlMsgStat(t, lid) ==
  /\ pc[t] = "idle"
  /\ \/ /\ lid < 0 \/ lid >= size \/ ipc_lock(lid) = NULL
        /\ Refuse(t, Err("EINVAL"))
     \/ /\ lid \in 0 .. size - 1 /\ ipc_lock(lid) # NULL
        /\ IF ipcperms(t, ipc_lock(lid), {"r"})
           THEN Refuse(t, Ok(ipc_buildid(lid, perm[ipc_lock(lid)].seq)))
           ELSE Refuse(t, Err("EACCES"))

\* MSG_INFO reads its counters under ids->sem but without ids->ary: in_use and
\* msg_hdrs first, msg_bytes later.
CtlInfo(t) ==
  /\ pc[t] = "idle" /\ sem = NoTask
  /\ sem' = t
  /\ info' = [info EXCEPT ![t] = [pool |-> in_use, map |-> msg_hdrs]]
  /\ Stay(t, "info", -1, NULL, NoReq, "none")
  /\ UNCHANGED <<idsVars, qVars, counters, rcvs, snds, heap, r_msg, wake>>

InfoRet(t, holder) ==
  /\ pc[t] = "info"
  /\ sem' = holder
  /\ info' = [info EXCEPT ![t] = [pool |-> 0, map |-> 0]]
  /\ Leave(t, [code |-> "INFO", got |-> {},
               val |-> IF max_id < 0 THEN 0 ELSE max_id,
               pool |-> info[t].pool, map |-> info[t].map, tql |-> msg_bytes])
  /\ UNCHANGED <<idsVars, qVars, counters, rcvs, snds, heap, r_msg, wake>>

CtlInfoRet(t) == InfoRet(t, NoTask)

\* IPC_SET and IPC_RMID are refused.
CtlRefused(t, id) ==
  /\ pc[t] = "idle"
  /\ sem = NoTask \/ id < 0
  /\ \/ refusal(id) # "" /\ Refuse(t, Err(refusal(id)))
     \/ /\ refusal(id) = "" /\ ~ mayControl(t, ipc_lock(id))
        /\ Refuse(t, Err("EPERM"))

\* A missing or unreadable buf: IPC_SET copies before it locks, IPC_STAT and
\* MSG_INFO after they unlocked.
CtlFault(t) == pc[t] = "idle" /\ Refuse(t, Err("EFAULT"))

\* expunge_all(msq, res), r_msg part.
AlwaysRetry(o, res) ==
  [u \in Task |-> IF u \in Range(rcvs[o]) THEN "EAGAIN" ELSE r_msg[u]]
expunge(o, res) ==
  [u \in Task |-> IF u \in Range(rcvs[o]) THEN res ELSE r_msg[u]]

\* The resumes of expunge_all and ss_wakeup together.
woken(o) == resume(resume(wake, Range(rcvs[o])), Range(snds[o]))

\* IPC_SET: every sleeper of the queue is woken to look again.
CtlSet(t, id, s) ==
  /\ pc[t] = "idle" /\ sem = NoTask
  /\ refusal(id) = "" /\ mayControl(t, ipc_lock(id))
  /\ LET o == ipc_lock(id)
     IN  \/ /\ s.qbytes > MsgMnb /\ "SYS_RESOURCE" \notin Cred[t].caps
            /\ Refuse(t, Err("EPERM"))
         \/ /\ s.qbytes <= MsgMnb \/ "SYS_RESOURCE" \in Cred[t].caps
            /\ qbytes' = [qbytes EXCEPT ![o] = s.qbytes]
            /\ acl' = [acl EXCEPT ![o] =
                         [@ EXCEPT !.uid = s.uid, !.gid = s.gid, !.mode = s.mode]]
            /\ r_msg' = expunge(o, "EAGAIN")
            /\ wake' = woken(o)
            /\ Leave(t, Ok(0))
            /\ UNCHANGED <<idsVars, cbytes, qnum, msgs, counters, rcvs, snds,
                           heap, sem, info>>

\* IPC_RMID up to msg_unlock in freeque: the queue is out of the table and its
\* sleepers are told; nobody else has a pointer to it any more.
CtlRmid(t, id) ==
  /\ pc[t] = "idle" /\ sem = NoTask
  /\ refusal(id) = "" /\ mayControl(t, ipc_lock(id))
  /\ ipc_rmid(id)
  /\ LET o == ipc_lock(id)
     IN  /\ r_msg' = expunge(o, "EIDRM")
         /\ wake' = woken(o)
         /\ pc' = [pc EXCEPT ![t] = "rmfree"]
         /\ msq' = [msq EXCEPT ![t] = o]
         /\ killed' = [u \in Task |-> killed[u] \/ u \in Range(snds[o])]
  /\ sem' = t
  /\ ret' = NoRet
  /\ UNCHANGED <<qVars, counters, rcvs, snds, heap, msqid, req, s_msg, info, sig>>

\* The rest of freeque and the up() of _rt_msgctl.
RmidFree(t, freed) ==
  /\ pc[t] = "rmfree"
  /\ LET o == msq[t]
     IN  /\ heap' = [m \in Msg |-> IF m \in Range(freed) THEN Free ELSE heap[m]]
         /\ msg_hdrs' = msg_hdrs - Len(freed)
         /\ msg_bytes' = msg_bytes - cbytes[o]
         /\ acl' = [acl EXCEPT ![o] = FreeAcl]
         /\ qbytes' = [qbytes EXCEPT ![o] = 0]
         /\ cbytes' = [cbytes EXCEPT ![o] = 0]
         /\ qnum' = [qnum EXCEPT ![o] = 0]
         /\ msgs' = [msgs EXCEPT ![o] = << >>]
         /\ rcvs' = [rcvs EXCEPT ![o] = << >>]
         /\ snds' = [snds EXCEPT ![o] = << >>]
  /\ sem' = NoTask
  /\ Leave(t, Ok(0))
  /\ UNCHANGED <<idsVars, r_msg, info, wake>>

CtlRmidFree(t) == RmidFree(t, msgs[msq[t]])

-----------------------------------------------------------------------------
\* rt_msgsnd refuses its arguments or cannot load the message.
MsgsndRefused(t, id, r) ==
  /\ pc[t] = "idle"
  /\ \/ /\ r.sz > MsgMax \/ r.sz < 0 \/ id < 0 \/ r.type < 1
        /\ Refuse(t, Err("EINVAL"))
     \/ /\ r.sz \in 0 .. MsgMax /\ id >= 0 /\ r.type >= 1
        /\ \E e \in {"ENOMEM", "EFAULT"} : Refuse(t, Err(e))

\* The message could not be sent: it is freed and the call returns.
NotFreed(t, m, e) ==
  /\ Leave(t, Err(e))
  /\ UNCHANGED <<qVars, counters, rcvs, r_msg, heap>>

SndGiveUp(t, m, e) ==
  /\ heap' = [heap EXCEPT ![m] = Free]
  /\ Leave(t, Err(e))
  /\ UNCHANGED <<qVars, counters, rcvs, r_msg>>

\* ss_add and schedule().
NotAdded(t, id, r, m, o, lists) ==
  /\ snds' = lists
  /\ heap' = [heap EXCEPT ![m] = [type |-> r.type, ts |-> r.sz]]
  /\ Stay(t, "snd", id, o, r, m)
  /\ UNCHANGED <<qVars, counters, rcvs, r_msg>>

SndSleep(t, id, r, m, o, lists) ==
  /\ snds' = [lists EXCEPT ![o] = Append(@, t)]
  /\ heap' = [heap EXCEPT ![m] = [type |-> r.type, ts |-> r.sz]]
  /\ Stay(t, "snd", id, o, r, m)
  /\ UNCHANGED <<qVars, counters, rcvs, r_msg>>

\* pipelined_send hands the message to the receiver to: it and the receivers
\* that got E2BIG leave the list and are resumed.
PassTo(to, r, m, o, gone, up, w) ==
  /\ r_msg' = [u \in Task |-> IF u = to THEN m
                              ELSE IF u \in toobig(o, r) THEN "E2BIG"
                              ELSE r_msg[u]]
  /\ rcvs' = [rcvs EXCEPT ![o] = Without(@, gone)]
  /\ wake' = resume(w, up)
  /\ UNCHANGED <<qVars, counters>>

TakerStaysListed(t, r, m, o, i, w) ==
  PassTo(rcvs[o][i], r, m, o, toobig(o, r), toobig(o, r) \cup {rcvs[o][i]}, w)
TakerNotResumed(t, r, m, o, i, w) ==
  PassTo(rcvs[o][i], r, m, o, toobig(o, r) \cup {rcvs[o][i]}, toobig(o, r), w)
SndHandOver(t, r, m, o, i, w) ==
  LET told == toobig(o, r) \cup {rcvs[o][i]}
  IN  PassTo(rcvs[o][i], r, m, o, told, told, w)

\* No receiver takes it: the message goes to the tail of the queue.
SndEnqueue(t, r, m, o, w) ==
  /\ r_msg' = [u \in Task |-> IF u \in toobig(o, r) THEN "E2BIG" ELSE r_msg[u]]
  /\ rcvs' = [rcvs EXCEPT ![o] = Without(@, toobig(o, r))]
  /\ wake' = resume(w, toobig(o, r))
  /\ msgs' = [msgs EXCEPT ![o] = Append(@, m)]
  /\ cbytes' = [cbytes EXCEPT ![o] = @ + r.sz]
  /\ qnum' = [qnum EXCEPT ![o] = @ + 1]
  /\ msg_bytes' = msg_bytes + r.sz
  /\ msg_hdrs' = msg_hdrs + 1
  /\ UNCHANGED <<acl, qbytes>>

\* _rt_msgsnd from the label retry on, the queue o being locked.  The senders'
\* lists and the wake counts are those after ss_del and schedule().
SndSection(t, id, r, m, o, lists, w) ==
  \/ /\ ipc_checkid(o, id)
     /\ SndGiveUp(t, m, "EIDRM") /\ snds' = lists /\ wake' = w
  \/ /\ ~ ipc_checkid(o, id) /\ ~ ipcperms(t, o, {"w"})
     /\ SndGiveUp(t, m, "EACCES") /\ snds' = lists /\ wake' = w
  \/ /\ ~ ipc_checkid(o, id) /\ ipcperms(t, o, {"w"}) /\ full(o, r.sz)
     /\ \/ r.nowait /\ SndGiveUp(t, m, "EAGAIN") /\ snds' = lists
        \/ ~ r.nowait /\ SndSleep(t, id, r, m, o, lists)
     /\ wake' = w
  \/ /\ ~ ipc_checkid(o, id) /\ ipcperms(t, o, {"w"}) /\ ~ full(o, r.sz)
     /\ \/ /\ \E i \in takers(o, r) :
                /\ \A j \in takers(o, r) : i <= j
                /\ SndHandOver(t, r, m, o, i, w)
        \/ takers(o, r) = {} /\ SndEnqueue(t, r, m, o, w)
     /\ snds' = lists
     /\ heap' = [heap EXCEPT ![m] = [type |-> r.type, ts |-> r.sz]]
     /\ Leave(t, Ok(0))

Msgsnd(t, id, r) ==
  /\ pc[t] = "idle"
  /\ r.sz \in 0 .. MsgMax /\ id >= 0 /\ r.type >= 1
  /\ \E m \in FreeMsg :
       \/ /\ ipc_lock(id) = NULL
          /\ SndGiveUp(t, m, "EINVAL") /\ UNCHANGED <<snds, wake>>
       \/ /\ ipc_lock(id) # NULL
          /\ SndSection(t, id, r, m, ipc_lock(id), snds, wake)
  /\ UNCHANGED <<idsVars, sem, info>>

\* rt_msgsnd after schedule() returned.
MsgsndWake(t) ==
  /\ pc[t] = "snd" /\ wake[t] > 0
  /\ LET o == ipc_lock(msqid[t])
         w == [wake EXCEPT ![t] = @ - 1]
         ss_del == IF killed[t] THEN snds
                   ELSE [snds EXCEPT ![msq[t]] = Without(@, {t})]
     IN  \/ /\ o = NULL
            /\ SndGiveUp(t, s_msg[t], "EIDRM") /\ wake' = w /\ UNCHANGED snds
         \/ /\ o # NULL /\ sig[t]
            /\ SndGiveUp(t, s_msg[t], "EINTR") /\ wake' = w /\ snds' = ss_del
         \/ /\ o # NULL /\ ~ sig[t]
            /\ SndSection(t, msqid[t], req[t], s_msg[t], o, ss_del, w)
  /\ UNCHANGED <<idsVars, sem, info>>

-----------------------------------------------------------------------------
\* The label out_success: the message is copied out, or the copy faults, and
\* it is freed in either case.
Delivered(t, r, m) ==
  /\ heap' = [heap EXCEPT ![m] = Free]
  /\ \E v \in {Ok(IF r.sz > heap[m].ts THEN heap[m].ts ELSE r.sz), Err("EFAULT")} :
       Leave(t, [v EXCEPT !.got = {[type |-> heap[m].type, args |-> r]}])
  /\ r_msg' = [r_msg EXCEPT ![t] = "none"]

RcvGiveUp(t, e) ==
  /\ Leave(t, Err(e))
  /\ r_msg' = [r_msg EXCEPT ![t] = "none"]
  /\ UNCHANGED <<qVars, counters, heap>>

\* The message at position i, of n bytes, is taken off the queue.
TakeOff(t, r, o, i, n) ==
  /\ msgs' = [msgs EXCEPT ![o] = DropAt(@, i)]
  /\ qnum' = [qnum EXCEPT ![o] = @ - 1]
  /\ cbytes' = [cbytes EXCEPT ![o] = @ - n]
  /\ msg_bytes' = msg_bytes - n
  /\ msg_hdrs' = msg_hdrs - 1
  /\ Delivered(t, r, msgs[o][i])
  /\ UNCHANGED <<acl, qbytes>>

NobodyWoken(t, r, o, i, w) ==
  TakeOff(t, r, o, i, heap[msgs[o][i]].ts) /\ wake' = w
CopiedBytesOnly(t, r, o, i, w) ==
  /\ \E n \in {r.sz, heap[msgs[o][i]].ts} :
       n <= r.sz /\ n <= heap[msgs[o][i]].ts /\ TakeOff(t, r, o, i, n)
  /\ wake' = resume(w, Range(snds[o]))
\* The senders are woken: ss_wakeup.
RcvTake(t, r, o, i, w) ==
  /\ TakeOff(t, r, o, i, heap[msgs[o][i]].ts)
  /\ wake' = resume(w, Range(snds[o]))

RcvSleep(t, id, r, o, lists) ==
  /\ rcvs' = [lists EXCEPT ![o] = Append(@, t)]
  /\ r_msg' = [r_msg EXCEPT ![t] = "EAGAIN"]
  /\ Stay(t, "rcv", id, o, r, "none")
  /\ UNCHANGED <<qVars, counters, heap>>

\* _rt_msgrcv from the label retry on, the queue o being locked.
RcvSection(t, id, r, o, lists, w) ==
  \/ /\ ipc_checkid(o, id)
     /\ RcvGiveUp(t, "EIDRM") /\ rcvs' = lists /\ wake' = w
  \/ /\ ~ ipc_checkid(o, id) /\ ~ ipcperms(t, o, {"r"})
     /\ RcvGiveUp(t, "EACCES") /\ rcvs' = lists /\ wake' = w
  \/ /\ ~ ipc_checkid(o, id) /\ ipcperms(t, o, {"r"})
     /\ \E i \in DOMAIN msgs[o] :
          /\ found(o, r, i)
          /\ \/ /\ r.sz < heap[msgs[o][i]].ts /\ ~ r.noerror
                /\ RcvGiveUp(t, "E2BIG") /\ wake' = w
             \/ /\ r.sz >= heap[msgs[o][i]].ts \/ r.noerror
                /\ RcvTake(t, r, o, i, w)
     /\ rcvs' = lists
  \/ /\ ~ ipc_checkid(o, id) /\ ipcperms(t, o, {"r"})
     /\ \A m \in Range(msgs[o]) : ~ testmsg(heap[m].type, r)
     /\ \/ r.nowait /\ RcvGiveUp(t, "ENOMSG") /\ rcvs' = lists
        \/ ~ r.nowait /\ RcvSleep(t, id, r, o, lists)
     /\ wake' = w

Msgrcv(t, id, r) ==
  /\ pc[t] = "idle"
  /\ \/ /\ id < 0 \/ r.sz < 0 \/ ipc_lock(id) = NULL
        /\ RcvGiveUp(t, "EINVAL") /\ UNCHANGED <<rcvs, wake>>
     \/ /\ id >= 0 /\ r.sz >= 0 /\ ipc_lock(id) # NULL
        /\ RcvSection(t, id, r, ipc_lock(id), rcvs, wake)
  /\ UNCHANGED <<idsVars, snds, sem, info>>

\* rt_msgrcv after schedule() returned.  On EAGAIN the code goes on with the
\* msq it had before it slept.
MsgrcvWake(t) ==
  /\ pc[t] = "rcv" /\ wake[t] > 0
  /\ LET w == [wake EXCEPT ![t] = @ - 1]
         list_del == [rcvs EXCEPT ![msq[t]] = Without(@, {t})]
     IN  \/ /\ r_msg[t] \in Msg
            /\ Delivered(t, req[t], r_msg[t])
            /\ wake' = w
            /\ UNCHANGED <<qVars, counters, rcvs, bug>>
         \/ /\ r_msg[t] \in {"EIDRM", "E2BIG"}
            /\ RcvGiveUp(t, r_msg[t]) /\ wake' = w /\ UNCHANGED <<rcvs, bug>>
         \/ /\ r_msg[t] = "EAGAIN"
            /\ bug' = (bug \/ ipc_lock(msqid[t]) = NULL)
            /\ \/ sig[t] /\ RcvGiveUp(t, "EINTR") /\ rcvs' = list_del /\ wake' = w
               \/ ~ sig[t] /\ RcvSection(t, msqid[t], req[t], msq[t], list_del, w)
  /\ UNCHANGED <<size, entries, in_use, max_id, seq, perm, snds, sem, info>>

-----------------------------------------------------------------------------
\* A signal arrives during a call; RTAI may or may not make the task ready.
Signal(t) ==
  /\ pc[t] \in {"snd", "rcv"} /\ ~ sig[t]
  /\ sig' = [sig EXCEPT ![t] = TRUE]
  /\ \/ UNCHANGED wake
     \/ wake[t] = 0 /\ wake' = [wake EXCEPT ![t] = 1]
  /\ ret' = NoRet
  /\ UNCHANGED <<idsVars, qVars, counters, rcvs, snds, heap, sem, frameVars,
                 r_msg, info>>

TaskNext(t) ==
  \/ \E r \in GetReqs : MsggetNew(t, r) \/ MsggetFail(t, r) \/ MsggetOld(t, r)
  \/ MsggetRet(t)
  \/ \E id \in CallIds : CtlStat(t, id) \/ CtlMsgStat(t, id) \/ CtlRefused(t, id)
  \/ CtlInfo(t) \/ CtlInfoRet(t) \/ CtlFault(t)
  \/ \E id \in CallIds, s \in SetReqs : CtlSet(t, id, s)
  \/ \E id \in CallIds : CtlRmid(t, id)
  \/ CtlRmidFree(t)
  \/ \E id \in CallIds, r \in SndReqs : MsgsndRefused(t, id, r) \/ Msgsnd(t, id, r)
  \/ MsgsndWake(t)
  \/ \E id \in CallIds, r \in RcvReqs : Msgrcv(t, id, r)
  \/ MsgrcvWake(t)
  \/ Signal(t)

SysvNext == \E t \in Task : TaskNext(t)

SysvSpec == SysvInit /\ [][SysvNext]_vars

\* The scheduler runs a task that is ready: each task that can go on inside a
\* call (it was resumed, or it holds ids->sem) eventually does.
Progress(t) ==
  MsggetRet(t) \/ CtlInfoRet(t) \/ CtlRmidFree(t) \/ MsgsndWake(t) \/ MsgrcvWake(t)

SysvFairSpec == SysvSpec /\ \A t \in Task : WF_vars(Progress(t))

-----------------------------------------------------------------------------
Live == {entries[lid] : lid \in Used}

Uid == {NULL} \cup {Cred[t].euid : t \in Task} \cup {s.uid : s \in SetReqs}
Gid == {NULL} \cup {Cred[t].egid : t \in Task} \cup {s.gid : s \in SetReqs}
Acl == [uid : Uid, gid : Gid, cuid : Uid, cgid : Gid, mode : Modes]

\* Types; a task asleep in a send or a receive has the arguments of that call.
SysvTypeOK ==
  /\ IdsTypeOK
  /\ acl \in [Obj -> Acl]
  /\ qbytes \in [Obj -> Nat] /\ qnum \in [Obj -> Int] /\ cbytes \in [Obj -> Int]
  /\ msgs \in [Obj -> Seq(Msg)]
  /\ rcvs \in [Obj -> Seq(Task)] /\ snds \in [Obj -> Seq(Task)]
  /\ heap \in [Msg -> [type : Int, ts : Int]]
  /\ msg_bytes \in Int /\ msg_hdrs \in Int
  /\ sem \in Task \cup {NoTask}
  /\ pc \in [Task -> {"idle", "getret", "info", "rmfree", "snd", "rcv"}]
  /\ msqid \in [Task -> Int]
  /\ msq \in [Task -> Obj \cup {NULL}]
  /\ req \in [Task -> SndArgs \cup RcvArgs \cup {NoReq}]
  /\ s_msg \in [Task -> Msg \cup {"none"}]
  /\ killed \in [Task -> BOOLEAN]
  /\ r_msg \in [Task -> Msg \cup {"none", "EAGAIN", "EIDRM", "E2BIG"}]
  /\ wake \in [Task -> Nat]
  /\ sig \in [Task -> BOOLEAN]
  /\ \A t \in Task : /\ pc[t] = "snd" => req[t] \in SndArgs
                     /\ pc[t] = "rcv" => req[t] \in RcvArgs

\* A receiver that still has to be found by senders (r_msg is EAGAIN) is in the
\* list of a queue that is in the table under the receiver's msqid, and every
\* listed receiver is such a sleeper.  So the BUG() at msg.c:885 is never
\* executed, the msq used after the retry at msg.c:890 is not freed memory, and
\* no sender writes to the stack of a receiver that has returned.
ReceiversListed ==
  /\ \A o \in Live, t \in Task :
       t \in Range(rcvs[o]) => pc[t] = "rcv" /\ msq[t] = o /\ r_msg[t] = "EAGAIN"
  /\ \A t \in Task :
       pc[t] = "rcv" /\ r_msg[t] = "EAGAIN" =>
         /\ msq[t] \in Live
         /\ t \in Range(rcvs[msq[t]])
         /\ ipc_lock(msqid[t]) = msq[t]

\* The same for sleeping senders: ss_del (msg.c:246) unlinks from a live queue,
\* or does nothing because freeque marked the record as dead.
SendersListed ==
  /\ \A o \in Live, t \in Task :
       t \in Range(snds[o]) => pc[t] = "snd" /\ msq[t] = o /\ ~ killed[t]
  /\ \A t \in Task :
       pc[t] = "snd" /\ ~ killed[t] =>
         /\ msq[t] \in Live
         /\ t \in Range(snds[msq[t]])
         /\ ipc_lock(msqid[t]) = msq[t]

\* A receiver asleep without a pending resume has a reason to sleep: its queue
\* exists and has not been taken away, no message on it is one it waits for,
\* and its permission to read was not withdrawn (comment at msg.c:580).
RcvSleepJustified ==
  \A t \in Task :
    pc[t] = "rcv" /\ wake[t] = 0 =>
      /\ r_msg[t] = "EAGAIN"
      /\ msq[t] \in Live
      /\ ipcperms(t, msq[t], {"r"})
      /\ \A m \in Range(msgs[msq[t]]) : ~ testmsg(heap[m].type, req[t])

\* A sender asleep without a pending resume has a reason to sleep: its queue
\* exists, it may write to it, and the message does not fit (msg.c:692).
SndSleepJustified ==
  \A t \in Task :
    pc[t] = "snd" /\ wake[t] = 0 =>
      /\ ~ killed[t]
      /\ msq[t] \in Live
      /\ ipcperms(t, msq[t], {"w"})
      /\ full(msq[t], req[t].sz)

\* A message has one owner: a place in one queue, a sleeping sender, or a
\* receiver it was handed to.  What is allocated has an owner (no leak), and
\* what has an owner is allocated (no use after free, no double free).
MessagesOwned ==
  /\ \A o \in Obj : IsInjective(msgs[o])
  /\ \A o, p \in Obj : o # p => Range(msgs[o]) \cap Range(msgs[p]) = {}
  /\ \A o \in Obj, t \in Task : s_msg[t] \notin Range(msgs[o])
                                /\ r_msg[t] \notin Range(msgs[o])
  /\ \A t, u \in Task :
       /\ s_msg[t] \in Msg => s_msg[t] # r_msg[u]
       /\ s_msg[t] \in Msg /\ s_msg[t] = s_msg[u] => t = u
       /\ r_msg[t] \in Msg /\ r_msg[t] = r_msg[u] => t = u
  /\ \A m \in Msg :
       heap[m] # Free <=> \/ \E o \in Obj : m \in Range(msgs[o])
                          \/ \E t \in Task : m \in {s_msg[t], r_msg[t]}

\* ids->sem is held exactly while a task is between down and up.
SemHeld ==
  \A t \in Task : pc[t] \in {"getret", "info", "rmfree"} <=> sem = t

\* The id that newque computes after msg_unlock (msg.c:128) names the queue this call
\* created: nobody can have removed it in between.
NewIdRight ==
  \A t \in Task :
    pc[t] = "getret" /\ pc'[t] = "idle" =>
      /\ ret'.val \in 0 .. INT_MAX
      /\ ipc_lock(ret'.val) = msq[t]
      /\ ~ ipc_checkid(msq[t], ret'.val)

\* What is returned after the lock was released is still right: a new id, and what
\* MSG_INFO says.  It never reports messages or bytes when it reports no queues,
\* though it reads the three numbers at different times and without ids->ary
\* (msg.c:460).
ReturnedRight ==
  [][/\ NewIdRight
     /\ ret'.code = "INFO" /\ ret'.pool = 0 => ret'.map = 0 /\ ret'.tql = 0]_vars

\* Every sleeper of a removed queue, and every receiver that was handed a
\* message or refused one, leaves its sleep.
SleepersTold ==
  \A t \in Task :
    /\ pc[t] = "rcv" /\ r_msg[t] # "EAGAIN" ~> pc[t] # "rcv"
    /\ killed[t] ~> ~ killed[t]

\* ids->sem is always given back.
SemReleased == \A t \in Task : sem = t ~> sem # t

\* Nobody waits for ever for an answer that was given or for ids->sem: both of the
\* above.
CallsEnd == SleepersTold /\ SemReleased
=============================================================================
