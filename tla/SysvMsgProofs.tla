---------------------------- MODULE SysvMsgProofs ----------------------------
(***************************************************************************)
(* Every call preserves the invariant of the message queues, so the sleep   *)
(* and wake-up protocol is correct for any number of tasks, queues and      *)
(* messages.                                                                *)
(***************************************************************************)
EXTENDS SysvCtlProofs, SysvSndProofs, SysvRcvProofs

\* Loading the module establishes the invariant.
LEMMA InitInv == SysvInit => Inv
<1> SUFFICES ASSUME SysvInit PROVE Inv
  BY Zenon
<1>1. IdsInv
  BY Zenon, InitTable DEF SysvInit
<1>2. Used = {} /\ Live = {}
  BY Zenon DEF SysvInit, IdsInit, Used, Live
<1>3. \A o \in Obj : msgs[o] = << >> /\ Range(msgs[o]) = {} /\ IsInjective(msgs[o])
  BY SMT, Z3 DEF SysvInit, Range, IsInjective
<1>4. SysvTypeOK
  <2>1. FreeAcl \in Acl
    BY Zenon DEF FreeAcl, Acl, Uid, Gid, Modes
  <2>2. acl \in [Obj -> Acl] /\ req \in [Task -> SndArgs \cup RcvArgs \cup {NoReq}]
    BY Zenon, <2>1 DEF SysvInit
  <2>3. /\ qbytes \in [Obj -> Nat] /\ qnum \in [Obj -> Int] /\ cbytes \in [Obj -> Int]
        /\ msgs \in [Obj -> Seq(Msg)] /\ rcvs \in [Obj -> Seq(Task)]
        /\ snds \in [Obj -> Seq(Task)] /\ heap \in [Msg -> [type : Int, ts : Int]]
        /\ msg_bytes \in Int /\ msg_hdrs \in Int /\ sem \in Task \cup {NoTask}
        /\ wake \in [Task -> Nat]
    BY SMT, Z3 DEF SysvInit, Free
  <2>4. /\ pc \in [Task -> {"idle", "getret", "info", "rmfree", "snd", "rcv"}]
        /\ msqid \in [Task -> Int] /\ msq \in [Task -> Obj \cup {NULL}]
        /\ s_msg \in [Task -> Msg \cup {"none"}]
        /\ r_msg \in [Task -> Msg \cup {"none", "EAGAIN", "EIDRM", "E2BIG"}]
        /\ killed \in [Task -> BOOLEAN] /\ sig \in [Task -> BOOLEAN]
        /\ \A t \in Task : pc[t] = "idle"
    BY SMT, Z3 DEF SysvInit
  <2>5. \A t \in Task : /\ pc[t] = "snd" => req[t] \in SndArgs
                        /\ pc[t] = "rcv" => req[t] \in RcvArgs
    BY Zenon, <2>4
  <2> QED BY <2>2, <2>3, <2>4, <2>5, <1>1, Zenon DEF SysvTypeOK, IdsInv, TableInv
<1>5. SemHeld
  BY Zenon, TaskAssumption DEF SysvInit, SemHeld
<1>6. FrameInv /\ Clean /\ Told
  BY Zenon, <1>2, <1>3 DEF SysvInit, FrameInv, Clean, Told
<1>7. ReceiversListed /\ SendersListed /\ NoMatch /\ Permitted
  BY Zenon, <1>2, <1>3 DEF SysvInit, ReceiversListed, SendersListed, NoMatch, Permitted
<1>8. MessagesOwned
  BY Zenon, <1>3, MsgAssumption DEF SysvInit, MessagesOwned
<1> QED BY Zenon, <1>1, <1>4, <1>5, <1>6, <1>7, <1>8 DEF Inv, IdsInv

\* So does an rt_msgget that found the table full and may have grown it.
LEMMA KeptWhenFull ==
  ASSUME ipc_addid_full, TableInv
  PROVE  TableKept
<1>1. TableInv' /\ Used' = Used /\ entries' = entries /\ bug' = bug
  BY Zenon, AddFullTable DEF ipc_addid_full
<1>2. size' >= size /\ size \in Nat /\ size' \in Nat
  BY SMT, Z3, NewSizeType DEF ipc_addid_full, grow_ary, TableInv, IdsTypeOK
<1>3. Live' = Live
  BY Zenon, <1>1 DEF Live
<1>4. ASSUME NEW id \in Int, ipc_lock(id) # NULL PROVE ipc_lock(id)' = ipc_lock(id)
  <2>1. lidOf(id) \in Nat
    BY SMT, Z3, Euclid, SlotAssumption DEF lidOf
  <2> QED BY SMT, Z3, <2>1, <1>1, <1>2, <1>4 DEF ipc_lock, lidOf
<1> QED BY Zenon, <1>1, <1>3, <1>4 DEF TableKept

\* Nothing moves, except that tasks are made ready.
LEMMA OnlyResumedInv ==
  ASSUME Inv, wake' \in [Task -> Nat], \A u \in Task : wake'[u] >= wake[u],
         sig' \in [Task -> BOOLEAN],
         UNCHANGED <<idsVars, qVars, counters, rcvs, snds, heap, sem, frameVars, r_msg>>
  PROVE  Inv'
<1>0. SysvTypeOK /\ TableInv
  BY Zenon DEF Inv
<1>1. TableKept
  BY Zenon, <1>0, KeptWhenUnchanged
<1>2. UNCHANGED <<pc, msqid, msq, req, s_msg, killed, acl, qbytes, cbytes, qnum, msgs,
                  entries, size, bug>>
  BY Zenon DEF frameVars, qVars, idsVars
<1>3. SysvTypeOK'
  BY Zenon, <1>0, <1>1, <1>2 DEF SysvTypeOK, TableKept, TableInv, counters
<1>4. TableInv' /\ NoBug'
  BY SMT, Z3, <1>1, <1>2 DEF Inv, NoBug, TableKept
<1>5. SemHeld' /\ FrameInv' /\ MessagesOwned'
  <2>1. SemHeld'
    BY Zenon, <1>2 DEF Inv, SemHeld
  <2>2. FrameInv'
    BY Zenon, <1>1, <1>2 DEF Inv, FrameInv, TableKept
  <2>3. MessagesOwned'
    BY Zenon, <1>2 DEF Inv, MessagesOwned
  <2> QED BY Zenon, <2>1, <2>2, <2>3
<1>6. Clean' /\ NoMatch'
  BY Zenon, <1>1, <1>2 DEF Inv, Clean, NoMatch, TableKept
<1>7. ReceiversListed'
  <2>1. \A id : ipc_lock(id)' = ipc_lock(id)
    BY Zenon, <1>2 DEF ipc_lock
  <2> QED BY <2>1, <1>1, <1>2 DEF Inv, ReceiversListed, TableKept
<1>8. SendersListed'
  <2>1. \A id : ipc_lock(id)' = ipc_lock(id)
    BY <1>2 DEF ipc_lock
  <2> QED BY Zenon, <2>1, <1>1, <1>2 DEF Inv, SendersListed, TableKept
<1>9. \A u \in Task : (wake[u] > 0 => wake'[u] > 0) /\ (wake'[u] = 0 => wake[u] = 0)
  BY SMT, Z3, <1>0 DEF SysvTypeOK
<1>10. Told'
  BY Zenon, <1>2, <1>9 DEF Inv, Told
<1>11. Permitted'
  <2>1. /\ \A u, o, x : ipcperms(u, o, x)' = ipcperms(u, o, x)
        /\ \A o, sz : full(o, sz)' = full(o, sz)
    BY Zenon, <1>2, SameAcl, SameFull
  <2>2. ASSUME NEW u \in Task, pc'[u] = "rcv", wake'[u] = 0
        PROVE  ipcperms(u, msq[u], {"r"})'
    <3>1. ipcperms(u, msq[u], {"r"}) /\ msq' = msq
      BY Zenon, <2>2, <1>2, <1>9 DEF Inv, Permitted
    <3> QED BY Zenon, <3>1, <2>1
  <2>3. ASSUME NEW u \in Task, pc'[u] = "snd", wake'[u] = 0
        PROVE  ipcperms(u, msq[u], {"w"})' /\ full(msq[u], req[u].sz)'
    <3>1. ipcperms(u, msq[u], {"w"}) /\ full(msq[u], req[u].sz) /\ msq' = msq /\ req' = req
      BY Zenon, <2>3, <1>2, <1>9 DEF Inv, Permitted
    <3> QED BY Zenon, <3>1, <2>1
  <2> QED BY Zenon, <2>2, <2>3 DEF Permitted
<1> QED BY Zenon, <1>3, <1>4, <1>5, <1>6, <1>7, <1>8, <1>10, <1>11 DEF Inv

\* A signal preserves the invariant.
LEMMA SignalInv ==
  ASSUME Inv, NEW t \in Task, Signal(t)
  PROVE  Inv'
<1>1. UNCHANGED <<idsVars, qVars, counters, rcvs, snds, heap, sem, frameVars, r_msg>>
  BY Zenon DEF Signal
<1>2. wake \in [Task -> Nat] /\ sig \in [Task -> BOOLEAN]
  BY Zenon DEF Inv, SysvTypeOK
<1>3. sig' \in [Task -> BOOLEAN]
  BY Zenon, <1>2 DEF Signal
<1>4. wake' \in [Task -> Nat] /\ \A u \in Task : wake'[u] >= wake[u]
  <2>1. CASE wake' = wake
    BY SMT, Z3, <2>1, <1>2
  <2>2. CASE wake[t] = 0 /\ wake' = [wake EXCEPT ![t] = 1]
    BY SMT, Z3, <2>2, <1>2
  <2> QED BY Zenon, <2>1, <2>2 DEF Signal
<1> QED BY Zenon, <1>1, <1>3, <1>4, OnlyResumedInv

\* A step of something else preserves the invariant.
LEMMA StutterInv ==
  ASSUME Inv, UNCHANGED vars
  PROVE  Inv'
<1>1. wake \in [Task -> Nat] /\ sig \in [Task -> BOOLEAN]
  BY Zenon DEF Inv, SysvTypeOK
<1>2. UNCHANGED <<idsVars, qVars, counters, rcvs, snds, heap, sem, frameVars, r_msg,
                  wake, sig>>
  BY Zenon DEF vars
<1>3. wake' \in [Task -> Nat] /\ \A u \in Task : wake'[u] >= wake[u]
  BY SMT, Z3, <1>1, <1>2
<1>4. sig' \in [Task -> BOOLEAN]
  BY Zenon, <1>1, <1>2
<1> QED BY Zenon, <1>2, <1>3, <1>4, OnlyResumedInv

\* The end of rt_msgget and of MSG_INFO: ids->sem is given back.
LEMMA SemGivenBackInv ==
  ASSUME Inv, NEW t \in Task, MsggetRet(t) \/ CtlInfoRet(t)
  PROVE  Inv'
<1>1. PICK v : /\ pc[t] \in {"getret", "info"} /\ Leave(t, v) /\ sem' = NoTask
               /\ UNCHANGED <<idsVars, qVars, counters, rcvs, snds, heap, r_msg, wake>>
  BY Zenon DEF MsggetRet, CtlInfoRet, GetRet, InfoRet
<1>2. TableKept
  BY Zenon, <1>1, KeptWhenUnchanged DEF Inv
<1>3. SemHeld'
  <2>1. /\ pc'[t] = "idle" /\ \A u \in Task : u # t => pc'[u] = pc[u]
    BY Zenon, <1>1 DEF Inv, SysvTypeOK, Leave
  <2>2. sem = t
    BY Zenon, <1>1 DEF Inv, SemHeld
  <2>3. \A u \in Task : u # t => pc[u] \notin {"getret", "info", "rmfree"}
    BY Zenon, <2>2 DEF Inv, SemHeld
  <2> QED BY Zenon, <2>1, <2>3, <1>1, TaskAssumption DEF SemHeld
<1> QED BY SMT, Z3, <1>1, <1>2, <1>3, QuietLeave

\* An rt_msgget without memory or without a slot preserves the invariant.
LEMMA MsggetFailInv ==
  ASSUME Inv, NEW t \in Task, NEW r \in GetReqs, MsggetFail(t, r)
  PROVE  Inv'
<1>1. PICK v : /\ pc[t] = "idle" /\ Leave(t, v) /\ sem' = sem
               /\ UNCHANGED <<qVars, counters, rcvs, snds, heap, r_msg, wake>>
               /\ UNCHANGED idsVars \/ ipc_addid_full
  BY Zenon DEF MsggetFail
<1>2. TableKept
  BY Zenon, <1>1, KeptWhenUnchanged, KeptWhenFull DEF Inv
<1>3. SemHeld' /\ sem' \in Task \cup {NoTask}
  BY Zenon, <1>1 DEF Inv, SemHeld, SysvTypeOK, Leave
<1> QED BY SMT, Z3, <1>1, <1>2, <1>3, QuietLeave

\* Every step of every task preserves the invariant.
LEMMA NextInv ==
  ASSUME Inv, [SysvNext]_vars
  PROVE  Inv'
<1>1. CASE UNCHANGED vars
  BY Zenon, <1>1, StutterInv
<1>2. ASSUME NEW t \in Task, TaskNext(t)
      PROVE  Inv'
  <2>1. ASSUME NEW r \in GetReqs, MsggetNew(t, r)
        PROVE  Inv'
    BY Zenon, <2>1, MsggetNewInv
  <2>2. ASSUME NEW r \in GetReqs, MsggetFail(t, r)
        PROVE  Inv'
    BY Zenon, <2>2, MsggetFailInv
  <2>3. ASSUME NEW r \in GetReqs, MsggetOld(t, r)
        PROVE  Inv'
    <3>1. pc[t] = "idle" /\ \E v : Refuse(t, v)
      BY Zenon, <2>3 DEF MsggetOld
    <3> QED BY Zenon, <3>1, RefuseInv
  <2>4. CASE MsggetRet(t) \/ CtlInfoRet(t)
    BY Zenon, <2>4, SemGivenBackInv
  <2>5. ASSUME NEW id \in CallIds,
               CtlStat(t, id) \/ CtlMsgStat(t, id) \/ CtlRefused(t, id)
        PROVE  Inv'
    <3>1. pc[t] = "idle" /\ \E v : Refuse(t, v)
      BY Zenon, <2>5 DEF CtlStat, CtlMsgStat, CtlRefused
    <3> QED BY <3>1, RefuseInv
  <2>6. CASE CtlInfo(t)
    BY Zenon, <2>6, CtlInfoInv
  <2>7. CASE CtlFault(t)
    BY Zenon, <2>7, RefuseInv DEF CtlFault
  <2>8. ASSUME NEW id \in CallIds, NEW s \in SetReqs, CtlSet(t, id, s)
        PROVE  Inv'
    BY Zenon, <2>8, CtlSetInv
  <2>9. ASSUME NEW id \in CallIds, CtlRmid(t, id)
        PROVE  Inv'
    BY <2>9, CtlRmidInv
  <2>10. CASE CtlRmidFree(t)
    BY <2>10, CtlRmidFreeInv
  <2>11. ASSUME NEW id \in CallIds, NEW r \in SndReqs, MsgsndRefused(t, id, r)
         PROVE  Inv'
    <3>1. pc[t] = "idle" /\ \E v : Refuse(t, v)
      BY Zenon, <2>11 DEF MsgsndRefused
    <3> QED BY Zenon, <3>1, RefuseInv
  <2>12. ASSUME NEW id \in CallIds, NEW r \in SndReqs, Msgsnd(t, id, r)
         PROVE  Inv'
    BY <2>12, MsgsndInv
  <2>13. CASE MsgsndWake(t)
    BY <2>13, MsgsndWakeInv
  <2>14. ASSUME NEW id \in CallIds, NEW r \in RcvReqs, Msgrcv(t, id, r)
         PROVE  Inv'
    BY <2>14, MsgrcvInv
  <2>15. CASE MsgrcvWake(t)
    BY <2>15, MsgrcvWakeInv
  <2>16. CASE Signal(t)
    BY <2>16, SignalInv
  <2> QED BY Zenon, <1>2, <2>1, <2>2, <2>3, <2>4, <2>5, <2>6, <2>7, <2>8, <2>9, <2>10,
             <2>11, <2>12, <2>13, <2>14, <2>15, <2>16 DEF TaskNext
<1> QED BY Zenon, <1>1, <1>2 DEF SysvNext

\* The invariant holds in every reachable state.
LEMMA AlwaysInv == SysvSpec => []Inv
<1>1. SysvInit => Inv
  BY Zenon, InitInv
<1>2. Inv /\ [SysvNext]_vars => Inv'
  BY Zenon, NextInv
<1> QED BY <1>1, <1>2, PTL DEF SysvSpec

\* The state of the message queues always has its type.
THEOREM SysvTypeCorrect == SysvSpec => []SysvTypeOK
<1>1. Inv => SysvTypeOK
  BY Zenon DEF Inv
<1> QED BY <1>1, AlwaysInv, PTL

\* The list of receivers of a live queue holds exactly the calls that wait for a
\* message on it, so that an expunge or a hand-over reaches each of them (msg.c:580).
THEOREM ReceiversAreListed == SysvSpec => []ReceiversListed
<1>1. Inv => ReceiversListed
  BY Zenon DEF Inv
<1> QED BY <1>1, AlwaysInv, PTL

\* The list of senders holds exactly the calls that wait for room and were not told
\* yet that the queue is gone or may have room (msg.c:451, 458).
THEOREM SendersAreListed == SysvSpec => []SendersListed
<1>1. Inv => SendersListed
  BY Zenon DEF Inv
<1> QED BY <1>1, AlwaysInv, PTL

\* No BUG() of ipc_rmid is reached through the calls, for any number of tasks,
\* queues and messages (util.c:202, 206).
THEOREM CallsReachNoBug == SysvSpec => []NoBug
<1>1. Inv => NoBug
  BY Zenon DEF Inv
<1> QED BY <1>1, AlwaysInv, PTL

\* No wake-up is lost: a receiver that sleeps and is not about to run has no
\* message to take, and keeps its right to read (msg.c:580).
THEOREM NoLostReceiver == SysvSpec => []RcvSleepJustified
<1>1. Inv => RcvSleepJustified
  <2> SUFFICES ASSUME Inv, NEW t \in Task, pc[t] = "rcv", wake[t] = 0
               PROVE  /\ r_msg[t] = "EAGAIN" /\ msq[t] \in Live
                      /\ ipcperms(t, msq[t], {"r"})
                      /\ \A m \in Range(msgs[msq[t]]) : ~ testmsg(heap[m].type, req[t])
    BY Zenon DEF RcvSleepJustified
  <2>1. r_msg[t] = "EAGAIN"
    BY SMT, Z3 DEF Inv, Told
  <2>2. msq[t] \in Live /\ t \in Range(rcvs[msq[t]])
    BY Zenon, <2>1 DEF Inv, ReceiversListed
  <2>3. ipcperms(t, msq[t], {"r"})
    BY Zenon DEF Inv, Permitted
  <2>4. Range(msgs[msq[t]]) \subseteq Msg
    BY Zenon, <2>2, LiveFacts, MsgsTyped DEF Inv
  <2>5. \A m \in Range(msgs[msq[t]]) : ~ testmsg(heap[m].type, req[t])
    BY Zenon, <2>2, <2>4 DEF Inv, NoMatch
  <2> QED BY Zenon, <2>1, <2>2, <2>3, <2>5
<1> QED BY <1>1, AlwaysInv, PTL

\* The same for senders: one that sleeps and is not about to run has a message
\* that does not fit (msg.c:692).
THEOREM NoLostSender == SysvSpec => []SndSleepJustified
<1>1. Inv => SndSleepJustified
  <2> SUFFICES ASSUME Inv, NEW t \in Task, pc[t] = "snd", wake[t] = 0
               PROVE  /\ ~ killed[t] /\ msq[t] \in Live
                      /\ ipcperms(t, msq[t], {"w"}) /\ full(msq[t], req[t].sz)
    BY Zenon DEF SndSleepJustified
  <2>1. ~ killed[t]
    <3>1. ~ (wake[t] > 0)
      BY SMT, Z3
    <3>2. killed[t] => wake[t] > 0
      BY Zenon DEF Inv, Told
    <3> QED BY <3>1, <3>2, Zenon
  <2>2. msq[t] \in Live
    BY Zenon, <2>1 DEF Inv, SendersListed
  <2>3. ipcperms(t, msq[t], {"w"}) /\ full(msq[t], req[t].sz)
    BY Zenon DEF Inv, Permitted
  <2> QED BY Zenon, <2>1, <2>2, <2>3
<1> QED BY <1>1, AlwaysInv, PTL

\* Messages are neither leaked nor freed twice nor used after they were freed.
THEOREM OneOwner == SysvSpec => []MessagesOwned
<1>1. Inv => MessagesOwned
  BY Zenon DEF Inv
<1> QED BY <1>1, AlwaysInv, PTL

\* ids->sem has one holder, and it is inside a call.
THEOREM SemaphoreHeld == SysvSpec => []SemHeld
<1>1. Inv => SemHeld
  BY Zenon DEF Inv
<1> QED BY <1>1, AlwaysInv, PTL

-----------------------------------------------------------------------------
\* rt_msgget and the informative commands of rt_msgctl do not show.
LEMMA TableCallStep ==
  ASSUME Inv, NEW t \in Task,
         \/ \E r \in GetReqs : MsggetFail(t, r) \/ MsggetOld(t, r)
         \/ MsggetRet(t) \/ CtlInfo(t) \/ CtlInfoRet(t) \/ CtlFault(t)
         \/ \E id \in CallIds : CtlStat(t, id) \/ CtlMsgStat(t, id) \/ CtlRefused(t, id)
         \/ \E id \in CallIds, r \in SndReqs : MsgsndRefused(t, id, r)
  PROVE  Typed!QueueNext
<1>0. NoRet.got = {} /\ \A c : Err(c).got = {} /\ Ok(c).got = {}
  BY Zenon, NothingGot
<1>1. CASE \/ \E r \in GetReqs : MsggetOld(t, r)
           \/ CtlFault(t)
           \/ \E id \in CallIds : CtlStat(t, id) \/ CtlMsgStat(t, id) \/ CtlRefused(t, id)
           \/ \E id \in CallIds, r \in SndReqs : MsgsndRefused(t, id, r)
  <2>1. pc[t] = "idle" /\ \E v : Refuse(t, v) /\ v.got = {}
    <3>1. ASSUME NEW r \in GetReqs, MsggetOld(t, r)
          PROVE  pc[t] = "idle" /\ \E v : Refuse(t, v) /\ v.got = {}
      BY Zenon, <1>0, <3>1 DEF MsggetOld
    <3>2. ASSUME NEW id \in CallIds, CtlStat(t, id) \/ CtlRefused(t, id)
          PROVE  pc[t] = "idle" /\ \E v : Refuse(t, v) /\ v.got = {}
      BY Zenon, <1>0, <3>2 DEF CtlStat, CtlRefused
    <3>3. ASSUME NEW id \in CallIds, CtlMsgStat(t, id)
          PROVE  pc[t] = "idle" /\ \E v : Refuse(t, v) /\ v.got = {}
      BY Zenon, <1>0, <3>3 DEF CtlMsgStat
    <3>4. ASSUME NEW id \in CallIds, NEW r \in SndReqs, MsgsndRefused(t, id, r)
          PROVE  pc[t] = "idle" /\ \E v : Refuse(t, v) /\ v.got = {}
      BY Zenon, <1>0, <3>4 DEF MsgsndRefused
    <3> QED BY Zenon, <1>0, <1>1, <3>1, <3>2, <3>3, <3>4 DEF CtlFault
  <2> QED BY Zenon, <2>1, RefuseStep
<1>2. CASE \/ \E r \in GetReqs : MsggetFail(t, r)
           \/ MsggetRet(t) \/ CtlInfo(t) \/ CtlInfoRet(t)
  <2>1. /\ pc[t] # "rcv" /\ r_msg' = r_msg /\ heap' = heap /\ msgs' = msgs
        /\ entries' = entries
    BY Zenon, <1>2 DEF MsggetFail, MsggetRet, CtlInfo, CtlInfoRet, GetRet, InfoRet,
         qVars, idsVars, ipc_addid_full, grow_ary
  <2>2. Frames(t)
    <3>1. (\E v : Leave(t, v)) \/ Stay(t, "info", -1, NULL, NoReq, "none")
      BY Zenon, <1>2 DEF MsggetFail, MsggetRet, CtlInfo, CtlInfoRet, GetRet, InfoRet
    <3>2. -1 \in Int /\ ("info" = "snd" => NoReq \in SndArgs)
          /\ ("info" = "rcv" => NoReq \in RcvArgs)
      BY SMT, Z3
    <3>3. Stay(t, "info", -1, NULL, NoReq, "none") => Frames(t)
      BY Zenon, <3>2, StayFrames DEF Inv
    <3> QED BY Zenon, <3>1, <3>3, LeaveFrames DEF Inv
  <2>3. ret'.got = {}
    <3>1. CASE CtlInfoRet(t)
      BY SMT, Z3, <3>1 DEF CtlInfoRet, InfoRet, Leave
    <3>2. CASE MsggetRet(t)
      BY Zenon, <1>0, <3>2 DEF MsggetRet, GetRet, Leave
    <3>3. CASE CtlInfo(t)
      BY Zenon, <1>0, <3>3 DEF CtlInfo, Stay
    <3>4. ASSUME NEW r \in GetReqs, MsggetFail(t, r) PROVE ret'.got = {}
      BY Zenon, <1>0, <3>4 DEF MsggetFail, Leave
    <3> QED BY Zenon, <1>2, <3>1, <3>2, <3>3, <3>4
  <2>4. SameReaders(t)
    BY Zenon, <2>1, <2>2, FramesReaders
  <2>5. SameContent
    BY Zenon, <2>1 DEF SameContent, Live, Used
  <2> QED BY Zenon, <2>1, <2>3, <2>4, <2>5, QuietStep
<1> QED BY Zenon, <1>1, <1>2

\* A new queue is empty.
LEMMA MsggetNewStep ==
  ASSUME Inv, NEW t \in Task, NEW r \in GetReqs, MsggetNew(t, r)
  PROVE  Typed!QueueNext
<1>1. PICK o \in FreeObj, lid \in Slots :
        /\ r.key = IPC_PRIVATE \/ WithKey(r.key) = {}
        /\ ipc_addid(o, r.key, lid) /\ msgs' = [msgs EXCEPT ![o] = << >>]
        /\ Stay(t, "getret", lid, o, NoReq, "none")
  BY Zenon DEF MsggetNew
<1>2. pc[t] = "idle" /\ heap' = heap /\ r_msg' = r_msg
  BY Zenon DEF MsggetNew
<1>3. SysvTypeOK /\ TableInv /\ Live \subseteq Obj
  BY Zenon, LiveFacts DEF Inv
<1>4. o \in Obj /\ o \notin Live
  BY Zenon, <1>3 DEF FreeObj, Live, Used
<1>5. Live' = Live \cup {o}
  <2>1. Used' = Used \cup {lid}
    BY Zenon, <1>1, <1>3, <1>4, AddIdTable, GetAssumption DEF FreeObj, MsggetNew
  <2>2. entries' = [entries EXCEPT ![lid] = o] /\ entries \in [Slots -> Obj \cup {NULL}]
    BY Zenon, <1>1, <1>3 DEF ipc_addid, TableInv, IdsTypeOK
  <2>3. lid \notin Used
    BY Zenon, <1>1, <1>3, <1>4, AddIdTable, GetAssumption DEF FreeObj, MsggetNew
  <2> QED BY Zenon, <2>1, <2>2, <2>3 DEF Live, Used
<1>6. SameContent
  <2>1. \A p \in Live : msgs'[p] = msgs[p]
    BY Zenon, <1>1, <1>3, <1>4 DEF SysvTypeOK
  <2>2. msgs'[o] = << >>
    BY Zenon, <1>1, <1>4, <1>3 DEF SysvTypeOK
  <2> QED BY Zenon, <2>1, <2>2, <1>2, <1>5 DEF SameContent
<1>7. Frames(t)
  <2>1. lid \in Int /\ ("getret" = "snd" => NoReq \in SndArgs)
        /\ ("getret" = "rcv" => NoReq \in RcvArgs)
    BY SMT, Z3, SlotAssumption DEF Slots
  <2> QED BY Zenon, <2>1, <1>1, <1>3, <1>4, StayFrames
<1>8. SameReaders(t)
  BY Zenon, <1>2, <1>7, FramesReaders
<1>9. ret'.got = {}
  BY Zenon, <1>1, NothingGot DEF Stay
<1> QED BY Zenon, <1>2, <1>6, <1>8, <1>9, QuietStep

\* IPC_SET tells the receivers what they were told already.
LEMMA CtlSetStep ==
  ASSUME Inv, NEW t \in Task, NEW id \in CallIds, NEW s \in SetReqs, CtlSet(t, id, s)
  PROVE  Typed!QueueNext
<1> DEFINE o == ipc_lock(id)
<1>1. CASE Refuse(t, Err("EPERM"))
  BY Zenon, <1>1, NothingGot, RefuseStep DEF CtlSet
<1>2. CASE ~ Refuse(t, Err("EPERM"))
  <2>1. /\ pc[t] = "idle" /\ refusal(id) = "" /\ r_msg' = expunge(o, "EAGAIN")
        /\ Leave(t, Ok(0)) /\ heap' = heap /\ msgs' = msgs /\ entries' = entries
    BY Zenon, <1>2 DEF CtlSet, idsVars
  <2>2. id \in Int /\ o # NULL
    BY SMT, Z3, <2>1, CallIdAssumption, WidthAssumption DEF refusal
  <2>3. o \in Live
    BY Zenon, <2>2, LockLive DEF Inv
  <2> HIDE DEF o
  <2>4. r_msg' = r_msg
    <3>1. \A u \in Task : u \in Range(rcvs[o]) => r_msg[u] = "EAGAIN"
      BY Zenon, <2>3 DEF Inv, ReceiversListed
    <3>2. \A u \in Task : r_msg'[u] = r_msg[u]
      BY Zenon, <3>1, <2>1 DEF expunge
    <3> QED BY Zenon, <3>2, <2>1 DEF Inv, SysvTypeOK, expunge
  <2>5. Frames(t)
    BY Zenon, <2>1, LeaveFrames DEF Inv
  <2>6. SameReaders(t)
    BY Zenon, <2>1, <2>4, <2>5, FramesReaders
  <2>7. SameContent
    BY Zenon, <2>1 DEF SameContent, Live, Used
  <2>8. ret'.got = {}
    BY Zenon, <2>1, NothingGot DEF Leave
  <2> QED BY Zenon, <2>1, <2>4, <2>6, <2>7, <2>8, QuietStep
<1> QED BY Zenon, <1>1, <1>2

\* IPC_RMID empties the queue and sends its readers away.
LEMMA CtlRmidStep ==
  ASSUME Inv, NEW t \in Task, NEW id \in CallIds, CtlRmid(t, id)
  PROVE  Typed!QueueNext
<1> DEFINE o == ipc_lock(id)
<1>0. SysvTypeOK /\ TableInv /\ FrameInv
  BY Zenon DEF Inv
<1>1. /\ pc[t] = "idle" /\ refusal(id) = "" /\ ipc_rmid(id)
      /\ r_msg' = expunge(o, "EIDRM")
      /\ pc' = [pc EXCEPT ![t] = "rmfree"] /\ msq' = [msq EXCEPT ![t] = o]
      /\ heap' = heap /\ msgs' = msgs /\ req' = req /\ ret' = NoRet
  BY Zenon DEF CtlRmid, qVars
<1>2. id \in Int /\ id \in 0 .. INT_MAX /\ o # NULL
  BY SMT, Z3, <1>1, CallIdAssumption, WidthAssumption DEF refusal
<1>3. o \in Live /\ o \in Obj
  BY Zenon, <1>0, <1>2, LockLive
<1>4. /\ Used' = Used \ {lidOf(id)} /\ entries[lidOf(id)] = o /\ lidOf(id) \in Used
      /\ entries' = [entries EXCEPT ![lidOf(id)] = NULL]
  BY Zenon, <1>0, <1>1, <1>2, RmIdTable DEF ipc_rmid
<1> HIDE DEF o
<1>5. Live' = Live \ {o}
  <2>1. \A j \in Used : j # lidOf(id) => entries'[j] = entries[j] /\ entries[j] # o
    BY SMT, Z3, <1>0, <1>4 DEF TableInv, TableShape, Used, IdsTypeOK
  <2> QED BY Zenon, <2>1, <1>4 DEF Live
<1>6. Content' = [Content EXCEPT ![o] = << >>]
  <2>1. \A p \in Obj : Content'[p] = IF p = o THEN << >> ELSE Content[p]
    BY Zenon, <1>1, <1>5 DEF Content
  <2> QED BY Zenon, <2>1 DEF Content
<1>7. \A u \in Task : /\ u \in Range(rcvs[o]) <=> pc[u] = "rcv" /\ r_msg[u] = "EAGAIN"
                                                   /\ msq[u] = o
                      /\ r_msg'[u] = IF u \in Range(rcvs[o]) THEN "EIDRM" ELSE r_msg[u]
  BY Zenon, <1>1, <1>3 DEF Inv, ReceiversListed, expunge
<1>8. \A u \in Task : pc'[u] = (IF u = t THEN "rmfree" ELSE pc[u])
                      /\ msq'[u] = IF u = t THEN o ELSE msq[u]
  BY Zenon, <1>0, <1>1 DEF SysvTypeOK
<1>9. \A u \in Task : (\E w \in Waiting[u] : w.queue = o) <=> u \in Range(rcvs[o])
  <2> TAKE u \in Task
  <2>1. Waiting[u] = IF pc[u] = "rcv" /\ r_msg[u] = "EAGAIN"
                     THEN {[queue |-> msq[u], args |-> req[u]]} ELSE {}
    BY Zenon, ReaderView
  <2>2. [queue |-> msq[u], args |-> req[u]].queue = msq[u]
    BY Zenon
  <2> QED BY Zenon, <2>1, <2>2, <1>7
<1>10. Waiting' = Typed!Released({u \in Task : \E w \in Waiting[u] : w.queue = o})
  <2>1. ASSUME NEW u \in Task
        PROVE  Waiting'[u] = IF u \in Range(rcvs[o]) THEN {} ELSE Waiting[u]
    <3>1. CASE u \in Range(rcvs[o])
      BY Zenon, <3>1, <1>7, ReaderView
    <3>2. CASE u \notin Range(rcvs[o]) /\ u = t
      <4>1. pc[u] = "idle" /\ pc'[u] = "rmfree"
        BY Zenon, <3>2, <1>1, <1>8
      <4> QED BY Zenon, <3>2, <4>1, ReaderView
    <3>3. CASE u \notin Range(rcvs[o]) /\ u # t
      <4>1. /\ pc'[u] = pc[u] /\ msq'[u] = msq[u] /\ req'[u] = req[u]
            /\ r_msg'[u] = r_msg[u]
        BY Zenon, <3>3, <1>1, <1>7, <1>8
      <4> QED BY Zenon, <3>3, <4>1, ReaderView
    <3> QED BY Zenon, <3>1, <3>2, <3>3
  <2> QED BY Zenon, <2>1, <1>9 DEF Waiting, Typed!Released
<1>11. Handed' = Handed
  <2>1. ASSUME NEW u \in Task PROVE Handed'[u] = Handed[u]
    <3>1. CASE u \in Range(rcvs[o])
      <4>1. r_msg[u] \notin Msg /\ r_msg'[u] \notin Msg
        BY Zenon, <3>1, <1>7, MsgAssumption
      <4> QED BY Zenon, <4>1, ReaderView
    <3>2. CASE u \notin Range(rcvs[o])
      BY Zenon, <3>2, <1>1, <1>7, ReaderView
    <3> QED BY Zenon, <3>1, <3>2
  <2> QED BY Zenon, <2>1 DEF Handed
<1>12. ret'.got = {}
  BY Zenon, <1>1, NothingGot
<1>13. Typed!Remove(o)
  BY Zenon, <1>6, <1>10, <1>11, <1>12 DEF Typed!Remove
<1> QED BY Zenon, <1>3, <1>13 DEF Typed!QueueNext

\* Freeing the messages of a removed queue does not show.
LEMMA CtlRmidFreeStep ==
  ASSUME Inv, NEW t \in Task, CtlRmidFree(t)
  PROVE  Typed!QueueNext
<1> DEFINE o == msq[t]
<1>0. SysvTypeOK /\ TableInv /\ FrameInv /\ MessagesOwned /\ Live \subseteq Obj
  BY Zenon, LiveFacts DEF Inv
<1>1. /\ pc[t] = "rmfree"
      /\ heap' = [m \in Msg |-> IF m \in Range(msgs[o]) THEN Free ELSE heap[m]]
      /\ msgs' = [msgs EXCEPT ![o] = << >>] /\ Leave(t, Ok(0))
      /\ entries' = entries /\ r_msg' = r_msg
  BY Zenon DEF CtlRmidFree, RmidFree, idsVars
<1>2. o \in Obj /\ o \notin Live
  BY Zenon, <1>0, <1>1 DEF FrameInv
<1> HIDE DEF o
<1>3. SameContent
  <2>1. Live' = Live
    BY Zenon, <1>1 DEF Live, Used
  <2>2. ASSUME NEW p \in Live PROVE msgs'[p] = msgs[p]
    BY Zenon, <1>0, <1>1, <1>2 DEF SysvTypeOK
  <2>3. ASSUME NEW p \in Live, NEW x \in Range(msgs[p]) PROVE heap'[x] = heap[x]
    <3>1. x \in Msg /\ x \notin Range(msgs[o])
      BY Zenon, <1>0, <1>2, MsgsTyped DEF MessagesOwned
    <3> QED BY Zenon, <3>1, <1>1
  <2> QED BY Zenon, <2>1, <2>2, <2>3 DEF SameContent
<1>4. \A u \in Task : r_msg[u] \in Msg => heap'[r_msg[u]] = heap[r_msg[u]]
  BY Zenon, <1>0, <1>1, <1>2 DEF MessagesOwned
<1>5. Frames(t)
  BY Zenon, <1>0, <1>1, LeaveFrames
<1>6. SameReaders(t)
  BY Zenon, <1>1, <1>4, <1>5, FramesReaders
<1>7. ret'.got = {}
  BY Zenon, <1>1, NothingGot DEF Leave
<1> QED BY Zenon, <1>1, <1>3, <1>6, <1>7, QuietStep

\* What a step of a call leaves it doing, as far as its request matters.
MovesOn(t) ==
  \/ \E v : Leave(t, v)
  \/ \E at, id, o, r, m : Stay(t, at, id, o, r, m) /\ (at = "snd" => r \in SndReqs)
  \/ pc' = [pc EXCEPT ![t] = "rmfree"] /\ req' = req
  \/ UNCHANGED <<pc, req>>

\* The senders asleep after such a step asked what rt_msgsnd may be asked.
LEMMA AskedKept ==
  ASSUME SysvTypeOK, Asked, NEW t \in Task, MovesOn(t)
  PROVE  Asked'
<1>0. DOMAIN pc = Task /\ DOMAIN req = Task
  BY Zenon DEF SysvTypeOK
<1>1. CASE \E v : Leave(t, v)
  <2>1. pc' = [pc EXCEPT ![t] = "idle"] /\ req' = [req EXCEPT ![t] = NoReq]
    BY Zenon, <1>1 DEF Leave
  <2> QED BY SMT, Z3, <1>0, <2>1 DEF Asked
<1>2. CASE \E at, id, o, r, m : Stay(t, at, id, o, r, m) /\ (at = "snd" => r \in SndReqs)
  <2>1. PICK at, r : /\ pc' = [pc EXCEPT ![t] = at] /\ req' = [req EXCEPT ![t] = r]
                     /\ at = "snd" => r \in SndReqs
    BY Zenon, <1>2 DEF Stay
  <2> QED BY SMT, Z3, <1>0, <2>1 DEF Asked
<1>3. CASE pc' = [pc EXCEPT ![t] = "rmfree"] /\ req' = req
  BY SMT, Z3, <1>0, <1>3 DEF Asked
<1>4. CASE UNCHANGED <<pc, req>>
  BY Zenon, <1>4 DEF Asked
<1> QED BY Zenon, <1>1, <1>2, <1>3, <1>4 DEF MovesOn

\* rt_msgsnd goes to sleep with its own request.
LEMMA SendAsks ==
  ASSUME Asked, NEW t \in Task,
         MsgsndWake(t) \/ \E id \in CallIds, r \in SndReqs : Msgsnd(t, id, r)
  PROVE  MovesOn(t)
<1>1. ASSUME NEW id, NEW r \in SndReqs, NEW m, NEW o, NEW lists, NEW w,
             SndSection(t, id, r, m, o, lists, w)
      PROVE  MovesOn(t)
  BY Zenon, <1>1 DEF SndSection, SndGiveUp, SndSleep, MovesOn
<1>2. ASSUME NEW m, NEW e, SndGiveUp(t, m, e)
      PROVE  MovesOn(t)
  BY Zenon, <1>2 DEF SndGiveUp, MovesOn
<1>3. ASSUME NEW id \in CallIds, NEW r \in SndReqs, Msgsnd(t, id, r)
      PROVE  MovesOn(t)
  BY Zenon, <1>1, <1>2, <1>3 DEF Msgsnd
<1>4. CASE MsgsndWake(t)
  <2>1. req[t] \in SndReqs
    BY Zenon, <1>4 DEF MsgsndWake, Asked
  <2> QED BY Zenon, <1>1, <1>2, <1>4, <2>1 DEF MsgsndWake
<1> QED BY Zenon, <1>3, <1>4

\* A receiver never becomes a sender.
LEMMA ReceiveAsks ==
  ASSUME NEW t \in Task,
         MsgrcvWake(t) \/ \E id \in CallIds, r \in RcvReqs : Msgrcv(t, id, r)
  PROVE  MovesOn(t)
<1>1. ASSUME NEW r, NEW m, Delivered(t, r, m) PROVE MovesOn(t)
  BY Zenon, <1>1 DEF Delivered, MovesOn
<1>2. ASSUME NEW e, RcvGiveUp(t, e) PROVE MovesOn(t)
  BY Zenon, <1>2 DEF RcvGiveUp, MovesOn
<1>3. ASSUME NEW id, NEW r, NEW o, NEW lists, NEW w, RcvSection(t, id, r, o, lists, w)
      PROVE  MovesOn(t)
  <2>1. ASSUME RcvSleep(t, id, r, o, lists) PROVE MovesOn(t)
    <3>1. "rcv" # "snd"
      OBVIOUS
    <3> QED BY Zenon, <2>1, <3>1 DEF RcvSleep, MovesOn
  <2>2. ASSUME NEW i, RcvTake(t, r, o, i, w) PROVE MovesOn(t)
    BY Zenon, <2>2, <1>1 DEF RcvTake, TakeOff
  <2> QED BY Zenon, <1>2, <1>3, <2>1, <2>2 DEF RcvSection
<1> QED BY Zenon, <1>1, <1>2, <1>3 DEF MsgrcvWake, Msgrcv

\* Every step is one of those.
LEMMA TaskMovesOn ==
  ASSUME Asked, NEW t \in Task, TaskNext(t)
  PROVE  MovesOn(t)
<1>1. ASSUME NEW v, Leave(t, v) \/ Refuse(t, v) PROVE MovesOn(t)
  BY Zenon, <1>1 DEF MovesOn, Refuse
<1>2. ASSUME NEW r \in GetReqs, MsggetNew(t, r) PROVE MovesOn(t)
  <2>1. "getret" # "snd"
    OBVIOUS
  <2> QED BY Zenon, <1>2, <2>1 DEF MsggetNew, MovesOn
<1>3. ASSUME NEW r \in GetReqs, MsggetFail(t, r) \/ MsggetOld(t, r) PROVE MovesOn(t)
  BY Zenon, <1>1, <1>3 DEF MsggetFail, MsggetOld
<1>4. CASE MsggetRet(t) \/ CtlInfoRet(t) \/ CtlFault(t) \/ CtlRmidFree(t)
  <2>1. CASE MsggetRet(t)
    BY Zenon, <1>1, <2>1 DEF MsggetRet, GetRet
  <2>2. CASE CtlInfoRet(t)
    BY Zenon, <1>1, <2>2 DEF CtlInfoRet, InfoRet
  <2>3. CASE CtlFault(t)
    BY Zenon, <1>1, <2>3 DEF CtlFault
  <2>4. CASE CtlRmidFree(t)
    BY Zenon, <1>1, <2>4 DEF CtlRmidFree, RmidFree
  <2> QED BY Zenon, <1>4, <2>1, <2>2, <2>3, <2>4
<1>5. CASE CtlInfo(t)
  <2>1. "info" # "snd"
    OBVIOUS
  <2> QED BY Zenon, <1>5, <2>1 DEF CtlInfo, MovesOn
<1>6. ASSUME NEW id \in CallIds, CtlStat(t, id) \/ CtlMsgStat(t, id) \/ CtlRefused(t, id)
      PROVE  MovesOn(t)
  BY Zenon, <1>1, <1>6 DEF CtlStat, CtlMsgStat, CtlRefused
<1>7. ASSUME NEW id \in CallIds, NEW s \in SetReqs, CtlSet(t, id, s) PROVE MovesOn(t)
  BY Zenon, <1>1, <1>7 DEF CtlSet
<1>8. ASSUME NEW id \in CallIds, CtlRmid(t, id) PROVE MovesOn(t)
  BY Zenon, <1>8 DEF CtlRmid, MovesOn
<1>9. ASSUME NEW id \in CallIds, NEW r \in SndReqs, MsgsndRefused(t, id, r)
      PROVE  MovesOn(t)
  BY Zenon, <1>1, <1>9 DEF MsgsndRefused
<1>10. CASE Signal(t)
  BY Zenon, <1>10 DEF Signal, frameVars, MovesOn
<1> QED BY Zenon, <1>2, <1>3, <1>4, <1>5, <1>6, <1>7, <1>8, <1>9, <1>10,
           SendAsks, ReceiveAsks DEF TaskNext

\* The senders asleep asked what rt_msgsnd may be asked, in every reachable state.
LEMMA AlwaysAsked == SysvSpec => []Asked
<1>1. SysvInit => Asked
  <2>1. "idle" # "snd"
    OBVIOUS
  <2> QED BY Zenon, <2>1 DEF SysvInit, Asked
<1>2. Inv /\ Asked /\ [SysvNext]_vars => Asked'
  <2>1. Inv => SysvTypeOK
    BY Zenon DEF Inv
  <2>2. Asked /\ UNCHANGED vars => Asked'
    BY Zenon DEF Asked, vars, frameVars
  <2> QED BY Zenon, <2>1, <2>2, TaskMovesOn, AskedKept DEF SysvNext
<1> QED BY <1>1, <1>2, AlwaysInv, PTL DEF SysvSpec

\* A call inside newque ends only by returning the id of its queue.
LEMMA OnlyGetRet ==
  ASSUME Inv, Asked, NEW t \in Task, pc[t] = "getret", pc'[t] = "idle", [SysvNext]_vars
  PROVE  MsggetRet(t)
<1>1. DOMAIN pc = Task
  BY Zenon DEF Inv, SysvTypeOK
<1>2. pc[t] # "idle" /\ pc[t] # "info" /\ pc[t] # "rmfree" /\ pc[t] # "snd" /\ pc[t] # "rcv"
  OBVIOUS
<1>3. pc' # pc
  BY Zenon, <1>2
<1>4. PICK u \in Task : TaskNext(u)
  BY Zenon, <1>3 DEF SysvNext, vars, frameVars
<1>5. CASE u = t
  BY Zenon, <1>2, <1>4, <1>5 DEF TaskNext, MsggetNew, MsggetFail, MsggetOld, CtlStat,
     CtlMsgStat, CtlRefused, CtlInfo, CtlInfoRet, InfoRet, CtlFault, CtlSet, CtlRmid,
     CtlRmidFree, RmidFree, MsgsndRefused, Msgsnd, MsgsndWake, Msgrcv, MsgrcvWake, Signal
<1>6. CASE u # t
  <2>1. MovesOn(u)
    BY Zenon, <1>4, TaskMovesOn
  <2>2. pc'[t] = pc[t]
    BY Zenon, <2>1, <1>1, <1>6 DEF MovesOn, Leave, Stay
  <2> QED BY Zenon, <2>2, <1>2
<1> QED BY Zenon, <1>5, <1>6

\* The id rt_msgget returns names the queue it made, although newque computes it after
\* the unlock (msg.c:128).
THEOREM NewIdsRight == SysvSpec => [][NewIdRight]_vars
<1>1. ASSUME Inv, Asked, [SysvNext]_vars PROVE NewIdRight
  <2> SUFFICES ASSUME NEW t \in Task, pc[t] = "getret", pc'[t] = "idle"
               PROVE  /\ ret'.val \in 0 .. INT_MAX
                      /\ ipc_lock(ret'.val) = msq[t]
                      /\ ~ ipc_checkid(msq[t], ret'.val)
    BY Zenon DEF NewIdRight
  <2>1. MsggetRet(t)
    BY Zenon, <1>1, OnlyGetRet
  <2> DEFINE s == perm[msq[t]].seq
             id == ipc_buildid(msqid[t], s)
  <2>2. ret' = Ok(id)
    BY Zenon, <2>1 DEF MsggetRet, GetRet, Leave
  <2>3. ret'.val = id
    BY Zenon, <2>2 DEF Ok
  <2>4. msqid[t] \in Used /\ entries[msqid[t]] = msq[t]
    BY Zenon, <1>1 DEF Inv, FrameInv
  <2>5. /\ msqid[t] \in Slots /\ msqid[t] < size /\ msq[t] \in Obj /\ s \in 0 .. seq_max
        /\ size \in Nat
    BY SMT, Z3, <1>1, <2>4 DEF Inv, TableInv, TableShape, IdsTypeOK, Used, Slots
  <2>6. /\ id \in 0 .. INT_MAX /\ lidOf(id) = msqid[t] /\ id \div IPCMNI = s
    BY <2>5, IdLeadsBack
  <2> HIDE DEF s, id
  <2>7. ipc_lock(id) = msq[t]
    <3>1. ~ (msqid[t] >= size)
      BY SMT, Z3, <2>5, SlotAssumption DEF Slots
    <3> QED BY Zenon, <2>4, <2>6, <3>1 DEF ipc_lock
  <2>8. ~ ipc_checkid(msq[t], id)
    BY Zenon, <2>6 DEF ipc_checkid, s
  <2> QED BY Zenon, <2>3, <2>6, <2>7, <2>8
<1> QED BY <1>1, AlwaysInv, AlwaysAsked, PTL DEF SysvSpec

\* Every step of a call is a step of the abstract queues.
LEMMA TaskStep ==
  ASSUME Inv, Asked, NEW t \in Task, TaskNext(t)
  PROVE  Typed!QueueNext
<1>1. CASE Signal(t)
  <2>1. UNCHANGED <<entries, msgs, heap, pc, msq, req, r_msg>> /\ ret' = NoRet
    BY Zenon, <1>1 DEF Signal, idsVars, qVars, frameVars
  <2> QED BY Zenon, <2>1, NothingGot, UnseenStep
<1>2. ASSUME NEW r \in GetReqs, MsggetNew(t, r) PROVE Typed!QueueNext
  BY Zenon, <1>2, MsggetNewStep
<1>3. ASSUME NEW id \in CallIds, NEW s \in SetReqs, CtlSet(t, id, s)
      PROVE  Typed!QueueNext
  BY Zenon, <1>3, CtlSetStep
<1>4. ASSUME NEW id \in CallIds, CtlRmid(t, id) PROVE Typed!QueueNext
  BY Zenon, <1>4, CtlRmidStep
<1>5. ASSUME NEW id \in CallIds, NEW r \in RcvReqs, Msgrcv(t, id, r)
      PROVE  Typed!QueueNext
  BY Zenon, <1>5, MsgrcvStep
<1>6. CASE CtlRmidFree(t) \/ MsgrcvWake(t) \/ MsgsndWake(t)
           \/ \E id \in CallIds, r \in SndReqs : Msgsnd(t, id, r)
  BY Zenon, <1>6, CtlRmidFreeStep, MsgrcvWakeStep, SendStep
<1> QED BY Zenon, <1>1, <1>2, <1>3, <1>4, <1>5, <1>6, TableCallStep DEF TaskNext

\* Nothing is in the queues, and nobody reads, before the first call.
LEMMA TypedInit == SysvInit => Typed!QueueInit
<1> SUFFICES ASSUME SysvInit PROVE Typed!QueueInit
  OBVIOUS
<1>1. \A t \in Task : pc[t] = "idle" /\ r_msg[t] = "none"
  BY Zenon DEF SysvInit
<1>2. "idle" # "rcv" /\ "none" \notin Msg
  BY Zenon, MsgAssumption
<1>3. Live = {}
  BY Zenon DEF SysvInit, IdsInit, Live, Used
<1>4. Content = [q \in Obj |-> << >>]
  BY Zenon, <1>3 DEF Content
<1>5. Waiting = [t \in Task |-> {}] /\ Handed = [t \in Task |-> {}]
  BY Zenon, <1>1, <1>2 DEF Waiting, Handed
<1>6. ret.got = {}
  BY Zenon, NothingGot DEF SysvInit
<1> QED BY Zenon, <1>4, <1>5, <1>6 DEF Typed!QueueInit

\* The message queues of msg.c implement the abstract queues: whatever the calls and
\* their interleaving, a receiver gets the message of its request that it should, the
\* hand-over of pipelined_send overtakes no message the receiver asked for, and no
\* message waits in a queue beside a receiver that can take it.
THEOREM QueuesAreTyped == SysvSpec => QueuesTyped
<1>1. Inv /\ Asked /\ [SysvNext]_vars => [Typed!QueueNext]_(Typed!queueVars)
  <2>1. UNCHANGED vars => UNCHANGED Typed!queueVars
    BY Zenon DEF vars, idsVars, qVars, frameVars, Typed!queueVars, Content, Waiting,
                 Handed, Live, Used
  <2> QED BY Zenon, <2>1, TaskStep DEF SysvNext
<1> QED BY <1>1, AlwaysInv, AlwaysAsked, TypedInit, PTL
        DEF SysvSpec, QueuesTyped, Typed!QueueSpec
=============================================================================
