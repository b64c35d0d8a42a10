---------------------------- MODULE SysvCtlProofs ----------------------------
(***************************************************************************)
(* rt_msgget and rt_msgctl preserve the invariant of the message queues:    *)
(* creating and removing a queue, changing it and looking at it.            *)
(***************************************************************************)
EXTENDS SysvMsgInv, IpcIdsProofs

\* Creating a queue preserves the invariant.
LEMMA MsggetNewInv ==
  ASSUME Inv, NEW t \in Task, NEW r \in GetReqs, MsggetNew(t, r)
  PROVE  Inv'
<1>0. SysvTypeOK /\ TableInv /\ FrameInv /\ SemHeld
  BY Zenon DEF Inv
<1>1. PICK o \in FreeObj, lid \in Slots :
        /\ r.key = IPC_PRIVATE \/ WithKey(r.key) = {}
        /\ ipc_addid(o, r.key, lid)
        /\ acl' = [acl EXCEPT ![o] =
                    [uid |-> Cred[t].euid, cuid |-> Cred[t].euid,
                     gid |-> Cred[t].egid, cgid |-> Cred[t].egid,
                     mode |-> r.mode]]
        /\ qbytes' = [qbytes EXCEPT ![o] = MsgMnb]
        /\ cbytes' = [cbytes EXCEPT ![o] = 0]
        /\ qnum' = [qnum EXCEPT ![o] = 0]
        /\ msgs' = [msgs EXCEPT ![o] = << >>]
        /\ rcvs' = [rcvs EXCEPT ![o] = << >>]
        /\ snds' = [snds EXCEPT ![o] = << >>]
        /\ Stay(t, "getret", lid, o, NoReq, "none")
  BY Zenon DEF MsggetNew
<1>2. pc[t] = "idle" /\ sem = NoTask /\ sem' = t
      /\ UNCHANGED <<counters, heap, r_msg, info, wake>>
  BY Zenon DEF MsggetNew
<1>3. /\ o \in Obj /\ o \notin Live /\ \A j \in Slots : entries[j] # o
      /\ \A u \in Task : pc[u] = "rmfree" => msq[u] # o
  BY Zenon DEF FreeObj, Live, Used
<1>4. r.key \in Key
  BY Zenon, GetAssumption
<1>5. TableInv' /\ Used' = Used \cup {lid} /\ lid \notin Used
  BY Zenon, <1>0, <1>1, <1>3, <1>4, AddIdTable
<1>6. /\ entries' = [entries EXCEPT ![lid] = o] /\ bug' = bug
      /\ perm' = [perm EXCEPT ![o] = [key |-> r.key, seq |-> seq]]
  BY Zenon, <1>1 DEF ipc_addid
<1>7. entries \in [Slots -> Obj \cup {NULL}]
  BY Zenon, <1>0 DEF TableInv, IdsTypeOK
<1>8. Live' = Live \cup {o} /\ entries'[lid] = o
  BY Zenon, <1>5, <1>6, <1>7 DEF Live, Used
<1>9. ASSUME NEW id \in Int, ipc_lock(id) # NULL PROVE ipc_lock(id)' = ipc_lock(id)
  <2>1. /\ lidOf(id) \in Used /\ entries[lidOf(id)] = ipc_lock(id)
        /\ lidOf(id) \in Nat /\ lidOf(id) < size
    BY Zenon, <1>0, <1>9, LockLive
  <2>2. size' >= size /\ size \in Nat /\ size' \in Nat
    BY SMT, Z3, <1>0, <1>1, <1>5, NewSizeType DEF ipc_addid, TableInv, IdsTypeOK
  <2>3. entries'[lidOf(id)] = entries[lidOf(id)]
    BY Zenon, <2>1, <1>5, <1>6, <1>7 DEF Used
  <2> QED BY SMT, Z3, <2>1, <2>2, <2>3 DEF ipc_lock, lidOf
<1>10. /\ pc' = [pc EXCEPT ![t] = "getret"] /\ msqid' = [msqid EXCEPT ![t] = lid]
       /\ msq' = [msq EXCEPT ![t] = o] /\ req' = [req EXCEPT ![t] = NoReq]
       /\ s_msg' = [s_msg EXCEPT ![t] = "none"]
       /\ killed' = [killed EXCEPT ![t] = FALSE] /\ sig' = sig
  BY Zenon, <1>1 DEF Stay
<1>11. /\ Range(msgs'[o]) = {} /\ Range(rcvs'[o]) = {} /\ Range(snds'[o]) = {}
       /\ IsInjective(msgs'[o])
  BY SMT, Z3, <1>0, <1>1, <1>3 DEF Range, IsInjective, SysvTypeOK
<1>12. \A p \in Obj : p # o => /\ msgs'[p] = msgs[p] /\ rcvs'[p] = rcvs[p]
                               /\ snds'[p] = snds[p] /\ acl'[p] = acl[p]
                               /\ qbytes'[p] = qbytes[p] /\ cbytes'[p] = cbytes[p]
                               /\ qnum'[p] = qnum[p]
  BY Zenon, <1>0, <1>1 DEF SysvTypeOK
<1>13. Range(msgs[o]) = {}
  BY Zenon, <1>3 DEF Inv, Clean
<1>13a. /\ Frames(t) /\ pc'[t] = "getret" /\ msq'[t] = o /\ msqid'[t] = lid
      /\ s_msg'[t] = "none" /\ killed'[t] = FALSE
  <2>1. lid \in Int /\ ("getret" = "snd" => NoReq \in SndArgs)
        /\ ("getret" = "rcv" => NoReq \in RcvArgs)
    BY SMT, Z3 DEF Slots
  <2> QED BY <2>1, <1>0, <1>1, <1>3, StayFrames, Zenon
<1>14. \A u \in Task : u # t => /\ pc'[u] = pc[u] /\ msqid'[u] = msqid[u]
                                /\ msq'[u] = msq[u] /\ req'[u] = req[u]
                                /\ s_msg'[u] = s_msg[u] /\ killed'[u] = killed[u]
  BY Zenon, <1>13a DEF Frames
<1>15. pc'[t] = "getret" /\ msq'[t] = o /\ msqid'[t] = lid /\ s_msg'[t] = "none"
       /\ killed'[t] = FALSE
  BY Zenon, <1>13a
<1>16. s_msg' = s_msg
  BY Zenon, <1>0, <1>2, <1>13a, SameSender
<1>a. SysvTypeOK'
  <2>1. [uid |-> Cred[t].euid, cuid |-> Cred[t].euid, gid |-> Cred[t].egid,
         cgid |-> Cred[t].egid, mode |-> r.mode] \in Acl
    BY Zenon, GetAssumption DEF Acl, Uid, Gid
  <2>2. acl \in [Obj -> Acl]
    BY Zenon, <1>0 DEF SysvTypeOK
  <2>3. acl' \in [Obj -> Acl]
    BY Zenon, <2>1, <2>2, <1>1, ExceptType
  <2>4. /\ qbytes' \in [Obj -> Nat] /\ qnum' \in [Obj -> Int] /\ cbytes' \in [Obj -> Int]
        /\ msgs' \in [Obj -> Seq(Msg)] /\ rcvs' \in [Obj -> Seq(Task)]
        /\ snds' \in [Obj -> Seq(Task)]
    BY SMT, Z3, <1>0, <1>1, <1>3, LimitAssumption DEF SysvTypeOK
  <2>5. /\ heap' = heap /\ msg_bytes' = msg_bytes /\ msg_hdrs' = msg_hdrs
        /\ sem' \in Task \cup {NoTask} /\ r_msg' = r_msg /\ wake' = wake
    BY Zenon, <1>2 DEF counters
  <2> QED BY Zenon, <2>3, <2>4, <2>5, <1>0, <1>5, <1>13a, TypeKept DEF SysvTypeOK
<1>b. NoBug' /\ SemHeld'
  BY Zenon, <1>0, <1>2, <1>6, <1>14, <1>15, TaskAssumption DEF Inv, NoBug, SemHeld
<1>c. FrameInv'
  BY SMT, Z3, <1>0, <1>2, <1>3, <1>5, <1>6, <1>7, <1>8, <1>14, <1>15 DEF FrameInv, Used
<1>d. Clean'
  <2>1. Clean /\ Live \subseteq Live' /\ o \in Live'
    BY Zenon, <1>8 DEF Inv
  <2>2. \A u \in Task : pc[u] = "rmfree" => pc'[u] = "rmfree" /\ msq'[u] = msq[u]
    BY Zenon, <1>2, <1>14
  <2> QED BY <2>1, <2>2, <1>12 DEF Clean
<1>e. ReceiversListed'
  <2>1. NULL \notin Live /\ Live \subseteq Obj
    BY Zenon, <1>0, LiveFacts
  <2>2. \A u \in Task : msqid[u] \in Int
    BY Zenon, <1>0 DEF SysvTypeOK
  <2>3. ReceiversListed
    BY Zenon DEF Inv
  <2> QED BY SMT, Z3, <2>1, <2>2, <2>3, <1>2, <1>3, <1>8, <1>9, <1>11, <1>12, <1>14, <1>15
          DEF ReceiversListed
<1>f. SendersListed'
  <2>1. NULL \notin Live /\ Live \subseteq Obj
    BY <1>0, LiveFacts
  <2>2. \A u \in Task : msqid[u] \in Int
    BY <1>0 DEF SysvTypeOK
  <2>3. SendersListed
    BY Zenon DEF Inv
  <2> QED BY SMT, Z3, <2>1, <2>2, <2>3, <1>2, <1>3, <1>8, <1>9, <1>11, <1>12, <1>14, <1>15
          DEF SendersListed
<1>g. Told'
  BY Zenon, <1>2, <1>14, <1>15 DEF Inv, Told
<1>h. NoMatch'
  <2>1. Live \subseteq Obj
    BY Zenon, <1>0, LiveFacts
  <2>2. ASSUME NEW p \in Live', NEW u \in Task, NEW m \in Msg,
               u \in Range(rcvs'[p]), m \in Range(msgs'[p])
        PROVE  ~ testmsg(heap'[m].type, req'[u])
    <3>1. p \in Live /\ p # o
      BY Zenon, <1>8, <1>11, <2>2
    <3>2. u \in Range(rcvs[p]) /\ m \in Range(msgs[p])
      BY Zenon, <3>1, <2>1, <2>2, <1>12
    <3>3. u # t
      BY Zenon, <3>1, <3>2, <1>2 DEF Inv, ReceiversListed
    <3> QED BY Zenon, <3>1, <3>2, <3>3, <1>2, <1>14 DEF Inv, NoMatch
  <2> QED BY Zenon, <2>2 DEF NoMatch
<1>i. Permitted'
  <2>1. ASSUME NEW u \in Task, pc[u] \in {"rcv", "snd"}, wake[u] = 0
        PROVE  msq[u] \in Obj /\ msq[u] # o
    <3>1. msq[u] \in Live
      BY SMT, Z3, <2>1 DEF Inv, Told, ReceiversListed, SendersListed
    <3> QED BY Zenon, <3>1, <1>0, <1>3, LiveFacts
  <2>4. ASSUME NEW u \in Task, pc'[u] = "rcv", wake'[u] = 0
        PROVE  ipcperms(u, msq[u], {"r"})'
    <3>1. u # t /\ pc[u] = "rcv" /\ wake[u] = 0 /\ msq'[u] = msq[u]
      BY Zenon, <2>4, <1>2, <1>14, <1>15
    <3>2. ipcperms(u, msq[u], {"r"}) /\ msq[u] \in Obj /\ msq[u] # o
      BY Zenon, <3>1, <2>1 DEF Inv, Permitted
    <3> QED BY SMT, Z3, <3>1, <3>2, <1>12 DEF ipcperms, granted
  <2>5. ASSUME NEW u \in Task, pc'[u] = "snd", wake'[u] = 0
        PROVE  ipcperms(u, msq[u], {"w"})' /\ full(msq[u], req[u].sz)'
    <3>1. u # t /\ pc[u] = "snd" /\ wake[u] = 0 /\ msq'[u] = msq[u] /\ req'[u] = req[u]
      BY Zenon, <2>5, <1>2, <1>14, <1>15
    <3>2. /\ ipcperms(u, msq[u], {"w"}) /\ full(msq[u], req[u].sz)
          /\ msq[u] \in Obj /\ msq[u] # o
      BY Zenon, <3>1, <2>1 DEF Inv, Permitted
    <3>3. ipcperms(u, msq[u], {"w"})'
      BY SMT, Z3, <3>1, <3>2, <1>12 DEF ipcperms, granted
    <3>4. full(msq[u], req[u].sz)'
      BY SMT, Z3, <3>1, <3>2, <1>12 DEF full
    <3> QED BY Zenon, <3>3, <3>4
  <2> QED BY Zenon, <2>4, <2>5 DEF Permitted
<1>j. MessagesOwned'
  <2>1. \A p \in Obj : Range(msgs'[p]) = Range(msgs[p])
    BY Zenon, <1>11, <1>12, <1>13
  <2>2. \A p \in Obj : IsInjective(msgs'[p])
    BY Zenon, <1>11, <1>12 DEF Inv, MessagesOwned
  <2> QED BY Zenon, <2>1, <2>2, <1>2, <1>16 DEF Inv, MessagesOwned
<1> QED BY Zenon, <1>a, <1>b, <1>c, <1>d, <1>e, <1>f, <1>g, <1>h, <1>i, <1>j, <1>5 DEF Inv

\* Starting MSG_INFO preserves the invariant.
LEMMA CtlInfoInv ==
  ASSUME Inv, NEW t \in Task, CtlInfo(t)
  PROVE  Inv'
<1>0. SysvTypeOK /\ TableInv /\ FrameInv /\ SemHeld
  BY Zenon DEF Inv
<1>1. /\ pc[t] = "idle" /\ sem = NoTask /\ sem' = t
      /\ Stay(t, "info", -1, NULL, NoReq, "none")
      /\ UNCHANGED <<idsVars, qVars, counters, rcvs, snds, heap, r_msg, wake>>
  BY Zenon DEF CtlInfo
<1>2. TableKept
  BY Zenon, <1>0, <1>1, KeptWhenUnchanged
<1>3. Frames(t) /\ pc'[t] = "info" /\ s_msg'[t] = "none" /\ killed'[t] = FALSE
  <2>1. -1 \in Int /\ ("info" = "snd" => NoReq \in SndArgs)
        /\ ("info" = "rcv" => NoReq \in RcvArgs)
    BY SMT, Z3
  <2> QED BY <2>1, <1>0, <1>1, StayFrames, Zenon
<1>4. SysvTypeOK'
  BY Zenon, <1>0, <1>1, <1>2, <1>3, TypeKept DEF TableKept, qVars, counters, SysvTypeOK
<1>5. /\ \A u \in Task : u # t => /\ pc'[u] = pc[u] /\ msqid'[u] = msqid[u]
                                  /\ msq'[u] = msq[u] /\ req'[u] = req[u]
                                  /\ s_msg'[u] = s_msg[u]
      /\ \A u \in Task : killed'[u] => killed[u]
  BY Zenon, <1>3 DEF Frames
<1>6. s_msg' = s_msg
  BY SMT, Z3, <1>0, <1>1, <1>3, <1>4, <1>5 DEF FrameInv, SysvTypeOK
<1>7. SemHeld' /\ NoBug'
  BY Zenon, <1>0, <1>1, <1>2, <1>3, <1>5, TaskAssumption DEF Inv, SemHeld, NoBug, TableKept
<1>8. FrameInv'
  <2>1. \A u \in Task : killed'[u] => pc'[u] = "snd"
    BY Zenon, <1>0, <1>1, <1>5 DEF FrameInv
  <2> QED BY SMT, Z3, <2>1, <1>0, <1>1, <1>2, <1>3, <1>5, <1>6 DEF FrameInv, TableKept
<1>9. Clean'
  BY Zenon, <1>1, <1>2, <1>5 DEF Inv, Clean, TableKept, qVars
<1>10. ReceiversListed'
  <2>1. NULL \notin Live /\ \A u \in Task : msqid[u] \in Int
    BY Zenon, <1>0, LiveFacts DEF SysvTypeOK
  <2> QED BY SMT, Z3, <2>1, <1>1, <1>2, <1>3, <1>5 DEF Inv, ReceiversListed, TableKept
<1>11. SendersListed'
  <2>1. \A u \in Task : pc[u] = "snd" => u # t /\ killed'[u] = killed[u]
    BY Zenon, <1>1, <1>3 DEF Frames
  <2>2. NULL \notin Live /\ \A u \in Task : msqid[u] \in Int
    BY <1>0, LiveFacts DEF SysvTypeOK
  <2> QED BY SMT, Z3, <2>1, <2>2, <1>1, <1>2, <1>3, <1>5 DEF Inv, SendersListed, TableKept
<1>12. Told' /\ NoMatch'
  BY SMT, Z3, <1>1, <1>2, <1>3, <1>5 DEF Inv, Told, NoMatch, ReceiversListed, TableKept, qVars
<1>13. Permitted'
  BY SMT, Z3, <1>1, <1>3, <1>5, SameAcl, SameFull DEF Inv, Permitted, qVars
<1>14. MessagesOwned'
  BY Zenon, <1>1, <1>6 DEF Inv, MessagesOwned, qVars
<1> QED BY Zenon, <1>2, <1>4, <1>7, <1>8, <1>9, <1>10, <1>11, <1>12, <1>13, <1>14
        DEF Inv, TableKept

\* IPC_SET preserves the invariant: whoever it may concern is woken.
LEMMA CtlSetInv ==
  ASSUME Inv, NEW t \in Task, NEW id \in CallIds, NEW r \in SetReqs, CtlSet(t, id, r)
  PROVE  Inv'
<1> SUFFICES ASSUME ~ Refuse(t, Err("EPERM")) PROVE Inv'
  BY Zenon, RefuseInv DEF CtlSet
<1> DEFINE o == ipc_lock(id)
<1>0. SysvTypeOK /\ TableInv /\ FrameInv /\ SemHeld
  BY Zenon DEF Inv
<1>1. /\ pc[t] = "idle" /\ sem = NoTask /\ refusal(id) = ""
      /\ qbytes' = [qbytes EXCEPT ![o] = r.qbytes]
      /\ acl' = [acl EXCEPT ![o] =
                   [@ EXCEPT !.uid = r.uid, !.gid = r.gid, !.mode = r.mode]]
      /\ r_msg' = expunge(o, "EAGAIN")
      /\ wake' = resume(resume(wake, Range(rcvs[o])), Range(snds[o]))
      /\ Leave(t, Ok(0))
      /\ UNCHANGED <<idsVars, cbytes, qnum, msgs, counters, rcvs, snds,
                           heap, sem, info>>
  BY Zenon DEF CtlSet, woken
<1>2. id \in Int /\ o # NULL
  BY SMT, Z3, <1>1, CallIdAssumption, WidthAssumption DEF refusal
<1>3. o \in Live /\ o \in Obj
  BY Zenon, <1>0, <1>2, LockLive
<1> HIDE DEF o
<1>4. TableKept
  BY Zenon, <1>0, <1>1, KeptWhenUnchanged
<1>5. Frames(t) /\ pc'[t] = "idle" /\ s_msg'[t] = "none" /\ killed'[t] = FALSE
  BY Zenon, <1>0, <1>1, LeaveFrames
<1>6. r_msg' = r_msg
  <2>1. \A u \in Task : u \in Range(rcvs[o]) => r_msg[u] = "EAGAIN"
    BY Zenon, <1>3 DEF Inv, ReceiversListed
  <2> QED BY Zenon, <2>1, <1>0, <1>1 DEF expunge, SysvTypeOK
<1>7. /\ wake' \in [Task -> Nat]
      /\ \A u \in Task : /\ wake'[u] >= wake[u]
                         /\ u \in Range(rcvs[o]) \cup Range(snds[o]) => wake'[u] > 0
  BY Zenon, <1>0, <1>1, Resume2 DEF SysvTypeOK
<1>8. qbytes' \in [Obj -> Nat] /\ acl' \in [Obj -> Acl]
  <2>1. r.qbytes \in Nat /\ r.mode \in Modes /\ r.uid \in Uid /\ r.gid \in Gid
    BY Zenon, SetAssumption DEF Uid, Gid
  <2>2. acl[o] \in Acl
    BY Zenon, <1>0, <1>3 DEF SysvTypeOK
  <2>3. [acl[o] EXCEPT !.uid = r.uid, !.gid = r.gid, !.mode = r.mode] \in Acl
    BY Zenon, <2>1, <2>2 DEF Acl
  <2> QED BY Zenon, <2>1, <2>3, <1>0, <1>1, <1>3 DEF SysvTypeOK
<1>9. SysvTypeOK'
  BY Zenon, <1>0, <1>1, <1>4, <1>5, <1>6, <1>7, <1>8, TypeKept
  DEF TableKept, counters, SysvTypeOK
<1>10. Kept(t)
  BY Zenon, <1>1, <1>5, <1>6, <1>7 DEF Kept, Frames
<1>11. Awake(t)'
  <2>1. r_msg[t] = "none" /\ \A p \in Live : t \notin Range(rcvs[p]) /\ t \notin Range(snds[p])
    BY Zenon, <1>0, <1>1 DEF Inv, FrameInv, ReceiversListed, SendersListed
  <2> QED BY Zenon, <2>1, <1>1, <1>4, <1>5, <1>6 DEF Awake, TableKept
<1>12. /\ TableInv' /\ NoBug' /\ SemHeld' /\ FrameInv' /\ Clean'
       /\ ReceiversListed' /\ SendersListed' /\ Told'
  BY Zenon, <1>1, <1>4, <1>9, <1>10, <1>11, ListsKept
<1>13. NoMatch'
  <2>1. \A u \in Task, p \in Live : u \in Range(rcvs[p]) => req'[u] = req[u]
    BY <1>1, <1>5 DEF Frames, Inv, ReceiversListed
  <2> QED BY Zenon, <2>1, <1>1, <1>4 DEF Inv, NoMatch, TableKept
<1>14. Permitted'
  <2>0. \A p \in Obj : p # o => acl'[p] = acl[p] /\ qbytes'[p] = qbytes[p]
    BY Zenon, <1>0, <1>1 DEF SysvTypeOK
  <2>1. ASSUME NEW u \in Task, pc'[u] \in {"rcv", "snd"}, wake'[u] = 0
        PROVE  /\ pc'[u] = pc[u] /\ msq'[u] = msq[u] /\ req'[u] = req[u] /\ wake[u] = 0
               /\ msq[u] \in Obj /\ msq[u] # o
    <3>1. u # t /\ pc'[u] = pc[u] /\ msq'[u] = msq[u] /\ req'[u] = req[u]
      BY Zenon, <2>1, <1>5 DEF Frames
    <3>2. wake[u] = 0
      BY SMT, Z3, <2>1, <1>7, <1>0 DEF SysvTypeOK
    <3>3. msq[u] \in Live /\ u \in Range(rcvs[msq[u]]) \cup Range(snds[msq[u]])
      BY SMT, Z3, <3>1, <3>2, <2>1 DEF Inv, Told, ReceiversListed, SendersListed
    <3> QED BY SMT, Z3, <3>1, <3>2, <3>3, <2>1, <1>0, <1>7, LiveFacts
  <2>2. ASSUME NEW u \in Task, pc'[u] = "rcv", wake'[u] = 0
        PROVE  ipcperms(u, msq[u], {"r"})'
    <3>1. ipcperms(u, msq[u], {"r"})
      BY Zenon, <2>1, <2>2 DEF Inv, Permitted
    <3> QED BY SMT, Z3, <3>1, <2>0, <2>1, <2>2 DEF ipcperms, granted
  <2>3. ASSUME NEW u \in Task, pc'[u] = "snd", wake'[u] = 0
        PROVE  ipcperms(u, msq[u], {"w"})' /\ full(msq[u], req[u].sz)'
    <3>1. ipcperms(u, msq[u], {"w"}) /\ full(msq[u], req[u].sz)
      BY Zenon, <2>1, <2>3 DEF Inv, Permitted
    <3>2. ipcperms(u, msq[u], {"w"})'
      BY SMT, Z3, <3>1, <2>0, <2>1, <2>3 DEF ipcperms, granted
    <3>3. full(msq[u], req[u].sz)'
      <4>1. cbytes' = cbytes /\ qnum' = qnum
        BY Zenon, <1>1
      <4> QED BY Zenon, <4>1, <3>1, <2>0, <2>1, <2>3 DEF full
    <3> QED BY Zenon, <3>2, <3>3
  <2> QED BY Zenon, <2>2, <2>3 DEF Permitted
<1>15. MessagesOwned'
  <2>1. s_msg' = s_msg
    BY Zenon, <1>0, <1>1, <1>5, SameSender
  <2> QED BY Zenon, <2>1, <1>1, <1>6 DEF Inv, MessagesOwned
<1> QED BY Zenon, <1>9, <1>12, <1>13, <1>14, <1>15 DEF Inv

\* Removing a queue preserves the invariant: its sleepers are told.
LEMMA CtlRmidInv ==
  ASSUME Inv, NEW t \in Task, NEW id \in CallIds, CtlRmid(t, id)
  PROVE  Inv'
<1> DEFINE o == ipc_lock(id)
<1>0. SysvTypeOK /\ TableInv /\ FrameInv /\ SemHeld
  BY DEF Inv
<1>1. /\ pc[t] = "idle" /\ sem = NoTask /\ sem' = t
      /\ refusal(id) = "" /\ ipc_rmid(id)
      /\ r_msg' = expunge(o, "EIDRM")
      /\ wake' = resume(resume(wake, Range(rcvs[o])), Range(snds[o]))
      /\ pc' = [pc EXCEPT ![t] = "rmfree"]
      /\ msq' = [msq EXCEPT ![t] = o]
      /\ UNCHANGED <<qVars, counters, rcvs, snds, heap, msqid, req, s_msg, info, sig>>
  BY Zenon DEF CtlRmid, woken
<1>k. killed' = [u \in Task |-> killed[u] \/ u \in Range(snds[o])]
  BY Zenon DEF CtlRmid, woken
<1>2. id \in Int /\ id \in 0 .. INT_MAX /\ o # NULL
  BY SMT, Z3, <1>1, CallIdAssumption, WidthAssumption DEF refusal
<1>3. o \in Live /\ o \in Obj
  BY Zenon, <1>0, <1>2, LockLive
<1>4. /\ TableInv' /\ bug' = bug /\ lidOf(id) \in Used
      /\ Used' = Used \ {lidOf(id)} /\ entries[lidOf(id)] = o
      /\ entries' = [entries EXCEPT ![lidOf(id)] = NULL] /\ size' = size
  BY Zenon, <1>0, <1>1, <1>2, RmIdTable DEF ipc_rmid
<1> HIDE DEF o
<1>5. /\ \A j \in Used : j # lidOf(id) => entries'[j] = entries[j] /\ entries[j] # o
      /\ Live' = Live \ {o}
  BY SMT, Z3, <1>0, <1>4 DEF Live, TableInv, TableShape, Used, IdsTypeOK
<1>6. ASSUME NEW j \in Int, ipc_lock(j) # NULL, ipc_lock(j) # o
      PROVE  ipc_lock(j)' = ipc_lock(j)
  <2>1. /\ lidOf(j) \in Used /\ entries[lidOf(j)] = ipc_lock(j)
        /\ lidOf(j) \in Nat /\ lidOf(j) < size
    BY Zenon, <1>0, <1>6, LockLive
  <2> QED BY Zenon, <2>1, <1>4, <1>5, <1>6 DEF ipc_lock, lidOf
<1>7. /\ wake' \in [Task -> Nat]
      /\ \A u \in Task : /\ wake'[u] >= wake[u]
                         /\ u \in Range(rcvs[o]) \cup Range(snds[o]) => wake'[u] > 0
  BY Zenon, <1>0, <1>1, Resume2 DEF SysvTypeOK
<1>8. /\ \A u \in Task : u # t => pc'[u] = pc[u] /\ msq'[u] = msq[u]
      /\ pc'[t] = "rmfree" /\ msq'[t] = o
  BY Zenon, <1>0, <1>1 DEF SysvTypeOK
<1>9. \A u \in Task : /\ u \in Range(rcvs[o]) => /\ pc[u] = "rcv" /\ msq[u] = o
                                                 /\ r_msg[u] = "EAGAIN"
                      /\ u \in Range(snds[o]) => pc[u] = "snd" /\ msq[u] = o
  BY Zenon, <1>3 DEF Inv, ReceiversListed, SendersListed
<1>10. \A u \in Task : /\ u \in Range(rcvs[o]) => r_msg'[u] = "EIDRM"
                       /\ u \notin Range(rcvs[o]) => r_msg'[u] = r_msg[u]
  BY Zenon, <1>1 DEF expunge
<1>11. \A u \in Task : killed'[u] <=> killed[u] \/ u \in Range(snds[o])
  BY <1>k, Zenon
<1>a. SysvTypeOK'
  <2>1. r_msg' \in [Task -> Msg \cup {"none", "EAGAIN", "EIDRM", "E2BIG"}]
    BY Zenon, <1>0, <1>1 DEF SysvTypeOK, expunge
  <2>2. killed' \in [Task -> BOOLEAN]
    BY Zenon, <1>0, <1>k DEF SysvTypeOK
  <2>3. /\ pc' \in [Task -> {"idle", "getret", "info", "rmfree", "snd", "rcv"}]
        /\ msq' \in [Task -> Obj \cup {NULL}]
    BY Zenon, <1>0, <1>1, <1>3 DEF SysvTypeOK
  <2>4. sem' \in Task \cup {NoTask}
    BY Zenon, <1>1
  <2>5. \A u \in Task : /\ pc'[u] = "snd" => req'[u] \in SndArgs
                        /\ pc'[u] = "rcv" => req'[u] \in RcvArgs
    BY Zenon, <1>0, <1>1, <1>8 DEF SysvTypeOK
  <2>6. IdsTypeOK'
    BY Zenon, <1>4 DEF TableInv
  <2> QED BY <1>0, <1>1, <1>7, <2>1, <2>2, <2>3, <2>4, <2>5, <2>6, Zenon
          DEF SysvTypeOK, qVars, counters
<1>b. NoBug' /\ SemHeld'
  BY Zenon, <1>0, <1>1, <1>4, <1>8, TaskAssumption DEF Inv, NoBug, SemHeld
<1>c. FrameInv'
  <2>1. \A u \in Task : killed'[u] => pc'[u] = "snd"
    <3>1. \A u \in Task : killed'[u] => pc[u] = "snd"
      BY Zenon, <1>0, <1>9, <1>11 DEF FrameInv
    <3> QED BY Zenon, <3>1, <1>1, <1>8
  <2>2. \A u \in Task : u # t => pc[u] \notin {"getret", "rmfree"}
    BY Zenon, <1>0, <1>1, TaskAssumption DEF SemHeld
  <2>3. \A u \in Task : /\ r_msg'[u] # "none" <=> r_msg[u] # "none"
                        /\ s_msg'[u] = s_msg[u] /\ req'[u] = req[u]
    BY Zenon, <1>1, <1>9, <1>10
  <2>4. o \in Obj \ Live'
    BY Zenon, <1>3, <1>5
  <2>5. \A u \in Task : /\ pc[u] = "snd" <=> s_msg[u] # "none"
                        /\ pc[u] = "rcv" <=> r_msg[u] # "none"
                        /\ pc[u] = "snd" => req[u].type >= 1 /\ req[u].sz >= 0
    BY Zenon, <1>0 DEF FrameInv
  <2>6. \A u \in Task : /\ pc'[u] = "snd" <=> pc[u] = "snd"
                        /\ pc'[u] = "rcv" <=> pc[u] = "rcv"
                        /\ pc'[u] = "rmfree" => msq'[u] = o
                        /\ pc'[u] # "getret"
    BY Zenon, <2>2, <1>1, <1>8
  <2> QED BY Zenon, <2>1, <2>3, <2>4, <2>5, <2>6 DEF FrameInv
<1>d. Clean'
  <2>1. Clean /\ msgs' = msgs
    BY Zenon, <1>1 DEF Inv, qVars
  <2>2. \A u \in Task : pc[u] # "rmfree"
    BY Zenon, <1>0, <1>1, TaskAssumption DEF SemHeld
  <2> QED BY Zenon, <2>1, <2>2, <1>5, <1>8 DEF Clean
<1>e. ReceiversListed'
  <2>0. ReceiversListed /\ NULL \notin Live
    BY Zenon, <1>0, LiveFacts DEF Inv
  <2>1. ASSUME NEW p \in Live', NEW u \in Task, u \in Range(rcvs'[p])
        PROVE  pc'[u] = "rcv" /\ msq'[u] = p /\ r_msg'[u] = "EAGAIN"
    <3>1. pc[u] = "rcv" /\ msq[u] = p /\ r_msg[u] = "EAGAIN" /\ p # o
      BY Zenon, <2>0, <2>1, <1>1, <1>5 DEF ReceiversListed
    <3> QED BY Zenon, <3>1, <1>1, <1>8, <1>9, <1>10
  <2>2. ASSUME NEW u \in Task, pc'[u] = "rcv", r_msg'[u] = "EAGAIN"
        PROVE  /\ msq'[u] \in Live' /\ u \in Range(rcvs'[msq'[u]])
               /\ ipc_lock(msqid[u])' = msq'[u]
    <3>1. /\ u # t /\ pc[u] = "rcv" /\ msq'[u] = msq[u] /\ r_msg[u] = "EAGAIN"
          /\ u \notin Range(rcvs[o])
      BY Zenon, <2>2, <1>8, <1>10
    <3>2. /\ msq[u] \in Live /\ u \in Range(rcvs[msq[u]]) /\ msq[u] # o
          /\ ipc_lock(msqid[u]) = msq[u]
      BY Zenon, <3>1, <2>0 DEF ReceiversListed
    <3>3. msqid[u] \in Int /\ msqid' = msqid /\ rcvs' = rcvs
      BY Zenon, <1>0, <1>1 DEF SysvTypeOK
    <3> QED BY Zenon, <3>1, <3>2, <3>3, <2>0, <1>5, <1>6
  <2> QED BY Zenon, <2>1, <2>2 DEF ReceiversListed
<1>f. SendersListed'
  <2>0. SendersListed /\ snds' = snds
    BY Zenon, <1>1 DEF Inv
  <2>1. ASSUME NEW p \in Live', NEW u \in Task, u \in Range(snds'[p])
        PROVE  pc'[u] = "snd" /\ msq'[u] = p /\ ~ killed'[u]
    <3>1. pc[u] = "snd" /\ msq[u] = p /\ ~ killed[u] /\ p # o
      BY Zenon, <2>0, <2>1, <1>5 DEF SendersListed
    <3>2. u # t /\ u \notin Range(snds[o])
      BY Zenon, <3>1, <1>1, <1>9
    <3> QED BY Zenon, <3>1, <3>2, <1>8, <1>11
  <2>2. ASSUME NEW u \in Task, pc'[u] = "snd", ~ killed'[u]
        PROVE  /\ msq'[u] \in Live' /\ u \in Range(snds'[msq'[u]])
               /\ ipc_lock(msqid[u])' = msq'[u]
    <3>1. u # t /\ pc[u] = "snd" /\ msq'[u] = msq[u]
      BY Zenon, <2>2, <1>8
    <3>2. ~ killed[u] /\ u \notin Range(snds[o])
      BY Zenon, <2>2, <1>11
    <3>3. /\ msq[u] \in Live /\ u \in Range(snds[msq[u]]) /\ msq[u] # o
          /\ ipc_lock(msqid[u]) = msq[u]
      BY Zenon, <3>1, <3>2, <2>0 DEF SendersListed
    <3>4. msqid[u] \in Int /\ msqid' = msqid /\ NULL \notin Live
      BY Zenon, <1>0, <1>1, LiveFacts DEF SysvTypeOK
    <3> QED BY Zenon, <3>1, <3>3, <3>4, <2>0, <1>5, <1>6
  <2> QED BY Zenon, <2>1, <2>2 DEF SendersListed
<1>g. Told'
  <2>1. ASSUME NEW u \in Task
        PROVE  /\ pc'[u] = "rcv" /\ r_msg'[u] # "EAGAIN" => wake'[u] > 0
               /\ killed'[u] => wake'[u] > 0
    <3>1. wake[u] \in Nat /\ wake'[u] \in Nat
      BY Zenon, <1>0, <1>7 DEF SysvTypeOK
    <3>2. wake[u] > 0 => wake'[u] > 0
      BY SMT, Z3, <3>1, <1>7
    <3>3. killed'[u] => wake'[u] > 0
      BY Zenon, <3>2, <1>7, <1>11 DEF Inv, Told
    <3>4. pc'[u] = "rcv" /\ r_msg'[u] # "EAGAIN" => wake'[u] > 0
      BY Zenon, <3>2, <1>7, <1>8, <1>10 DEF Inv, Told
    <3> QED BY Zenon, <3>3, <3>4
  <2> QED BY Zenon, <2>1 DEF Told
<1>h. NoMatch'
  BY Zenon, <1>1, <1>5 DEF Inv, NoMatch, qVars
<1>i. Permitted'
  <2>1. ASSUME NEW u \in Task, pc'[u] \in {"rcv", "snd"}, wake'[u] = 0
        PROVE  pc[u] = pc'[u] /\ msq'[u] = msq[u] /\ wake[u] = 0
    <3>1. wake[u] \in Nat /\ wake'[u] >= wake[u]
      BY Zenon, <1>0, <1>7 DEF SysvTypeOK
    <3> QED BY SMT, Z3, <3>1, <2>1, <1>8
  <2>2. acl' = acl /\ UNCHANGED <<cbytes, qnum, qbytes>> /\ req' = req
    BY Zenon, <1>1 DEF qVars
  <2> QED BY SMT, Z3, <2>1, <2>2, SameAcl, SameFull DEF Inv, Permitted
<1>j. MessagesOwned'
  <2>1. \A u \in Task : r_msg'[u] = r_msg[u] \/ (r_msg[u] \notin Msg /\ r_msg'[u] \notin Msg)
    BY Zenon, <1>9, <1>10, MsgAssumption
  <2>2. \A u \in Task, p \in Obj : r_msg'[u] \notin Range(msgs[p])
    <3>1. \A p \in Obj : Range(msgs[p]) \subseteq Msg
      BY SMT, Z3, <1>0 DEF SysvTypeOK, Range
    <3> QED BY Zenon, <3>1, <2>1 DEF Inv, MessagesOwned
  <2>3. msgs' = msgs /\ s_msg' = s_msg /\ heap' = heap
    BY Zenon, <1>1 DEF qVars
  <2> QED BY SMT, Z3, <2>1, <2>2, <2>3 DEF Inv, MessagesOwned
<1> QED BY Zenon, <1>4, <1>a, <1>b, <1>c, <1>d, <1>e, <1>f, <1>g, <1>h, <1>i, <1>j DEF Inv

\* Freeing a removed queue preserves the invariant: nobody points to it.
LEMMA CtlRmidFreeInv ==
  ASSUME Inv, NEW t \in Task, CtlRmidFree(t)
  PROVE  Inv'
<1> DEFINE o == msq[t]
<1>0. SysvTypeOK /\ TableInv /\ FrameInv /\ SemHeld
  BY DEF Inv
<1>1. /\ pc[t] = "rmfree" /\ sem' = NoTask
      /\ heap' = [m \in Msg |-> IF m \in Range(msgs[o]) THEN Free ELSE heap[m]]
      /\ msg_hdrs' = msg_hdrs - Len(msgs[o])
      /\ msg_bytes' = msg_bytes - cbytes[o]
      /\ acl' = [acl EXCEPT ![o] = FreeAcl]
      /\ qbytes' = [qbytes EXCEPT ![o] = 0]
      /\ cbytes' = [cbytes EXCEPT ![o] = 0]
      /\ qnum' = [qnum EXCEPT ![o] = 0]
      /\ msgs' = [msgs EXCEPT ![o] = << >>]
      /\ rcvs' = [rcvs EXCEPT ![o] = << >>]
      /\ snds' = [snds EXCEPT ![o] = << >>]
      /\ Leave(t, Ok(0))
      /\ UNCHANGED <<idsVars, r_msg, info, wake>>
  BY Zenon DEF CtlRmidFree, RmidFree
<1>2. o \in Obj /\ o \notin Live
  BY Zenon, <1>0, <1>1 DEF FrameInv
<1> HIDE DEF o
<1>3. TableKept
  BY Zenon, <1>0, <1>1, KeptWhenUnchanged
<1>4. Frames(t) /\ pc'[t] = "idle" /\ s_msg'[t] = "none" /\ killed'[t] = FALSE
  BY Zenon, <1>0, <1>1, LeaveFrames
<1>5. \A p \in Obj : p # o => /\ msgs'[p] = msgs[p] /\ rcvs'[p] = rcvs[p]
                              /\ snds'[p] = snds[p] /\ acl'[p] = acl[p]
                              /\ qbytes'[p] = qbytes[p] /\ cbytes'[p] = cbytes[p]
                              /\ qnum'[p] = qnum[p]
  BY Zenon, <1>0, <1>1 DEF SysvTypeOK
<1>6. Range(msgs'[o]) = {} /\ IsInjective(msgs'[o])
  BY SMT, Z3, <1>0, <1>1, <1>2 DEF Range, IsInjective, SysvTypeOK
<1>7. \A u \in Task : u # t => /\ pc'[u] = pc[u] /\ msqid'[u] = msqid[u]
                               /\ msq'[u] = msq[u] /\ req'[u] = req[u]
  BY Zenon, <1>4 DEF Frames
<1>8. \A u \in Task : u # t => killed'[u] = killed[u]
  BY Zenon, <1>4 DEF Frames
<1>9. s_msg' = s_msg
  BY Zenon, <1>0, <1>1, <1>4, SameSender
<1>10. r_msg' = r_msg /\ wake' = wake
  BY Zenon, <1>1
<1>11. Live' = Live /\ Live \subseteq Obj /\ NULL \notin Live
  BY Zenon, <1>0, <1>3, LiveFacts DEF TableKept
<1>a. SysvTypeOK'
  <2>1. /\ qbytes' \in [Obj -> Nat] /\ qnum' \in [Obj -> Int] /\ cbytes' \in [Obj -> Int]
        /\ msgs' \in [Obj -> Seq(Msg)] /\ rcvs' \in [Obj -> Seq(Task)]
        /\ snds' \in [Obj -> Seq(Task)] /\ msg_bytes' \in Int /\ msg_hdrs' \in Int
    <3>1. Len(msgs[o]) \in Int /\ cbytes[o] \in Int /\ msg_bytes \in Int /\ msg_hdrs \in Int
      BY SMT, Z3, <1>0, <1>2 DEF SysvTypeOK
    <3>2. << >> \in Seq(Msg) /\ << >> \in Seq(Task)
      BY SMT, Z3
    <3>3. msg_bytes' \in Int /\ msg_hdrs' \in Int
      BY SMT, Z3, <3>1, <1>1
    <3>4. msgs' \in [Obj -> Seq(Msg)] /\ rcvs' \in [Obj -> Seq(Task)]
          /\ snds' \in [Obj -> Seq(Task)]
      BY Zenon, <3>2, <1>0, <1>1 DEF SysvTypeOK
    <3>5. qbytes' \in [Obj -> Nat] /\ qnum' \in [Obj -> Int] /\ cbytes' \in [Obj -> Int]
      <4>1. qbytes \in [Obj -> Nat] /\ qnum \in [Obj -> Int] /\ cbytes \in [Obj -> Int]
        BY Zenon, <1>0 DEF SysvTypeOK
      <4>2. /\ qbytes' = [qbytes EXCEPT ![o] = 0] /\ qnum' = [qnum EXCEPT ![o] = 0]
            /\ cbytes' = [cbytes EXCEPT ![o] = 0]
        BY Zenon, <1>1
      <4>3. 0 \in Nat /\ 0 \in Int
        BY SMT, Z3
      <4> QED BY Zenon, <4>1, <4>2, <4>3, ExceptType
    <3> QED BY Zenon, <3>3, <3>4, <3>5
  <2>2. heap' \in [Msg -> [type : Int, ts : Int]]
    BY SMT, Z3, <1>0, <1>1 DEF SysvTypeOK, Free
  <2>3. FreeAcl \in Acl
    BY Zenon DEF FreeAcl, Acl, Uid, Gid, Modes
  <2>4. acl' \in [Obj -> Acl]
    BY Zenon, <2>3, <1>0, <1>1, <1>2 DEF SysvTypeOK
  <2>5. /\ r_msg' \in [Task -> Msg \cup {"none", "EAGAIN", "EIDRM", "E2BIG"}]
        /\ wake' \in [Task -> Nat] /\ sem' \in Task \cup {NoTask}
    BY Zenon, <1>0, <1>1, <1>10 DEF SysvTypeOK
  <2> QED BY Zenon, <2>1, <2>2, <2>4, <2>5, <1>0, <1>3, <1>4, TypeKept DEF TableKept
<1>b. NoBug' /\ SemHeld'
  BY Zenon, <1>0, <1>1, <1>3, <1>4, <1>7, TaskAssumption DEF Inv, NoBug, SemHeld, TableKept
<1>c. FrameInv'
  <2>1. \A u \in Task : killed'[u] => pc'[u] = "snd"
    BY Zenon, <1>0, <1>4, <1>7, <1>8 DEF FrameInv
  <2>2. \A u \in Task : /\ pc[u] = "snd" <=> s_msg[u] # "none"
                        /\ pc[u] = "rcv" <=> r_msg[u] # "none"
                        /\ pc[u] = "snd" => req[u].type >= 1 /\ req[u].sz >= 0
    BY Zenon, <1>0 DEF FrameInv
  <2>3. \A u \in Task : u # t => pc[u] \notin {"getret", "rmfree"}
    BY Zenon, <1>0, <1>1 DEF SemHeld
  <2>4. \A u \in Task : /\ pc'[u] = "snd" => pc[u] = "snd" /\ req'[u] = req[u]
                        /\ pc[u] = "snd" => pc'[u] = "snd"
                        /\ pc'[u] = "rcv" <=> pc[u] = "rcv"
                        /\ pc'[u] \notin {"getret", "rmfree"}
    BY Zenon, <2>3, <1>1, <1>4, <1>7
  <2> QED BY Zenon, <2>1, <2>2, <2>4, <1>9, <1>10 DEF FrameInv
<1>d. Clean'
  <2>1. Clean
    BY Zenon DEF Inv
  <2>2. \A u \in Task : u # t => pc[u] # "rmfree"
    BY Zenon, <1>0, <1>1 DEF SemHeld
  <2> QED BY Zenon, <2>1, <2>2, <1>5, <1>6, <1>11 DEF Clean, o
<1>e. ReceiversListed'
  <2>1. \A u \in Task : msqid[u] \in Int
    BY Zenon, <1>0 DEF SysvTypeOK
  <2>2. \A p \in Live : rcvs'[p] = rcvs[p]
    BY Zenon, <1>2, <1>5, <1>11
  <2> QED BY SMT, Z3, <2>1, <2>2, <1>1, <1>3, <1>4, <1>7, <1>10, <1>11
          DEF Inv, ReceiversListed, TableKept
<1>f. SendersListed'
  <2>1. \A p \in Live : snds'[p] = snds[p]
    BY Zenon, <1>2, <1>5, <1>11
  <2>2. \A u \in Task : (pc[u] = "snd" \/ pc'[u] = "snd") =>
                          /\ u # t /\ pc'[u] = pc[u] /\ msq'[u] = msq[u]
                          /\ killed'[u] = killed[u] /\ msqid'[u] = msqid[u]
    BY Zenon, <1>1, <1>4, <1>7, <1>8
  <2>3. \A u \in Task : msqid[u] \in Int
    BY <1>0 DEF SysvTypeOK
  <2> QED BY SMT, Z3, <2>1, <2>2, <2>3, <1>3, <1>11 DEF Inv, SendersListed, TableKept
<1>g. Told'
  <2>1. \A u \in Task : killed'[u] => killed[u]
    BY Zenon, <1>4, <1>8
  <2> QED BY Zenon, <2>1, <1>4, <1>7, <1>10 DEF Inv, Told
<1>h. NoMatch'
  <2>1. ASSUME NEW p \in Live, NEW u \in Task, NEW m \in Msg,
               u \in Range(rcvs'[p]), m \in Range(msgs'[p])
        PROVE  ~ testmsg(heap'[m].type, req'[u])
    <3>1. u \in Range(rcvs[p]) /\ m \in Range(msgs[p]) /\ p # o /\ p \in Obj
      BY Zenon, <2>1, <1>2, <1>5, <1>11
    <3>2. u # t /\ req'[u] = req[u]
      <4>1. pc[u] = "rcv"
        BY Zenon, <3>1 DEF Inv, ReceiversListed
      <4>2. u # t
        BY Zenon, <4>1, <1>1
      <4> QED BY Zenon, <4>2, <1>7
    <3>3. m \notin Range(msgs[o])
      BY Zenon, <3>1, <1>2 DEF Inv, MessagesOwned
    <3>4. heap'[m] = heap[m]
      BY Zenon, <3>3, <1>1
    <3> QED BY Zenon, <3>1, <3>2, <3>4 DEF Inv, NoMatch
  <2> QED BY Zenon, <2>1, <1>11 DEF NoMatch
<1>i. Permitted'
  <2>1. ASSUME NEW u \in Task, pc'[u] \in {"rcv", "snd"}, wake'[u] = 0
        PROVE  /\ pc[u] = pc'[u] /\ msq'[u] = msq[u] /\ req'[u] = req[u] /\ wake[u] = 0
               /\ msq[u] \in Obj /\ msq[u] # o
    <3>1. pc[u] = pc'[u] /\ msq'[u] = msq[u] /\ req'[u] = req[u] /\ wake[u] = 0
      BY Zenon, <2>1, <1>4, <1>7, <1>10
    <3>2. msq[u] \in Live
      BY SMT, Z3, <3>1, <2>1 DEF Inv, Told, ReceiversListed, SendersListed
    <3> QED BY Zenon, <3>1, <3>2, <1>2, <1>11
  <2>2. ASSUME NEW u \in Task, pc'[u] = "rcv", wake'[u] = 0
        PROVE  ipcperms(u, msq[u], {"r"})'
    <3>1. ipcperms(u, msq[u], {"r"})
      BY Zenon, <2>1, <2>2 DEF Inv, Permitted
    <3>2. msq'[u] = msq[u] /\ acl'[msq[u]] = acl[msq[u]]
      BY Zenon, <2>1, <2>2, <1>5
    <3> QED BY Zenon, <3>1, <3>2 DEF ipcperms, granted
  <2>3. ASSUME NEW u \in Task, pc'[u] = "snd", wake'[u] = 0
        PROVE  ipcperms(u, msq[u], {"w"})' /\ full(msq[u], req[u].sz)'
    <3>1. ipcperms(u, msq[u], {"w"}) /\ full(msq[u], req[u].sz)
      BY Zenon, <2>1, <2>3 DEF Inv, Permitted
    <3>2. /\ msq'[u] = msq[u] /\ req'[u] = req[u] /\ acl'[msq[u]] = acl[msq[u]]
          /\ cbytes'[msq[u]] = cbytes[msq[u]] /\ qnum'[msq[u]] = qnum[msq[u]]
          /\ qbytes'[msq[u]] = qbytes[msq[u]]
      BY Zenon, <2>1, <2>3, <1>5
    <3>3. ipcperms(u, msq[u], {"w"})'
      BY Zenon, <3>1, <3>2 DEF ipcperms, granted
    <3>4. full(msq[u], req[u].sz)'
      BY Zenon, <3>1, <3>2 DEF full
    <3> QED BY Zenon, <3>3, <3>4
  <2> QED BY Zenon, <2>2, <2>3 DEF Permitted
<1>j. MessagesOwned'
  <2>0. MessagesOwned
    BY Zenon DEF Inv
  <2>1. \A p \in Obj : /\ Range(msgs'[p]) \subseteq Range(msgs[p])
                       /\ p # o => Range(msgs'[p]) = Range(msgs[p])
                       /\ IsInjective(msgs'[p])
    BY Zenon, <2>0, <1>5, <1>6 DEF MessagesOwned
  <2>2. ASSUME NEW m \in Msg
        PROVE  heap'[m] # Free <=> \/ \E p \in Obj : m \in Range(msgs'[p])
                                   \/ \E u \in Task : m \in {s_msg'[u], r_msg'[u]}
    <3>1. CASE m \in Range(msgs[o])
      <4>1. \A p \in Obj : m \notin Range(msgs'[p])
        BY Zenon, <3>1, <2>0, <2>1, <1>2, <1>6 DEF MessagesOwned
      <4>2. \A u \in Task : m \notin {s_msg[u], r_msg[u]}
        BY SMT, Z3, <3>1, <2>0, <1>2 DEF MessagesOwned
      <4> QED BY Zenon, <4>1, <4>2, <3>1, <1>1, <1>9, <1>10
    <3>2. CASE m \notin Range(msgs[o])
      <4>1. heap'[m] = heap[m]
        BY Zenon, <3>2, <1>1
      <4>2. \A p \in Obj : m \in Range(msgs'[p]) <=> m \in Range(msgs[p])
        BY Zenon, <3>2, <2>1
      <4> QED BY Zenon, <4>1, <4>2, <2>0, <1>9, <1>10 DEF MessagesOwned
    <3> QED BY Zenon, <3>1, <3>2
  <2>3. /\ \A p, q \in Obj : p # q => Range(msgs'[p]) \cap Range(msgs'[q]) = {}
        /\ \A p \in Obj, u \in Task : /\ s_msg'[u] \notin Range(msgs'[p])
                                      /\ r_msg'[u] \notin Range(msgs'[p])
    <3>1. \A p, q \in Obj : p # q => Range(msgs[p]) \cap Range(msgs[q]) = {}
      BY Zenon, <2>0 DEF MessagesOwned
    <3>2. \A p, q \in Obj : p # q => Range(msgs'[p]) \cap Range(msgs'[q]) = {}
      BY Zenon, <3>1, <2>1
    <3>3. \A p \in Obj, u \in Task : /\ s_msg[u] \notin Range(msgs[p])
                                     /\ r_msg[u] \notin Range(msgs[p])
      BY Zenon, <2>0 DEF MessagesOwned
    <3> QED BY Zenon, <3>2, <3>3, <2>1, <1>9, <1>10
  <2> QED BY Zenon, <2>0, <2>1, <2>2, <2>3, <1>9, <1>10 DEF MessagesOwned
<1> QED BY Zenon, <1>3, <1>a, <1>b, <1>c, <1>d, <1>e, <1>f, <1>g, <1>h, <1>i, <1>j
        DEF Inv, TableKept
=============================================================================
