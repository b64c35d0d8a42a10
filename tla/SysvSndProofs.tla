--------------------------- MODULE SysvSndProofs ----------------------------
(***************************************************************************)
(* rt_msgsnd preserves the invariant of the message queues.                 *)
(***************************************************************************)
EXTENDS SysvMsgInv

-----------------------------------------------------------------------------
\* Where rt_msgsnd is at the label retry: the message m belongs to the call, and
\* t is in no list any more.
SndCtx(t, r, m, lists, w) ==
  /\ pc[t] \in {"idle", "snd"}
  /\ r \in SndArgs /\ r.type >= 1 /\ r.sz >= 0
  /\ m \in Msg
  /\ \A p \in Obj : m \notin Range(msgs[p])
  /\ \A u \in Task : r_msg[u] # m /\ (u # t => s_msg[u] # m)
  /\ s_msg[t] \in {m, "none"}
  /\ lists \in [Obj -> Seq(Task)]
  /\ \A p \in Live : Range(lists[p]) = Range(snds[p]) \ {t}
  /\ w \in [Task -> Nat] /\ \A u \in Task : u # t => w[u] = wake[u]

\* rt_msgsnd has loaded its message.
LEMMA SndCtxIdle ==
  ASSUME Inv, NEW t \in Task, pc[t] = "idle", NEW r \in SndReqs,
         r.sz >= 0, r.type >= 1, NEW m \in FreeMsg
  PROVE  SndCtx(t, r, m, snds, wake)
<1>1. SysvTypeOK /\ FrameInv /\ MessagesOwned /\ SendersListed
  BY Zenon DEF Inv
<1>2. m \in Msg /\ heap[m] = Free
  BY Zenon DEF FreeMsg
<1>3. /\ \A p \in Obj : m \notin Range(msgs[p])
      /\ \A u \in Task : r_msg[u] # m /\ s_msg[u] # m
  BY Zenon, <1>1, <1>2 DEF MessagesOwned
<1>4. s_msg[t] = "none" /\ \A p \in Live : t \notin Range(snds[p])
  BY Zenon, <1>1 DEF FrameInv, SendersListed
<1>5. r \in SndArgs /\ wake \in [Task -> Nat] /\ snds \in [Obj -> Seq(Task)]
  BY Zenon, <1>1, SndAssumption DEF SysvTypeOK
<1> QED BY Zenon, <1>2, <1>3, <1>4, <1>5 DEF SndCtx

\* rt_msgsnd comes back from schedule() and ss_del.
LEMMA SndCtxWake ==
  ASSUME Inv, NEW t \in Task, pc[t] = "snd", wake[t] > 0
  PROVE  SndCtx(t, req[t], s_msg[t],
                IF killed[t] THEN snds ELSE [snds EXCEPT ![msq[t]] = Without(@, {t})],
                [wake EXCEPT ![t] = @ - 1])
<1> DEFINE lists == IF killed[t] THEN snds
                    ELSE [snds EXCEPT ![msq[t]] = Without(@, {t})]
           w == [wake EXCEPT ![t] = @ - 1]
           m == s_msg[t]
<1>1. SysvTypeOK /\ TableInv /\ FrameInv /\ MessagesOwned /\ SendersListed
  BY Zenon DEF Inv
<1>2. m \in Msg
  BY Zenon, <1>1 DEF FrameInv, SysvTypeOK
<1>3. /\ \A p \in Obj : m \notin Range(msgs[p])
      /\ \A u \in Task : r_msg[u] # m /\ (u # t => s_msg[u] # m)
  BY Zenon, <1>1, <1>2 DEF MessagesOwned
<1>4. w \in [Task -> Nat] /\ \A u \in Task : u # t => w[u] = wake[u]
  <2>1. wake \in [Task -> Nat] /\ wake[t] - 1 \in Nat
    BY SMT, Z3, <1>1 DEF SysvTypeOK
  <2> QED BY Zenon, <2>1
<1>5. lists \in [Obj -> Seq(Task)] /\ \A p \in Live : Range(lists[p]) = Range(snds[p]) \ {t}
  <2>0. snds \in [Obj -> Seq(Task)] /\ Live \subseteq Obj
    BY Zenon, <1>1, LiveFacts DEF SysvTypeOK
  <2>1. CASE killed[t]
    <3>1. \A p \in Live : t \notin Range(snds[p])
      BY Zenon, <2>1, <1>1 DEF SendersListed
    <3> QED BY Zenon, <2>0, <2>1, <3>1
  <2>2. CASE ~ killed[t]
    <3>1. msq[t] \in Live /\ msq[t] \in Obj
      BY Zenon, <2>0, <2>2, <1>1 DEF SendersListed
    <3>2. lists = [snds EXCEPT ![msq[t]] = Without(snds[msq[t]], {t})]
      BY Zenon, <2>2
    <3>3. /\ Without(snds[msq[t]], {t}) \in Seq(Task)
          /\ Range(Without(snds[msq[t]], {t})) = Range(snds[msq[t]]) \ {t}
      BY Zenon, <2>0, <3>1, WithoutLemma
    <3>4. \A p \in Live : p # msq[t] => t \notin Range(snds[p])
      BY Zenon, <1>1 DEF SendersListed
    <3> HIDE DEF lists
    <3>5. lists \in [Obj -> Seq(Task)]
      BY Zenon, <2>0, <3>2, <3>3
    <3>6. /\ lists[msq[t]] = Without(snds[msq[t]], {t})
          /\ \A p \in Live : p # msq[t] => lists[p] = snds[p]
      BY Zenon, <2>0, <3>1, <3>2
    <3> QED BY Zenon, <3>3, <3>4, <3>5, <3>6
  <2> QED BY Zenon, <2>1, <2>2
<1>6. req[t] \in SndArgs /\ req[t].type >= 1 /\ req[t].sz >= 0
  BY Zenon, <1>1 DEF SysvTypeOK, FrameInv
<1> HIDE DEF lists, w, m
<1>7. SndCtx(t, req[t], m, lists, w)
  BY Zenon, <1>2, <1>3, <1>4, <1>5, <1>6 DEF SndCtx, m
<1> QED BY Zenon, <1>7 DEF lists, w, m

\* The call returns or sleeps, and no other task is concerned.
LEMMA SndQuiet ==
  ASSUME Inv, NEW t \in Task, NEW r, NEW m, NEW lists, NEW w,
         SndCtx(t, r, m, lists, w), Frames(t), TableKept,
         snds' = lists, wake' = w, UNCHANGED <<qVars, rcvs, r_msg>>
  PROVE  /\ Kept(t) /\ r_msg'[t] = "none"
         /\ \A p \in Live : t \notin Range(rcvs'[p]) /\ t \notin Range(snds'[p])
<1>1. FrameInv /\ ReceiversListed /\ SysvTypeOK
  BY Zenon DEF Inv
<1>2. r_msg[t] = "none" /\ \A p \in Live : t \notin Range(rcvs[p])
  BY Zenon, <1>1 DEF FrameInv, ReceiversListed, SndCtx
<1>3. \A p \in Live : Range(snds'[p]) = Range(snds[p]) \ {t}
  BY Zenon DEF SndCtx
<1>4. \A u \in Task : u # t => wake'[u] >= wake[u]
  BY SMT, Z3, <1>1 DEF SndCtx, SysvTypeOK
<1>5. Kept(t)
  BY Zenon, <1>3, <1>4 DEF Kept, Frames
<1> QED BY Zenon, <1>2, <1>3, <1>5

\* rt_msgsnd frees its message and returns an error.
LEMMA SndGiveUpInv ==
  ASSUME Inv, NEW t \in Task, NEW r, NEW m, NEW lists, NEW w, NEW e,
         SndCtx(t, r, m, lists, w), SndGiveUp(t, m, e),
         snds' = lists, wake' = w, UNCHANGED <<idsVars, sem>>
  PROVE  Inv'
<1>0. SysvTypeOK /\ TableInv /\ FrameInv /\ MessagesOwned
  BY Zenon DEF Inv
<1>1. /\ heap' = [heap EXCEPT ![m] = Free] /\ Leave(t, Err(e))
      /\ UNCHANGED <<qVars, counters, rcvs, r_msg>>
  BY Zenon DEF SndGiveUp
<1>2. TableKept
  BY Zenon, <1>0, KeptWhenUnchanged
<1>3. Frames(t) /\ pc'[t] = "idle" /\ s_msg'[t] = "none" /\ killed'[t] = FALSE
  BY Zenon, <1>0, <1>1, LeaveFrames
<1>4. /\ Kept(t) /\ r_msg'[t] = "none"
      /\ \A p \in Live : t \notin Range(rcvs'[p]) /\ t \notin Range(snds'[p])
  BY Zenon, <1>1, <1>2, <1>3, SndQuiet
<1>5. Awake(t)'
  BY Zenon, <1>2, <1>3, <1>4 DEF Awake, TableKept
<1>6. m \in Msg /\ \A x \in Msg : x # m => heap'[x] = heap[x]
  BY Zenon, <1>0, <1>1 DEF SndCtx, SysvTypeOK
<1>7. heap'[m] = Free /\ heap' \in [Msg -> [type : Int, ts : Int]]
  BY SMT, Z3, <1>0, <1>1, <1>6 DEF SysvTypeOK, Free
<1>8. SysvTypeOK'
  <2>1. lists \in [Obj -> Seq(Task)] /\ w \in [Task -> Nat]
    BY Zenon DEF SndCtx
  <2> QED BY Zenon, <2>1, <1>0, <1>1, <1>2, <1>3, <1>7, TypeKept
          DEF SysvTypeOK, qVars, counters, TableKept
<1>9. /\ TableInv' /\ NoBug' /\ SemHeld' /\ FrameInv' /\ Clean'
      /\ ReceiversListed' /\ SendersListed' /\ Told'
  <2>1. pc[t] \in {"idle", "snd", "rcv"} /\ \A p \in Obj \ Live : msgs'[p] = msgs[p]
    BY Zenon, <1>1 DEF SndCtx, qVars
  <2> QED BY Zenon, <2>1, <1>2, <1>4, <1>5, <1>8, ListsKept
<1>10. NoMatch'
  <2>1. ASSUME NEW p \in Live, NEW u \in Task, NEW x \in Msg,
               u \in Range(rcvs'[p]), x \in Range(msgs'[p])
        PROVE  ~ testmsg(heap'[x].type, req'[u])
    <3>1. u # t /\ req'[u] = req[u] /\ u \in Range(rcvs[p]) /\ x \in Range(msgs[p])
      BY Zenon, <2>1, <1>1, <1>3, <1>4 DEF Frames, qVars
    <3>2. p \in Obj
      BY Zenon, <1>0, LiveFacts
    <3>3. heap'[x] = heap[x]
      BY Zenon, <3>1, <3>2, <1>6 DEF SndCtx
    <3> QED BY Zenon, <3>1, <3>3 DEF Inv, NoMatch
  <2> QED BY Zenon, <2>1, <1>2 DEF NoMatch, TableKept
<1>11. Permitted'
  <2>1. wake' \in [Task -> Nat]
    BY Zenon, <1>8 DEF SysvTypeOK
  <2> QED BY Zenon, <2>1, <1>1, <1>3, <1>4, PermittedKept DEF qVars
<1>12. MessagesOwned'
  <2>1. \A p \in Obj : IsInjective(msgs'[p]) /\ Range(msgs'[p]) \subseteq Msg
    BY SMT, Z3, <1>0, <1>1 DEF MessagesOwned, SysvTypeOK, Range, qVars
  <2>2. msgs' = msgs /\ r_msg' = r_msg
    BY Zenon, <1>1 DEF qVars
  <2>3. \A u \in Task, x \in Msg : x # m =>
           /\ s_msg'[u] = x <=> s_msg[u] = x
           /\ r_msg'[u] = x <=> r_msg[u] = x
    BY Zenon, <2>2, <1>3, MsgAssumption DEF SndCtx, Frames
  <2>4. \A p \in Obj : m \notin Range(msgs'[p])
    BY Zenon, <2>2 DEF SndCtx
  <2>5. \A u \in Task : s_msg'[u] # m /\ r_msg'[u] # m
    BY Zenon, <2>2, <1>3, <1>6, MsgAssumption DEF SndCtx, Frames
  <2>6. Moved(m) /\ Unowned(m)'
    BY Zenon, <2>1, <2>2, <2>3, <2>4, <2>5, <1>6, <1>7 DEF Moved, Unowned
  <2> QED BY Zenon, <2>6, <1>0, <1>6, OwnerMoves
<1> QED BY Zenon, <1>8, <1>9, <1>10, <1>11, <1>12 DEF Inv

\* rt_msgsnd goes to sleep because the message does not fit.
LEMMA SndSleepInv ==
  ASSUME Inv, NEW t \in Task, NEW id \in Int, NEW r, NEW m, NEW lists, NEW w,
         SndCtx(t, r, m, lists, w), ipc_lock(id) # NULL,
         ipcperms(t, ipc_lock(id), {"w"}), full(ipc_lock(id), r.sz),
         SndSleep(t, id, r, m, ipc_lock(id), lists), wake' = w,
         UNCHANGED <<idsVars, sem>>
  PROVE  Inv'
<1> DEFINE o == ipc_lock(id)
<1>0. SysvTypeOK /\ TableInv /\ FrameInv /\ MessagesOwned
  BY Zenon DEF Inv
<1>1. /\ snds' = [lists EXCEPT ![o] = Append(@, t)]
      /\ heap' = [heap EXCEPT ![m] = [type |-> r.type, ts |-> r.sz]]
      /\ Stay(t, "snd", id, o, r, m) /\ UNCHANGED <<qVars, counters, rcvs, r_msg>>
  BY Zenon DEF SndSleep
<1>2. o \in Live /\ o \in Obj
  BY Zenon, <1>0, LockLive
<1>3. TableKept /\ ipc_lock(id)' = o
  BY Zenon, <1>0, KeptWhenUnchanged DEF TableKept
<1>4. /\ r \in SndArgs /\ m \in Msg /\ lists \in [Obj -> Seq(Task)]
      /\ w \in [Task -> Nat] /\ pc[t] \in {"idle", "snd", "rcv"}
  BY Zenon DEF SndCtx
<1>5. /\ Frames(t) /\ pc'[t] = "snd" /\ msqid'[t] = id /\ msq'[t] = o
      /\ req'[t] = r /\ s_msg'[t] = m /\ killed'[t] = FALSE
  <2>1. o \in Obj \cup {NULL} /\ r \in SndArgs \cup RcvArgs \cup {NoReq}
        /\ m \in Msg \cup {"none"} /\ ("snd" = "rcv" => r \in RcvArgs)
    BY Zenon, <1>2, <1>4
  <2> QED BY <2>1, <1>0, <1>1, <1>4, StayFrames, Zenon
<1>6. /\ snds' \in [Obj -> Seq(Task)]
      /\ Range(snds'[o]) = Range(lists[o]) \cup {t}
      /\ \A p \in Obj : p # o => snds'[p] = lists[p]
  <2>1. /\ Append(lists[o], t) \in Seq(Task)
        /\ Range(Append(lists[o], t)) = Range(lists[o]) \cup {t}
    BY SMT, Z3, <1>2, <1>4, AppendRng
  <2> QED BY Zenon, <2>1, <1>1, <1>2, <1>4
<1>7. r_msg[t] = "none" /\ \A p \in Live : t \notin Range(rcvs[p])
  BY Zenon DEF Inv, FrameInv, ReceiversListed, SndCtx
<1> HIDE DEF o
<1>8. \A p \in Live : p \in Obj /\ Range(lists[p]) = Range(snds[p]) \ {t}
  BY Zenon, <1>0, LiveFacts DEF SndCtx
<1>9. \A u \in Task : u # t => wake'[u] >= wake[u]
  BY SMT, Z3, <1>0 DEF SndCtx, SysvTypeOK
<1>10. Kept(t)
  <2>1. \A u \in Task, p \in Live : u # t =>
          (u \in Range(snds'[p]) <=> u \in Range(snds[p]))
    BY Zenon, <1>6, <1>8
  <2> QED BY Zenon, <2>1, <1>1, <1>5, <1>9 DEF Kept, Frames
<1>11. SndAsleep(t)'
  <2>1. r.type >= 1 /\ r.sz >= 0 /\ m # "none"
    BY Zenon, <1>4, MsgAssumption DEF SndCtx
  <2>2. Live' = Live /\ r_msg' = r_msg /\ rcvs' = rcvs
    BY Zenon, <1>1, <1>3 DEF TableKept
  <2>3. t \in Range(snds'[o]) /\ \A p \in Live : t \in Range(snds'[p]) => p = o
    BY Zenon, <1>6, <1>8
  <2> QED BY Zenon, <2>1, <2>2, <2>3, <1>2, <1>3, <1>5, <1>7 DEF SndAsleep
<1>12. /\ heap'[m] = [type |-> r.type, ts |-> r.sz]
       /\ \A x \in Msg : x # m => heap'[x] = heap[x]
       /\ heap' \in [Msg -> [type : Int, ts : Int]]
  BY Zenon, <1>0, <1>1, <1>4 DEF SysvTypeOK, SndArgs
<1>13. SysvTypeOK'
  BY Zenon, <1>0, <1>1, <1>3, <1>4, <1>5, <1>6, <1>12, TypeKept
  DEF SysvTypeOK, qVars, counters, TableKept
<1>14. /\ TableInv' /\ NoBug' /\ SemHeld' /\ FrameInv' /\ Clean'
       /\ ReceiversListed' /\ SendersListed' /\ Told'
  <2>1. \A p \in Obj \ Live : msgs'[p] = msgs[p]
    BY Zenon, <1>1 DEF qVars
  <2> QED BY Zenon, <2>1, <1>3, <1>4, <1>10, <1>11, <1>13, ListsKept
<1>15. NoMatch'
  <2>1. ASSUME NEW p \in Live, NEW u \in Task, NEW x \in Msg,
               u \in Range(rcvs'[p]), x \in Range(msgs'[p])
        PROVE  ~ testmsg(heap'[x].type, req'[u])
    <3>1. u \in Range(rcvs[p]) /\ x \in Range(msgs[p])
      BY Zenon, <2>1, <1>1 DEF qVars
    <3>2. u # t /\ req'[u] = req[u]
      BY Zenon, <3>1, <1>5, <1>7 DEF Frames
    <3>3. heap'[x] = heap[x]
      BY Zenon, <3>1, <1>8, <1>12 DEF SndCtx
    <3> QED BY Zenon, <3>1, <3>2, <3>3 DEF Inv, NoMatch
  <2> QED BY Zenon, <2>1, <1>3 DEF NoMatch, TableKept
<1>16. Permitted'
  <2>0. acl' = acl /\ UNCHANGED <<cbytes, qnum, qbytes>>
    BY Zenon, <1>1 DEF qVars
  <2>1. ASSUME NEW u \in Task, u # t, pc'[u] \in {"rcv", "snd"}, wake'[u] = 0
        PROVE  /\ pc[u] = pc'[u] /\ msq'[u] = msq[u] /\ req'[u] = req[u] /\ wake[u] = 0
    <3>1. wake[u] \in Nat /\ wake'[u] >= wake[u]
      BY Zenon, <2>1, <1>0, <1>9 DEF SysvTypeOK
    <3> QED BY SMT, Z3, <2>1, <3>1, <1>10 DEF Kept
  <2>2. ASSUME NEW u \in Task, u # t
        PROVE  /\ pc'[u] = "rcv" /\ wake'[u] = 0 => ipcperms(u, msq[u], {"r"})'
               /\ pc'[u] = "snd" /\ wake'[u] = 0 => /\ ipcperms(u, msq[u], {"w"})'
                                                    /\ full(msq[u], req[u].sz)'
    BY SMT, Z3, <2>0, <2>1, <2>2, SameAcl, SameFull DEF Inv, Permitted
  <2>3. ipcperms(t, msq[t], {"w"})' /\ full(msq[t], req[t].sz)'
    <3>1. ipcperms(t, o, {"w"}) /\ full(o, r.sz)
      BY Zenon DEF o
    <3>2. ipcperms(t, msq[t], {"w"})'
      BY Zenon, <2>0, <3>1, <1>5 DEF ipcperms, granted
    <3>3. full(msq[t], req[t].sz)'
      BY Zenon, <2>0, <3>1, <1>5 DEF full
    <3> QED BY Zenon, <3>2, <3>3
  <2> QED BY Zenon, <2>2, <2>3, <1>5 DEF Permitted
<1>17. MessagesOwned'
  <2>1. \A p \in Obj : IsInjective(msgs'[p]) /\ Range(msgs'[p]) \subseteq Msg
    BY Zenon, <1>0, <1>1, MsgsTyped DEF MessagesOwned, qVars
  <2>2. msgs' = msgs /\ r_msg' = r_msg
    BY Zenon, <1>1 DEF qVars
  <2>3. \A u \in Task, x \in Msg : x # m =>
           /\ s_msg'[u] = x <=> s_msg[u] = x
           /\ r_msg'[u] = x <=> r_msg[u] = x
    BY Zenon, <2>2, <1>5, MsgAssumption DEF SndCtx, Frames
  <2>4. heap'[m] # Free
    <3>1. heap'[m].ts >= 0 /\ Free.ts = -1
      BY SMT, Z3, <1>12 DEF Free, SndCtx
    <3> QED BY SMT, Z3, <3>1
  <2>5. /\ \A p \in Obj : m \notin Range(msgs'[p])
        /\ \A v \in Task : v # t => s_msg'[v] # m
        /\ \A u \in Task : r_msg'[u] # m
    BY Zenon, <2>2, <1>5 DEF SndCtx, Frames
  <2>6. Moved(m) /\ OwnedBySender(m, t)'
    BY Zenon, <2>1, <2>2, <2>3, <2>4, <2>5, <1>5, <1>12 DEF Moved, OwnedBySender
  <2> QED BY Zenon, <2>6, <1>0, <1>4, OwnerMoves
<1> QED BY Zenon, <1>13, <1>14, <1>15, <1>16, <1>17 DEF Inv

-----------------------------------------------------------------------------
\* pipelined_send takes the receivers in S off the queue, with an answer each.
Answered(o, S, lists, w) ==
  /\ S \subseteq Range(rcvs[o])
  /\ rcvs' = [rcvs EXCEPT ![o] = Without(@, S)]
  /\ snds' = lists /\ wake' = resume(w, S)
  /\ r_msg' \in [Task -> Msg \cup {"none", "EAGAIN", "EIDRM", "E2BIG"}]
  /\ \A u \in Task : /\ u \in S => r_msg'[u] \notin {"none", "EAGAIN"}
                     /\ u \notin S => r_msg'[u] = r_msg[u]

\* Answering receivers leaves everything else about the tasks alone.
LEMMA AnswerKept ==
  ASSUME Inv, NEW t \in Task, NEW r, NEW m, NEW lists, NEW w, NEW o \in Live,
         NEW S, SndCtx(t, r, m, lists, w), Answered(o, S, lists, w),
         Frames(t), TableKept
  PROVE  /\ Kept(t) /\ r_msg'[t] = "none" /\ t \notin S
         /\ \A p \in Live : t \notin Range(rcvs'[p]) /\ t \notin Range(snds'[p])
         /\ rcvs' \in [Obj -> Seq(Task)] /\ wake' \in [Task -> Nat]
         /\ \A p \in Live : Range(rcvs'[p]) \subseteq Range(rcvs[p])
         /\ Range(rcvs'[o]) = Range(rcvs[o]) \ S
<1>0. SysvTypeOK /\ TableInv /\ FrameInv /\ ReceiversListed
  BY Zenon DEF Inv
<1>1. o \in Obj /\ Live \subseteq Obj /\ rcvs \in [Obj -> Seq(Task)]
  BY Zenon, <1>0, LiveFacts DEF SysvTypeOK
<1>2. /\ rcvs' \in [Obj -> Seq(Task)] /\ Range(rcvs'[o]) = Range(rcvs[o]) \ S
      /\ \A p \in Obj : p # o => rcvs'[p] = rcvs[p]
  <2>1. Without(rcvs[o], S) \in Seq(Task) /\ Range(Without(rcvs[o], S)) = Range(rcvs[o]) \ S
    BY Zenon, <1>1, WithoutLemma
  <2> QED BY Zenon, <2>1, <1>1 DEF Answered
<1>3. \A u \in Task : u \in S => pc[u] = "rcv" /\ msq[u] = o
  BY Zenon, <1>0 DEF ReceiversListed, Answered
<1>4. t \notin S /\ r_msg[t] = "none" /\ \A p \in Live : t \notin Range(rcvs[p])
  BY Zenon, <1>0, <1>3 DEF FrameInv, ReceiversListed, SndCtx
<1>5. \A p \in Live : Range(snds'[p]) = Range(snds[p]) \ {t}
  BY Zenon DEF SndCtx, Answered
<1>6. /\ wake' \in [Task -> Nat]
      /\ \A u \in Task : u # t => wake'[u] >= wake[u] /\ (u \in S => wake'[u] > 0)
  <2>1. w \in [Task -> Nat] /\ \A u \in Task : u # t => w[u] = wake[u]
    BY Zenon DEF SndCtx
  <2> QED BY Zenon, <2>1, ResumeType DEF Answered
<1>7. ASSUME NEW u \in Task, u # t
      PROVE  \/ /\ r_msg'[u] = r_msg[u]
                /\ \A p \in Live : u \in Range(rcvs'[p]) <=> u \in Range(rcvs[p])
             \/ /\ pc[u] = "rcv" /\ r_msg'[u] \notin {"none", "EAGAIN"} /\ wake'[u] > 0
                /\ \A p \in Live : u \notin Range(rcvs'[p])
  <2>1. CASE u \in S
    <3>1. \A p \in Live : p # o => u \notin Range(rcvs[p])
      BY SMT, Z3, <2>1, <1>0, <1>3 DEF ReceiversListed
    <3> QED BY Zenon, <2>1, <3>1, <1>1, <1>2, <1>3, <1>6, <1>7 DEF Answered
  <2>2. CASE u \notin S
    BY Zenon, <2>2, <1>1, <1>2 DEF Answered
  <2> QED BY Zenon, <2>1, <2>2
<1>8. Kept(t)
  <2>1. \A u \in Task, p \in Live : u # t =>
          (u \in Range(snds'[p]) <=> u \in Range(snds[p]))
    BY Zenon, <1>5
  <2> QED BY <2>1, <1>6, <1>7, Zenon DEF Kept, Frames
<1>9. \A p \in Live : Range(rcvs'[p]) \subseteq Range(rcvs[p])
  BY Zenon, <1>1, <1>2
<1>10. r_msg'[t] = "none"
  BY Zenon, <1>4 DEF Answered
<1> QED BY Zenon, <1>2, <1>4, <1>5, <1>6, <1>8, <1>9, <1>10

\* pipelined_send hands the message to a receiver.
LEMMA SndHandOverInv ==
  ASSUME Inv, NEW t \in Task, NEW r, NEW m, NEW lists, NEW w, NEW o \in Live,
         NEW i \in takers(o, r), SndCtx(t, r, m, lists, w),
         SndHandOver(t, r, m, o, i, w), snds' = lists,
         heap' = [heap EXCEPT ![m] = [type |-> r.type, ts |-> r.sz]],
         Leave(t, Ok(0)), UNCHANGED <<idsVars, sem>>
  PROVE  Inv'
<1> DEFINE to == rcvs[o][i]
           B == toobig(o, r)
           S == B \cup {to}
<1>0. SysvTypeOK /\ TableInv /\ FrameInv /\ MessagesOwned
  BY Zenon DEF Inv
<1>1. /\ r_msg' = [u \in Task |-> IF u = to THEN m
                                  ELSE IF u \in B THEN "E2BIG"
                                  ELSE r_msg[u]]
      /\ rcvs' = [rcvs EXCEPT ![o] = Without(@, S)] /\ wake' = resume(w, S)
      /\ UNCHANGED <<qVars, counters>>
  BY Zenon DEF SndHandOver, PassTo
<1>2. o \in Obj /\ Live \subseteq Obj /\ rcvs[o] \in Seq(Task)
  BY Zenon, <1>0, LiveFacts DEF SysvTypeOK
<1>3. S \subseteq Range(rcvs[o]) /\ to \in Task /\ Range(rcvs[o]) \subseteq Task
  BY SMT, Z3, <1>2 DEF takers, toobig, Range
<1>4. to \in Range(rcvs[o])
  BY Zenon, <1>3
<1> HIDE DEF to, B, S
<1>5. m \in Msg /\ pc[t] \in {"idle", "snd", "rcv"}
  BY Zenon DEF SndCtx
<1>6. TableKept
  BY Zenon, <1>0, KeptWhenUnchanged
<1>7. Frames(t) /\ pc'[t] = "idle" /\ s_msg'[t] = "none" /\ killed'[t] = FALSE
  BY Zenon, <1>0, LeaveFrames
<1>8. /\ r_msg' \in [Task -> Msg \cup {"none", "EAGAIN", "EIDRM", "E2BIG"}]
      /\ \A u \in Task : /\ u \in S => r_msg'[u] \notin {"none", "EAGAIN"}
                         /\ u \notin S => r_msg'[u] = r_msg[u]
  <2>1. r_msg \in [Task -> Msg \cup {"none", "EAGAIN", "EIDRM", "E2BIG"}]
    BY Zenon, <1>0 DEF SysvTypeOK
  <2> QED BY Zenon, <2>1, <1>1, <1>5, MsgAssumption DEF S
<1>9. /\ Kept(t) /\ r_msg'[t] = "none" /\ t \notin S
      /\ \A p \in Live : t \notin Range(rcvs'[p]) /\ t \notin Range(snds'[p])
      /\ rcvs' \in [Obj -> Seq(Task)] /\ wake' \in [Task -> Nat]
      /\ \A p \in Live : Range(rcvs'[p]) \subseteq Range(rcvs[p])
  <2>1. Answered(o, S, lists, w)
    BY Zenon, <1>1, <1>3, <1>8 DEF Answered
  <2> QED BY Zenon, <2>1, <1>6, <1>7, AnswerKept
<1>10. Awake(t)'
  BY Zenon, <1>6, <1>7, <1>9 DEF Awake, TableKept
<1>11. /\ heap'[m] = [type |-> r.type, ts |-> r.sz]
       /\ \A x \in Msg : x # m => heap'[x] = heap[x]
       /\ heap' \in [Msg -> [type : Int, ts : Int]]
  BY Zenon, <1>0, <1>5 DEF SysvTypeOK, SndArgs, SndCtx
<1>12. SysvTypeOK'
  <2>1. lists \in [Obj -> Seq(Task)]
    BY Zenon DEF SndCtx
  <2> QED BY Zenon, <2>1, <1>0, <1>1, <1>6, <1>7, <1>8, <1>9, <1>11, TypeKept
          DEF SysvTypeOK, qVars, counters, TableKept
<1>13. /\ TableInv' /\ NoBug' /\ SemHeld' /\ FrameInv' /\ Clean'
       /\ ReceiversListed' /\ SendersListed' /\ Told'
  <2>1. \A p \in Obj \ Live : msgs'[p] = msgs[p]
    BY Zenon, <1>1 DEF qVars
  <2> QED BY Zenon, <2>1, <1>5, <1>6, <1>9, <1>10, <1>12, ListsKept
<1>14. NoMatch'
  <2>1. ASSUME NEW p \in Live, NEW u \in Task, NEW x \in Msg,
               u \in Range(rcvs'[p]), x \in Range(msgs'[p])
        PROVE  ~ testmsg(heap'[x].type, req'[u])
    <3>1. u \in Range(rcvs[p]) /\ x \in Range(msgs[p]) /\ u # t /\ p \in Obj
      BY Zenon, <2>1, <1>1, <1>2, <1>9 DEF qVars
    <3>2. req'[u] = req[u]
      BY Zenon, <3>1, <1>7 DEF Frames
    <3>3. heap'[x] = heap[x]
      BY Zenon, <3>1, <1>11 DEF SndCtx
    <3> QED BY Zenon, <3>1, <3>2, <3>3 DEF Inv, NoMatch
  <2> QED BY Zenon, <2>1, <1>6 DEF NoMatch, TableKept
<1>15. Permitted'
  BY Zenon, <1>1, <1>7, <1>9, PermittedKept DEF qVars
<1>16. MessagesOwned'
  <2>1. \A p \in Obj : IsInjective(msgs'[p]) /\ Range(msgs'[p]) \subseteq Msg
    BY Zenon, <1>0, <1>1, MsgsTyped DEF MessagesOwned, qVars
  <2>2. msgs' = msgs
    BY Zenon, <1>1 DEF qVars
  <2>3. \A u \in Task, x \in Msg : x # m => (s_msg'[u] = x <=> s_msg[u] = x)
    BY Zenon, <1>7, MsgAssumption DEF SndCtx, Frames
  <2>4. \A u \in S : r_msg[u] = "EAGAIN"
    BY Zenon, <1>3 DEF Inv, ReceiversListed
  <2>5. \A u \in Task : /\ u = to => r_msg'[u] = m
                        /\ u # to /\ u \in S => r_msg'[u] = "E2BIG"
    BY Zenon, <1>1 DEF S
  <2>6. \A u \in Task, x \in Msg : x # m => (r_msg'[u] = x <=> r_msg[u] = x)
    <3>1. to \in S
      BY Zenon DEF S
    <3> QED BY Zenon, <2>4, <2>5, <3>1, <1>8, MsgAssumption
  <2>7. heap'[m] # Free
    <3>1. heap'[m].ts >= 0 /\ Free.ts = -1
      BY Zenon, <1>11 DEF Free, SndCtx
    <3> QED BY SMT, Z3, <3>1
  <2>8. /\ \A p \in Obj : m \notin Range(msgs'[p])
        /\ \A u \in Task : s_msg'[u] # m
    BY Zenon, <2>2, <1>5, <1>7, MsgAssumption DEF SndCtx, Frames
  <2>9. \A v \in Task : v # to => r_msg'[v] # m
    BY Zenon, <2>5, <1>5, <1>8, MsgAssumption DEF SndCtx
  <2>10. PICK v \in Task : v = to
    BY Zenon, <1>3
  <2>11. Moved(m)
    BY Zenon, <2>1, <2>2, <2>3, <2>6, <1>11 DEF Moved
  <2>12. OwnedByReceiver(m, v)'
    BY Zenon, <2>5, <2>7, <2>8, <2>9, <2>10 DEF OwnedByReceiver
  <2> QED BY Zenon, <2>11, <2>12, <1>0, <1>5, OwnerMoves
<1> QED BY Zenon, <1>12, <1>13, <1>14, <1>15, <1>16 DEF Inv

\* rt_msgsnd puts the message on the queue: no listed receiver wanted it.
LEMMA SndEnqueueInv ==
  ASSUME Inv, NEW t \in Task, NEW r, NEW m, NEW lists, NEW w, NEW o \in Live,
         takers(o, r) = {}, SndCtx(t, r, m, lists, w),
         SndEnqueue(t, r, m, o, w), snds' = lists,
         heap' = [heap EXCEPT ![m] = [type |-> r.type, ts |-> r.sz]],
         Leave(t, Ok(0)), UNCHANGED <<idsVars, sem>>
  PROVE  Inv'
<1> DEFINE S == toobig(o, r)
<1>0. SysvTypeOK /\ TableInv /\ FrameInv /\ MessagesOwned
  BY Zenon DEF Inv
<1>1. /\ r_msg' = [u \in Task |-> IF u \in S THEN "E2BIG" ELSE r_msg[u]]
      /\ rcvs' = [rcvs EXCEPT ![o] = Without(@, S)] /\ wake' = resume(w, S)
      /\ msgs' = [msgs EXCEPT ![o] = Append(@, m)]
      /\ cbytes' = [cbytes EXCEPT ![o] = @ + r.sz]
      /\ qnum' = [qnum EXCEPT ![o] = @ + 1]
      /\ msg_bytes' = msg_bytes + r.sz
      /\ msg_hdrs' = msg_hdrs + 1
      /\ acl' = acl /\ qbytes' = qbytes
  BY Zenon DEF SndEnqueue
<1>2. /\ o \in Obj /\ Live \subseteq Obj /\ rcvs[o] \in Seq(Task)
      /\ msgs \in [Obj -> Seq(Msg)]
  BY Zenon, <1>0, LiveFacts DEF SysvTypeOK
<1>3. S \subseteq Range(rcvs[o]) /\ Range(rcvs[o]) \subseteq Task
  BY SMT, Z3, <1>2 DEF toobig, Range
<1>4. \A u \in Range(rcvs[o]) \ S : ~ testmsg(r.type, req[u])
  BY Zenon DEF toobig, takers, wants, Range
<1> HIDE DEF S
<1>5. /\ m \in Msg /\ pc[t] \in {"idle", "snd", "rcv"} /\ r.sz \in Nat
      /\ r.type \in Int
  BY SMT, Z3 DEF SndCtx, SndArgs
<1>6. TableKept
  BY Zenon, <1>0, KeptWhenUnchanged
<1>7. Frames(t) /\ pc'[t] = "idle" /\ s_msg'[t] = "none" /\ killed'[t] = FALSE
  BY Zenon, <1>0, LeaveFrames
<1>8. /\ r_msg' \in [Task -> Msg \cup {"none", "EAGAIN", "EIDRM", "E2BIG"}]
      /\ \A u \in Task : /\ u \in S => r_msg'[u] = "E2BIG"
                         /\ u \notin S => r_msg'[u] = r_msg[u]
  <2>1. r_msg \in [Task -> Msg \cup {"none", "EAGAIN", "EIDRM", "E2BIG"}]
    BY Zenon, <1>0 DEF SysvTypeOK
  <2> QED BY Zenon, <2>1, <1>1
<1>9. /\ Kept(t) /\ r_msg'[t] = "none" /\ t \notin S
      /\ \A p \in Live : t \notin Range(rcvs'[p]) /\ t \notin Range(snds'[p])
      /\ rcvs' \in [Obj -> Seq(Task)] /\ wake' \in [Task -> Nat]
      /\ \A p \in Live : Range(rcvs'[p]) \subseteq Range(rcvs[p])
      /\ Range(rcvs'[o]) = Range(rcvs[o]) \ S
  <2>1. Answered(o, S, lists, w)
    BY Zenon, <1>1, <1>3, <1>8 DEF Answered
  <2>2. Frames(t) /\ TableKept
    BY Zenon, <1>6, <1>7
  <2> QED BY Zenon, <2>1, <2>2, AnswerKept
<1>10. Awake(t)'
  BY Zenon, <1>6, <1>7, <1>9 DEF Awake, TableKept
<1>11. /\ heap'[m] = [type |-> r.type, ts |-> r.sz]
       /\ \A x \in Msg : x # m => heap'[x] = heap[x]
       /\ heap' \in [Msg -> [type : Int, ts : Int]]
  BY SMT, Z3, <1>0, <1>5 DEF SysvTypeOK
<1>12. /\ msgs' \in [Obj -> Seq(Msg)]
       /\ Range(msgs'[o]) = Range(msgs[o]) \cup {m} /\ IsInjective(msgs'[o])
       /\ \A p \in Obj : p # o => msgs'[p] = msgs[p]
  <2>1. m \notin Range(msgs[o]) /\ IsInjective(msgs[o])
    BY Zenon, <1>0, <1>2 DEF SndCtx, MessagesOwned
  <2>2. /\ Append(msgs[o], m) \in Seq(Msg)
        /\ Range(Append(msgs[o], m)) = Range(msgs[o]) \cup {m}
        /\ IsInjective(Append(msgs[o], m))
    BY SMT, Z3, <2>1, <1>2, <1>5, AppendRng, AppendInjective
  <2> QED BY Zenon, <2>2, <1>1, <1>2
<1>13. /\ cbytes' \in [Obj -> Int] /\ qnum' \in [Obj -> Int]
       /\ msg_bytes' \in Int /\ msg_hdrs' \in Int
       /\ \A p \in Obj : cbytes'[p] >= cbytes[p] /\ qnum'[p] >= qnum[p]
       /\ cbytes \in [Obj -> Int] /\ qnum \in [Obj -> Int] /\ qbytes \in [Obj -> Nat]
  <2>1. /\ cbytes \in [Obj -> Int] /\ qnum \in [Obj -> Int] /\ qbytes \in [Obj -> Nat]
        /\ msg_bytes \in Int /\ msg_hdrs \in Int
    BY Zenon, <1>0 DEF SysvTypeOK
  <2>2. /\ cbytes' = [cbytes EXCEPT ![o] = cbytes[o] + r.sz]
        /\ qnum' = [qnum EXCEPT ![o] = qnum[o] + 1]
    BY Zenon, <1>1
  <2>3. cbytes[o] + r.sz \in Int /\ qnum[o] + 1 \in Int
        /\ cbytes[o] + r.sz >= cbytes[o] /\ qnum[o] + 1 >= qnum[o]
    BY SMT, Z3, <2>1, <1>2, <1>5
  <2>4. cbytes' \in [Obj -> Int] /\ qnum' \in [Obj -> Int]
    BY Zenon, <2>1, <2>2, <2>3, ExceptType
  <2>5. ASSUME NEW p \in Obj
        PROVE  cbytes'[p] >= cbytes[p] /\ qnum'[p] >= qnum[p]
    <3>1. cbytes[p] \in Int /\ qnum[p] \in Int
      BY Zenon, <2>1
    <3>2. CASE p = o
      BY Zenon, <3>2, <2>1, <2>2, <2>3
    <3>3. CASE p # o
      BY SMT, Z3, <3>1, <3>3, <2>1, <2>2
    <3> QED BY Zenon, <3>2, <3>3
  <2>6. msg_bytes' \in Int /\ msg_hdrs' \in Int
    BY SMT, Z3, <2>1, <1>1, <1>5
  <2> QED BY Zenon, <2>1, <2>4, <2>5, <2>6
<1>14. SysvTypeOK'
  <2>1. lists \in [Obj -> Seq(Task)]
    BY Zenon DEF SndCtx
  <2>2. acl' \in [Obj -> Acl] /\ qbytes' \in [Obj -> Nat] /\ sem' \in Task \cup {NoTask}
    BY Zenon, <1>0, <1>1 DEF SysvTypeOK
  <2>3. TableInv'
    BY Zenon, <1>6 DEF TableKept
  <2> QED BY Zenon, <2>1, <2>2, <2>3, <1>0, <1>7, <1>8, <1>9, <1>11, <1>12, <1>13, TypeKept
<1>15. /\ TableInv' /\ NoBug' /\ SemHeld' /\ FrameInv' /\ Clean'
       /\ ReceiversListed' /\ SendersListed' /\ Told'
  <2>1. \A p \in Obj \ Live : msgs'[p] = msgs[p]
    BY Zenon, <1>12
  <2> QED BY Zenon, <2>1, <1>5, <1>6, <1>9, <1>10, <1>14, ListsKept
<1>16. NoMatch'
  <2>1. ASSUME NEW p \in Live, NEW u \in Task, NEW x \in Msg,
               u \in Range(rcvs'[p]), x \in Range(msgs'[p])
        PROVE  ~ testmsg(heap'[x].type, req'[u])
    <3>1. u \in Range(rcvs[p]) /\ u # t /\ p \in Obj /\ req'[u] = req[u]
      BY Zenon, <2>1, <1>2, <1>7, <1>9 DEF Frames
    <3>2. CASE x = m
      <4>1. p = o
        BY Zenon, <2>1, <3>1, <3>2, <1>12 DEF SndCtx
      <4>2. ~ testmsg(r.type, req[u])
        BY Zenon, <4>1, <2>1, <1>4, <1>9
      <4> QED BY Zenon, <4>2, <3>1, <3>2, <1>11
    <3>3. CASE x # m
      <4>1. x \in Range(msgs[p]) /\ heap'[x] = heap[x]
        BY Zenon, <2>1, <3>1, <3>3, <1>11, <1>12
      <4> QED BY Zenon, <4>1, <3>1 DEF Inv, NoMatch
    <3> QED BY Zenon, <3>2, <3>3
  <2> QED BY Zenon, <2>1, <1>6 DEF NoMatch, TableKept
<1>17. Permitted'
  <2>1. ASSUME NEW u \in Task, pc'[u] \in {"rcv", "snd"}, wake'[u] = 0
        PROVE  /\ pc[u] = pc'[u] /\ msq'[u] = msq[u] /\ req'[u] = req[u] /\ wake[u] = 0
               /\ msq[u] \in Obj
    <3>1. u # t
      BY Zenon, <2>1, <1>7
    <3>2. wake[u] \in Nat /\ wake'[u] >= wake[u]
      BY Zenon, <3>1, <1>0, <1>9 DEF Kept, SysvTypeOK
    <3>3. pc[u] = pc'[u] /\ msq'[u] = msq[u] /\ req'[u] = req[u] /\ wake[u] = 0
      <4>1. Kept(t)
        BY Zenon, <1>9
      <4> QED BY SMT, Z3, <2>1, <3>1, <3>2, <4>1 DEF Kept
    <3>4. msq[u] \in Live
      BY SMT, Z3, <2>1, <3>3 DEF Inv, Told, ReceiversListed, SendersListed
    <3> QED BY Zenon, <3>3, <3>4, <1>2
  <2>2. ASSUME NEW u \in Task, pc'[u] = "rcv", wake'[u] = 0
        PROVE  ipcperms(u, msq[u], {"r"})'
    <3>1. ipcperms(u, msq[u], {"r"}) /\ msq'[u] = msq[u]
      BY Zenon, <2>1, <2>2 DEF Inv, Permitted
    <3> QED BY Zenon, <3>1, <1>1 DEF ipcperms, granted
  <2>3. ASSUME NEW u \in Task, pc'[u] = "snd", wake'[u] = 0
        PROVE  ipcperms(u, msq[u], {"w"})' /\ full(msq[u], req[u].sz)'
    <3>1. /\ ipcperms(u, msq[u], {"w"}) /\ full(msq[u], req[u].sz)
          /\ msq'[u] = msq[u] /\ req'[u] = req[u] /\ msq[u] \in Obj
      BY Zenon, <2>1, <2>3 DEF Inv, Permitted
    <3>2. ipcperms(u, msq[u], {"w"})'
      BY Zenon, <3>1, <1>1 DEF ipcperms, granted
    <3>3. req[u].sz \in Int
      BY Zenon, <1>0, <2>1, <2>3 DEF SysvTypeOK, SndArgs
    <3>4. /\ cbytes[msq[u]] \in Int /\ cbytes'[msq[u]] \in Int
          /\ qnum[msq[u]] \in Int /\ qnum'[msq[u]] \in Int
          /\ cbytes'[msq[u]] >= cbytes[msq[u]] /\ qnum'[msq[u]] >= qnum[msq[u]]
          /\ qbytes'[msq[u]] = qbytes[msq[u]] /\ qbytes[msq[u]] \in Nat
      BY Zenon, <3>1, <1>1, <1>13
    <3>5. full(msq[u], req[u].sz)'
      <4>1. \/ req[u].sz + cbytes[msq[u]] > qbytes[msq[u]]
            \/ 1 + qnum[msq[u]] > qbytes[msq[u]]
        BY Zenon, <3>1 DEF full
      <4>2. \/ req[u].sz + cbytes'[msq[u]] > qbytes[msq[u]]
            \/ 1 + qnum'[msq[u]] > qbytes[msq[u]]
        BY SMT, Z3, <4>1, <3>3, <3>4
      <4> QED BY Zenon, <4>2, <3>1, <3>4 DEF full
    <3> QED BY Zenon, <3>2, <3>5
  <2> QED BY Zenon, <2>2, <2>3 DEF Permitted
<1>18. MessagesOwned'
  <2>1. \A p \in Obj : IsInjective(msgs'[p]) /\ Range(msgs'[p]) \subseteq Msg
    BY SMT, Z3, <1>0, <1>5, <1>12, MsgsTyped DEF MessagesOwned
  <2>2. \A u \in S : r_msg[u] = "EAGAIN"
    BY Zenon, <1>3 DEF Inv, ReceiversListed
  <2>3. \A u \in Task, x \in Msg : x # m => (s_msg'[u] = x <=> s_msg[u] = x)
    BY Zenon, <1>7, MsgAssumption DEF SndCtx, Frames
  <2>4. \A u \in Task, x \in Msg : r_msg'[u] = x <=> r_msg[u] = x
    BY Zenon, <2>2, <1>8, MsgAssumption
  <2>5. \A p \in Obj, x \in Msg : x # m =>
          (x \in Range(msgs'[p]) <=> x \in Range(msgs[p]))
    BY Zenon, <1>12
  <2>6. Moved(m)
    BY Zenon, <2>1, <2>3, <2>4, <2>5, <1>11 DEF Moved
  <2>7. heap'[m] # Free
    <3>1. heap'[m].ts >= 0 /\ Free.ts = -1
      <4>1. heap'[m].ts = r.sz /\ Free.ts = -1
        BY SMT, Z3, <1>11 DEF Free
      <4> QED BY SMT, Z3, <4>1, <1>5
    <3> QED BY SMT, Z3, <3>1
  <2>8. \A p \in Obj : m \in Range(msgs'[p]) <=> p = o
    BY Zenon, <1>12 DEF SndCtx
  <2>9. \A u \in Task : s_msg'[u] # m /\ r_msg'[u] # m
    <3>1. \A u \in Task : r_msg'[u] # m
      BY Zenon, <2>4, <1>5 DEF SndCtx
    <3>2. m # "none" /\ \A u \in Task : u # t => s_msg'[u] # m
      BY Zenon, <1>5, <1>7, MsgAssumption DEF SndCtx, Frames
    <3> QED BY Zenon, <3>1, <3>2, <1>7
  <2>10. OwnedByQueue(m, o)'
    BY Zenon, <2>7, <2>8, <2>9 DEF OwnedByQueue
  <2> QED BY Zenon, <2>6, <2>10, <1>0, <1>2, <1>5, OwnerMoves
<1> QED BY Zenon, <1>14, <1>15, <1>16, <1>17, <1>18 DEF Inv

-----------------------------------------------------------------------------
\* Every way through the locked section of rt_msgsnd.
LEMMA SndSectionInv ==
  ASSUME Inv, NEW t \in Task, NEW id \in Int, NEW r, NEW m, NEW lists, NEW w,
         SndCtx(t, r, m, lists, w), ipc_lock(id) # NULL,
         SndSection(t, id, r, m, ipc_lock(id), lists, w), UNCHANGED <<idsVars, sem>>
  PROVE  Inv'
<1> DEFINE o == ipc_lock(id)
<1>1. o \in Live
  BY Zenon, LockLive DEF Inv
<1>2. ASSUME NEW e, SndGiveUp(t, m, e), snds' = lists, wake' = w
      PROVE  Inv'
  BY Zenon, <1>2, SndGiveUpInv
<1>3. CASE /\ ipcperms(t, o, {"w"}) /\ full(o, r.sz)
           /\ SndSleep(t, id, r, m, o, lists) /\ wake' = w
  BY Zenon, <1>3, SndSleepInv
<1>4. CASE /\ \/ \E i \in takers(o, r) : SndHandOver(t, r, m, o, i, w)
              \/ takers(o, r) = {} /\ SndEnqueue(t, r, m, o, w)
           /\ snds' = lists
           /\ heap' = [heap EXCEPT ![m] = [type |-> r.type, ts |-> r.sz]]
           /\ Leave(t, Ok(0))
  BY Zenon, <1>1, <1>4, SndHandOverInv, SndEnqueueInv
<1> QED BY Zenon, <1>2, <1>3, <1>4 DEF SndSection

\* rt_msgsnd up to its return or its sleep preserves the invariant.
LEMMA MsgsndInv ==
  ASSUME Inv, NEW t \in Task, NEW id \in CallIds, NEW r \in SndReqs, Msgsnd(t, id, r)
  PROVE  Inv'
<1>1. PICK m \in FreeMsg :
        \/ /\ ipc_lock(id) = NULL
           /\ SndGiveUp(t, m, "EINVAL") /\ UNCHANGED <<snds, wake>>
        \/ /\ ipc_lock(id) # NULL
           /\ SndSection(t, id, r, m, ipc_lock(id), snds, wake)
  BY Zenon DEF Msgsnd
<1>2. UNCHANGED <<idsVars, sem>> /\ pc[t] = "idle" /\ r.sz >= 0 /\ r.type >= 1
  BY SMT, Z3 DEF Msgsnd
<1>3. SndCtx(t, r, m, snds, wake) /\ id \in Int
  BY SMT, Z3, <1>2, SndCtxIdle, CallIdAssumption
<1>4. CASE SndGiveUp(t, m, "EINVAL") /\ UNCHANGED <<snds, wake>>
  BY Zenon, <1>2, <1>3, <1>4, SndGiveUpInv
<1>5. CASE ipc_lock(id) # NULL /\ SndSection(t, id, r, m, ipc_lock(id), snds, wake)
  BY Zenon, <1>2, <1>3, <1>5, SndSectionInv
<1> QED BY Zenon, <1>1, <1>4, <1>5

\* rt_msgsnd after its sleep preserves the invariant.
LEMMA MsgsndWakeInv ==
  ASSUME Inv, NEW t \in Task, MsgsndWake(t)
  PROVE  Inv'
<1> DEFINE o == ipc_lock(msqid[t])
           w == [wake EXCEPT ![t] = @ - 1]
           ss_del == IF killed[t] THEN snds
                     ELSE [snds EXCEPT ![msq[t]] = Without(@, {t})]
<1>1. \/ /\ o = NULL
         /\ SndGiveUp(t, s_msg[t], "EIDRM") /\ wake' = w /\ UNCHANGED snds
      \/ /\ o # NULL /\ sig[t]
         /\ SndGiveUp(t, s_msg[t], "EINTR") /\ wake' = w /\ snds' = ss_del
      \/ /\ o # NULL /\ ~ sig[t]
         /\ SndSection(t, msqid[t], req[t], s_msg[t], o, ss_del, w)
  BY Zenon DEF MsgsndWake
<1>2. pc[t] = "snd" /\ wake[t] > 0 /\ UNCHANGED <<idsVars, sem>>
  BY Zenon DEF MsgsndWake
<1>3. SndCtx(t, req[t], s_msg[t], ss_del, w)
  BY Zenon, <1>2, SndCtxWake
<1>4. msqid[t] \in Int
  BY Zenon DEF Inv, SysvTypeOK
<1>5. o = NULL => ss_del = snds
  <2>1. NULL \notin Live
    BY Zenon, LiveFacts DEF Inv
  <2>2. o = NULL => killed[t]
    BY SMT, Z3, <2>1, <1>2 DEF Inv, SendersListed
  <2> QED BY Zenon, <2>2
<1> HIDE DEF w, ss_del
<1>6. ASSUME NEW e, SndGiveUp(t, s_msg[t], e), wake' = w, snds' = ss_del
      PROVE  Inv'
  BY Zenon, <1>2, <1>3, <1>6, SndGiveUpInv
<1>7. CASE o # NULL /\ SndSection(t, msqid[t], req[t], s_msg[t], o, ss_del, w)
  BY Zenon, <1>2, <1>3, <1>4, <1>7, SndSectionInv
<1> QED BY Zenon, <1>1, <1>5, <1>6, <1>7

-----------------------------------------------------------------------------
\* The message of a sender is nobody else's.
LEMMA SenderStep ==
  ASSUME Inv, NEW t \in Task, NEW m, pc[t] \in {"idle", "snd"}, Frames(t),
         \A p \in Obj : m \notin Range(msgs[p]), \A u \in Task : r_msg[u] # m,
         \A x \in Msg : x # m => heap'[x] = heap[x],
         UNCHANGED <<idsVars, qVars, r_msg>>, ret'.got = {}
  PROVE  Typed!QueueNext
<1>1. SysvTypeOK /\ Live \subseteq Obj
  BY Zenon, LiveFacts DEF Inv
<1>2. SameContent
  <2>1. Live' = Live /\ msgs' = msgs
    BY Zenon DEF Live, Used, idsVars, qVars
  <2>2. ASSUME NEW p \in Live, NEW x \in Range(msgs[p]) PROVE heap'[x] = heap[x]
    BY Zenon, <1>1, MsgsTyped
  <2> QED BY Zenon, <2>1, <2>2 DEF SameContent
<1>3. SameReaders(t)
  BY Zenon, FramesReaders
<1> QED BY Zenon, <1>2, <1>3, QuietStep

\* Which readers a message concerns, and which of them can take it.
LEMMA AskingAre ==
  ASSUME Inv, NEW o \in Live, NEW s
  PROVE  /\ Typed!Asking(o, [type |-> s.type, ts |-> s.sz])
            = {u \in Task : u \in Range(rcvs[o]) /\ wants(u, s)}
         /\ Typed!Able(o, [type |-> s.type, ts |-> s.sz])
            = {u \in Task : u \in Range(rcvs[o]) /\ wants(u, s) /\ fits(u, s.sz)}
<1> DEFINE mv == [type |-> s.type, ts |-> s.sz]
<1>0. mv.type = s.type /\ mv.ts = s.sz
  BY Zenon
<1> HIDE DEF mv
<1>1. \A u \in Task : u \in Range(rcvs[o]) <=> /\ pc[u] = "rcv" /\ r_msg[u] = "EAGAIN"
                                               /\ msq[u] = o
  BY Zenon DEF Inv, ReceiversListed
<1>2. ASSUME NEW u \in Task
      PROVE  /\ (\E w \in Waiting[u] : w.queue = o /\ testmsg(mv.type, w.args))
                <=> u \in Range(rcvs[o]) /\ wants(u, s)
             /\ u \in Range(rcvs[o]) =>
                  ((\E w \in Waiting[u] : w.args.noerror \/ mv.ts <= w.args.sz)
                   <=> fits(u, s.sz))
  <2> DEFINE w0 == [queue |-> msq[u], args |-> req[u]]
  <2>1. w0.queue = msq[u] /\ w0.args = req[u]
    BY Zenon
  <2>2. Waiting[u] = IF pc[u] = "rcv" /\ r_msg[u] = "EAGAIN" THEN {w0} ELSE {}
    BY Zenon, ReaderView
  <2> HIDE DEF w0
  <2>3. CASE u \in Range(rcvs[o])
    <3>1. Waiting[u] = {w0} /\ w0.queue = o
      BY Zenon, <2>1, <2>2, <2>3, <1>1
    <3> QED BY Zenon, <2>1, <2>3, <3>1, <1>0 DEF wants, fits
  <2>4. CASE u \notin Range(rcvs[o])
    BY Zenon, <2>1, <2>2, <2>4, <1>1
  <2> QED BY Zenon, <2>3, <2>4
<1>3. Typed!Asking(o, mv) = {u \in Task : u \in Range(rcvs[o]) /\ wants(u, s)}
  BY Zenon, <1>2, SameTests DEF Typed!Asking
<1>4. Typed!Able(o, mv)
        = {u \in Task : u \in Range(rcvs[o]) /\ wants(u, s) /\ fits(u, s.sz)}
  BY Zenon, <1>2, <1>3 DEF Typed!Able
<1> QED BY Zenon, <1>3, <1>4 DEF mv

\* The readers in S stop waiting: a sender answered them.
LEMMA AnsweredReaders ==
  ASSUME Inv, NEW t \in Task, pc[t] \in {"idle", "snd"}, NEW o \in Live,
         NEW S \in SUBSET Task, S \subseteq Range(rcvs[o]), Frames(t), pc'[t] = "idle",
         \A u \in Task : u \notin S => r_msg'[u] = r_msg[u],
         \A u \in S : r_msg'[u] # "EAGAIN"
  PROVE  Waiting' = Typed!Released(S) /\ t \notin S
<1>1. t \notin S
  BY Zenon DEF Inv, ReceiversListed
<1>2. ASSUME NEW u \in Task PROVE Waiting'[u] = IF u \in S THEN {} ELSE Waiting[u]
  <2>1. CASE u \in S
    BY Zenon, <2>1, ReaderView
  <2>2. CASE u = t
    BY Zenon, <2>2, <1>1, ReaderView
  <2>3. CASE u \notin S /\ u # t
    <3>1. pc'[u] = pc[u] /\ msq'[u] = msq[u] /\ req'[u] = req[u] /\ r_msg'[u] = r_msg[u]
      BY Zenon, <2>3 DEF Frames
    <3> QED BY Zenon, <2>3, <3>1, ReaderView
  <2> QED BY Zenon, <2>1, <2>2, <2>3
<1> QED BY Zenon, <1>1, <1>2 DEF Waiting, Typed!Released

\* A hand-over is what a user sees as one: nothing older was asked for.
LEMMA HandOverStep ==
  ASSUME Inv, NEW t \in Task, NEW r \in SndReqs, NEW m, NEW lists, NEW w, NEW o \in Live,
         NEW i \in takers(o, r), SndCtx(t, r, m, lists, w),
         SndHandOver(t, r, m, o, i, w),
         heap' = [heap EXCEPT ![m] = [type |-> r.type, ts |-> r.sz]],
         Leave(t, Ok(0)), UNCHANGED idsVars
  PROVE  Typed!QueueNext
<1> DEFINE to == rcvs[o][i]
           B == toobig(o, r)
           mv == [type |-> r.type, ts |-> r.sz]
<1>0. SysvTypeOK /\ TableInv /\ Live \subseteq Obj /\ o \in Obj
  BY Zenon, LiveFacts DEF Inv
<1>1. /\ r_msg' = [u \in Task |-> IF u = to THEN m ELSE IF u \in B THEN "E2BIG" ELSE r_msg[u]]
      /\ UNCHANGED <<qVars, counters>>
  BY Zenon DEF SndHandOver, PassTo
<1>2. to \in Range(rcvs[o]) /\ wants(to, r) /\ fits(to, r.sz) /\ to \in Task
  <2>1. i \in DOMAIN rcvs[o] /\ wants(to, r) /\ fits(to, r.sz)
    BY Zenon DEF takers
  <2>2. rcvs[o] \in Seq(Task)
    BY Zenon, <1>0 DEF SysvTypeOK
  <2>3. to \in Task
    BY SMT, Z3, <2>1, <2>2
  <2> QED BY Zenon, <2>1, <2>3 DEF Range
<1>3. \A u \in B : u \in Range(rcvs[o]) /\ wants(u, r) /\ ~ fits(u, r.sz)
  BY Zenon DEF toobig, Range
<1>4. B \subseteq Task
  <2>1. rcvs[o] \in Seq(Task)
    BY Zenon, <1>0 DEF SysvTypeOK
  <2>2. Range(rcvs[o]) \subseteq Task
    BY SMT, Z3, <2>1 DEF Range
  <2> QED BY Zenon, <2>2, <1>3
<1>5. /\ m \in Msg /\ \A p \in Obj : m \notin Range(msgs[p])
      /\ \A u \in Task : r_msg[u] # m
      /\ pc[t] \in {"idle", "snd"}
  BY Zenon DEF SndCtx
<1>6. Frames(t) /\ pc'[t] = "idle"
  BY Zenon, <1>0, LeaveFrames
<1>7. /\ heap'[m] = mv /\ \A x \in Msg : x # m => heap'[x] = heap[x]
  BY Zenon, <1>0, <1>5 DEF SysvTypeOK
<1> HIDE DEF to, B
<1>8. Content' = Content
  <2>1. Live' = Live /\ msgs' = msgs
    BY Zenon, <1>1 DEF Live, Used, idsVars, qVars
  <2>2. ASSUME NEW p \in Live, NEW x \in Range(msgs[p]) PROVE heap'[x] = heap[x]
    BY Zenon, <1>0, <1>5, <1>7, MsgsTyped
  <2>3. SameContent
    BY Zenon, <2>1, <2>2 DEF SameContent
  <2> QED BY Zenon, <2>3, <1>0, ContentKept
<1>9. Waiting' = Typed!Released(B \cup {to}) /\ t \notin B \cup {to}
  <2>1. B \cup {to} \in SUBSET Task /\ B \cup {to} \subseteq Range(rcvs[o])
    BY Zenon, <1>2, <1>3, <1>4
  <2>2. \A u \in B \cup {to} : r_msg'[u] # "EAGAIN"
    BY Zenon, <1>1, <1>2, <1>4, <1>5, MsgAssumption
  <2>3. \A u \in Task : u \notin B \cup {to} => r_msg'[u] = r_msg[u]
    BY Zenon, <1>1
  <2> QED BY Zenon, <2>1, <2>2, <2>3, <1>5, <1>6, AnsweredReaders
<1>10. Waiting[to] = {[queue |-> o, args |-> req[to]]}
  <2>1. pc[to] = "rcv" /\ msq[to] = o /\ r_msg[to] = "EAGAIN"
    BY Zenon, <1>2 DEF Inv, ReceiversListed
  <2> QED BY Zenon, <2>1, <1>2, ReaderView
<1>11. {Typed!Given(mv.type, a.args) : a \in Waiting[to]}
         = {[type |-> r.type, args |-> req[to]]}
  <2>1. mv.type = r.type /\ [queue |-> o, args |-> req[to]].args = req[to]
    BY Zenon
  <2> HIDE DEF mv
  <2> QED BY Zenon, <2>1, <1>10 DEF Typed!Given
<1>12. Handed' = [Handed EXCEPT ![to] = {Typed!Given(mv.type, a.args) : a \in Waiting[to]}]
  <2>1. ASSUME NEW u \in Task
        PROVE  Handed'[u] = IF u = to THEN {[type |-> r.type, args |-> req[to]]}
                            ELSE Handed[u]
    <3>1. CASE u = to
      <4>1. r_msg'[u] = m
        BY Zenon, <3>1, <1>1
      <4>2. req'[u] = req[to]
        BY Zenon, <3>1, <1>6, <1>9 DEF Frames
      <4>3. heap'[m].type = r.type
        <5>1. mv.type = r.type
          BY Zenon
        <5> HIDE DEF mv
        <5> QED BY Zenon, <5>1, <1>7
      <4> QED BY Zenon, <3>1, <4>1, <4>2, <4>3, <1>5, ReaderView
    <3>2. CASE u # to /\ u \in B
      <4>1. r_msg[u] = "EAGAIN" /\ r_msg'[u] = "E2BIG"
        BY Zenon, <3>2, <1>1, <1>3 DEF Inv, ReceiversListed
      <4>2. r_msg[u] \notin Msg /\ r_msg'[u] \notin Msg
        BY Zenon, <4>1, MsgAssumption
      <4> QED BY Zenon, <3>2, <4>2, ReaderView
    <3>3. CASE u # to /\ u \notin B
      <4>0. r_msg'[u] = r_msg[u]
        BY Zenon, <3>3, <1>1
      <4>1. r_msg'[u] = r_msg[u] /\ (r_msg[u] \in Msg => heap'[r_msg[u]] = heap[r_msg[u]])
        BY Zenon, <4>0, <1>5, <1>7
      <4>2. r_msg[u] \in Msg => u # t
        BY Zenon, <1>5, MsgAssumption DEF Inv, FrameInv
      <4>3. r_msg[u] \in Msg => req'[u] = req[u]
        BY Zenon, <4>2, <1>6 DEF Frames
      <4>4. CASE r_msg[u] \in Msg
        <5>1. heap'[r_msg'[u]] = heap[r_msg[u]] /\ req'[u] = req[u] /\ r_msg'[u] \in Msg
          BY Zenon, <4>1, <4>3, <4>4
        <5>2. Handed'[u] = {[type |-> heap[r_msg[u]].type, args |-> req[u]]}
          BY Zenon, <5>1, ReaderView
        <5>3. Handed[u] = {[type |-> heap[r_msg[u]].type, args |-> req[u]]}
          BY Zenon, <4>4, ReaderView
        <5> QED BY Zenon, <3>3, <5>2, <5>3
      <4>5. CASE r_msg[u] \notin Msg
        BY Zenon, <3>3, <4>1, <4>5, ReaderView
      <4> QED BY Zenon, <4>4, <4>5
    <3> QED BY Zenon, <3>1, <3>2, <3>3
  <2> QED BY Zenon, <2>1, <1>11 DEF Handed
<1>13. to \in Typed!Able(o, mv) /\ B \subseteq Typed!Asking(o, mv) \ Typed!Able(o, mv)
  BY Zenon, <1>2, <1>3, <1>4, AskingAre
<1>14. \A a \in Waiting[to] : Typed!Unanswerable(o, a.args)
  <2>1. ASSUME NEW j \in DOMAIN msgs[o] PROVE ~ testmsg(Content[o][j].type, req[to])
    <3>1. msgs[o][j] \in Range(msgs[o]) /\ Range(msgs[o]) \subseteq Msg
      BY Zenon, <1>0, MsgsTyped DEF Range
    <3>2. Content[o][j] = heap[msgs[o][j]]
      BY Zenon, <1>0 DEF Content
    <3> QED BY Zenon, <3>1, <3>2, <1>2 DEF Inv, NoMatch
  <2>2. DOMAIN Content[o] = DOMAIN msgs[o]
    BY Zenon, <1>0 DEF Content
  <2>3. [queue |-> o, args |-> req[to]].args = req[to]
    BY Zenon
  <2> QED BY Zenon, <2>1, <2>2, <2>3, <1>10, SameTests DEF Typed!Unanswerable
<1>15. ret'.got = {}
  BY Zenon, NothingGot DEF Leave
<1>16. Typed!Hand(o, mv, to)
  <2>1. \E S \in SUBSET (Typed!Asking(o, mv) \ Typed!Able(o, mv)) :
          Waiting' = Typed!Released(S \cup {to})
    BY Zenon, <1>9, <1>13
  <2> HIDE DEF mv
  <2> QED BY Zenon, <2>1, <1>8, <1>12, <1>13, <1>14, <1>15 DEF Typed!Hand
<1> QED BY Zenon, <1>0, <1>2, <1>16 DEF Typed!QueueNext

\* The contents of a list of messages.
Contents(s, h) == [j \in DOMAIN s |-> h[s[j]]]

\* What a list of messages holds, after one more was linked behind the others
\* (list_add_tail in _rt_msgsnd).
LEMMA MappedAppend ==
  ASSUME NEW o \in Obj, NEW m \in Msg, NEW v, heap'[m] = v, msgs[o] \in Seq(Msg),
         \A j \in DOMAIN msgs[o] : heap'[msgs[o][j]] = heap[msgs[o][j]]
  PROVE  Contents(Append(msgs[o], m), heap') = Append(Contents(msgs[o], heap), v)
<1> SUFFICES ASSUME NEW s \in Seq(Msg), NEW h, NEW h1,
                    \A j \in DOMAIN s : h1[s[j]] = h[s[j]], h1[m] = v
             PROVE  Contents(Append(s, m), h1) = Append(Contents(s, h), v)
  BY Zenon
<1> DEFINE n == Len(s)
           c == [j \in DOMAIN s |-> h[s[j]]]
           d == [j \in DOMAIN Append(s, m) |-> h1[Append(s, m)[j]]]
<1>1. n \in Nat /\ DOMAIN s = 1 .. n
  BY SMT, Z3
<1>2. DOMAIN Append(s, m) = 1 .. n + 1
  BY SMT, Z3
<1>3. Append(s, m)[n + 1] = m /\ \A j \in 1 .. n : Append(s, m)[j] = s[j]
  BY SMT, Z3
<1>4. d = [j \in 1 .. n + 1 |-> IF j <= n THEN c[j] ELSE v]
  BY SMT, Z3, <1>1, <1>2, <1>3
<1>5. Append(c, v) = [j \in 1 .. n + 1 |-> IF j <= n THEN c[j] ELSE v]
  <2> HIDE DEF c
  <2> SUFFICES ASSUME DOMAIN c = 1 .. n, c = [j \in 1 .. n |-> c[j]]
               PROVE  Append(c, v) = [j \in 1 .. n + 1 |->
                                        IF j <= n THEN c[j] ELSE v]
    BY Zenon, <1>1 DEF c
  <2> QED BY SMT, Z3, <1>1
<1> QED BY Zenon, <1>4, <1>5 DEF Contents

\* A message is queued: nobody who waits can take it, and those who asked for it
\* are refused.
LEMMA EnqueueStep ==
  ASSUME Inv, NEW t \in Task, NEW r \in SndReqs, NEW m, NEW lists, NEW w, NEW o \in Live,
         takers(o, r) = {}, SndCtx(t, r, m, lists, w), SndEnqueue(t, r, m, o, w),
         heap' = [heap EXCEPT ![m] = [type |-> r.type, ts |-> r.sz]],
         Leave(t, Ok(0)), UNCHANGED idsVars
  PROVE  Typed!QueueNext
<1> DEFINE B == toobig(o, r)
           mv == [type |-> r.type, ts |-> r.sz]
<1>0. SysvTypeOK /\ TableInv /\ Live \subseteq Obj /\ o \in Obj
  BY Zenon, LiveFacts DEF Inv
<1>1. /\ r_msg' = [u \in Task |-> IF u \in B THEN "E2BIG" ELSE r_msg[u]]
      /\ msgs' = [msgs EXCEPT ![o] = Append(@, m)]
  BY Zenon DEF SndEnqueue
<1>2. Range(rcvs[o]) \subseteq Task
  <2>1. rcvs[o] \in Seq(Task)
    BY Zenon, <1>0 DEF SysvTypeOK
  <2> QED BY SMT, Z3, <2>1 DEF Range
<1>3. /\ \A u \in Task : u \in B <=> u \in Range(rcvs[o]) /\ wants(u, r)
      /\ \A u \in Range(rcvs[o]) : wants(u, r) => ~ fits(u, r.sz)
      /\ B \subseteq Range(rcvs[o])
  <2>1. \A j \in DOMAIN rcvs[o] : wants(rcvs[o][j], r) => ~ fits(rcvs[o][j], r.sz)
    BY Zenon DEF takers
  <2>2. B = {rcvs[o][j] : j \in {k \in DOMAIN rcvs[o] : wants(rcvs[o][k], r)}}
    BY Zenon, <2>1 DEF toobig
  <2> HIDE DEF B
  <2> QED BY Zenon, <2>1, <2>2 DEF Range
<1>4. /\ m \in Msg /\ \A p \in Obj : m \notin Range(msgs[p])
      /\ \A u \in Task : r_msg[u] # m
      /\ pc[t] \in {"idle", "snd"}
  BY Zenon DEF SndCtx
<1>5. Frames(t) /\ pc'[t] = "idle"
  BY Zenon, <1>0, LeaveFrames
<1>6. /\ heap'[m] = mv /\ \A x \in Msg : x # m => heap'[x] = heap[x]
  BY Zenon, <1>0, <1>4 DEF SysvTypeOK
<1> HIDE DEF B
<1>7. Waiting' = Typed!Released(B)
  <2>1. B \in SUBSET Task /\ \A u \in B : r_msg'[u] # "EAGAIN"
    BY Zenon, <1>1, <1>2, <1>3
  <2>2. \A u \in Task : u \notin B => r_msg'[u] = r_msg[u]
    BY Zenon, <1>1
  <2> QED BY Zenon, <2>1, <2>2, <1>3, <1>4, <1>5, AnsweredReaders
<1>8. Typed!Asking(o, mv) = B /\ Typed!Able(o, mv) = {}
  <2>1. {u \in Task : u \in Range(rcvs[o]) /\ wants(u, r)} = B
    BY Zenon, <1>2, <1>3
  <2>2. {u \in Task : u \in Range(rcvs[o]) /\ wants(u, r) /\ fits(u, r.sz)} = {}
    BY Zenon, <1>3
  <2> QED BY Zenon, <2>1, <2>2, AskingAre
<1>9. Handed' = Handed
  <2>1. ASSUME NEW u \in Task PROVE Handed'[u] = Handed[u]
    <3>1. CASE r_msg[u] \in Msg
      <4>1. u \notin B /\ u # t
        BY Zenon, <3>1, <1>3, <1>4, MsgAssumption DEF Inv, ReceiversListed, FrameInv
      <4>2. r_msg'[u] = r_msg[u] /\ req'[u] = req[u]
        BY Zenon, <4>1, <1>1, <1>5 DEF Frames
      <4>3. heap'[r_msg'[u]] = heap[r_msg[u]] /\ r_msg'[u] \in Msg
        BY Zenon, <3>1, <4>2, <1>4, <1>6
      <4>4. Handed'[u] = {[type |-> heap[r_msg[u]].type, args |-> req[u]]}
        BY Zenon, <4>2, <4>3, ReaderView
      <4>5. Handed[u] = {[type |-> heap[r_msg[u]].type, args |-> req[u]]}
        BY Zenon, <3>1, ReaderView
      <4> QED BY Zenon, <4>4, <4>5
    <3>2. CASE r_msg[u] \notin Msg
      <4>1. r_msg'[u] \notin Msg
        BY Zenon, <3>2, <1>1, MsgAssumption
      <4> QED BY Zenon, <3>2, <4>1, ReaderView
    <3> QED BY Zenon, <3>1, <3>2
  <2> QED BY Zenon, <2>1 DEF Handed
<1>10. Content' = [Content EXCEPT ![o] = Append(@, mv)]
  <2>1. Live' = Live
    BY Zenon DEF Live, Used, idsVars
  <2>2. ASSUME NEW p \in Obj, p # o PROVE Content'[p] = Content[p]
    <3>1. msgs'[p] = msgs[p]
      BY Zenon, <2>2, <1>0, <1>1 DEF SysvTypeOK
    <3>2. \A j \in DOMAIN msgs[p] : heap'[msgs[p][j]] = heap[msgs[p][j]]
      BY Zenon, <1>0, <1>4, <1>6, MsgsTyped DEF Range
    <3> QED BY Zenon, <2>1, <3>1, <3>2 DEF Content
  <2>3. Content'[o] = Append(Content[o], mv)
    <3>1. msgs'[o] = Append(msgs[o], m) /\ msgs[o] \in Seq(Msg)
      BY Zenon, <1>0, <1>1 DEF SysvTypeOK
    <3>2. \A j \in DOMAIN msgs[o] : heap'[msgs[o][j]] = heap[msgs[o][j]]
      BY Zenon, <1>0, <1>4, <1>6, MsgsTyped DEF Range
    <3>3. Content[o] = Contents(msgs[o], heap) /\ Content'[o] = Contents(msgs'[o], heap')
      BY Zenon, <2>1, <1>0 DEF Content, Contents
    <3>4. heap'[m] = mv
      BY Zenon, <1>6
    <3> HIDE DEF mv
    <3>5. Contents(Append(msgs[o], m), heap') = Append(Contents(msgs[o], heap), mv)
      <4>1. m \in Msg /\ msgs[o] \in Seq(Msg) /\ o \in Obj
        BY Zenon, <3>1, <1>0, <1>4
      <4> QED BY Zenon, <4>1, <3>2, <3>4, MappedAppend
    <3> QED BY Zenon, <3>1, <3>3, <3>5
  <2> HIDE DEF mv
  <2>4. \A p \in Obj : Content'[p] = IF p = o THEN Append(Content[o], mv) ELSE Content[p]
    BY Zenon, <2>2, <2>3
  <2> QED BY Zenon, <2>4 DEF Content
<1>11. ret'.got = {}
  BY Zenon, NothingGot DEF Leave
<1>12. Typed!Enqueue(o, mv)
  <2> HIDE DEF mv
  <2> QED BY Zenon, <1>7, <1>8, <1>9, <1>10, <1>11 DEF Typed!Enqueue
<1> QED BY Zenon, <1>0, <1>12 DEF Typed!QueueNext

\* A sender that gives up.
LEMMA GiveUpStep ==
  ASSUME Inv, NEW t \in Task, NEW r, NEW m, NEW lists, NEW w, NEW e,
         SndCtx(t, r, m, lists, w), SndGiveUp(t, m, e), UNCHANGED idsVars
  PROVE  Typed!QueueNext
<1>0. SysvTypeOK
  BY Zenon DEF Inv
<1>1. /\ m \in Msg /\ \A p \in Obj : m \notin Range(msgs[p])
      /\ \A u \in Task : r_msg[u] # m
      /\ pc[t] \in {"idle", "snd"}
  BY Zenon DEF SndCtx
<1>2. \A x \in Msg : x # m => heap'[x] = heap[x]
  BY Zenon, <1>0, <1>1 DEF SndGiveUp, SysvTypeOK
<1>3. Frames(t)
  BY Zenon, <1>0, LeaveFrames DEF SndGiveUp
<1>4. ret'.got = {} /\ UNCHANGED <<idsVars, qVars, r_msg>>
  BY Zenon, NothingGot DEF SndGiveUp, Leave
<1> QED BY SMT, Z3, <1>1, <1>2, <1>3, <1>4, SenderStep

\* A sender that gives up or goes to sleep, hands its message over or queues it.
LEMMA SndSectionStep ==
  ASSUME Inv, NEW t \in Task, NEW id \in Int, NEW r \in SndReqs, NEW m, NEW lists, NEW w,
         NEW o \in Live, SndCtx(t, r, m, lists, w),
         SndSection(t, id, r, m, o, lists, w), UNCHANGED idsVars
  PROVE  Typed!QueueNext
<1>0. SysvTypeOK /\ o \in Obj
  BY Zenon, LiveFacts DEF Inv
<1>1. /\ m \in Msg /\ \A p \in Obj : m \notin Range(msgs[p])
      /\ \A u \in Task : r_msg[u] # m
      /\ pc[t] \in {"idle", "snd"} /\ r \in SndArgs
  BY Zenon DEF SndCtx
<1>2. ASSUME NEW e, SndGiveUp(t, m, e) PROVE Typed!QueueNext
  BY Zenon, <1>2, GiveUpStep
<1>3. CASE SndSleep(t, id, r, m, o, lists)
  <2>1. \A x \in Msg : x # m => heap'[x] = heap[x]
    BY Zenon, <1>0, <1>1, <1>3 DEF SndSleep, SysvTypeOK
  <2>2. Frames(t)
    <3>1. "snd" = "rcv" => r \in RcvArgs
      BY Zenon
    <3> QED BY Zenon, <3>1, <1>0, <1>1, <1>3, StayFrames DEF SndSleep
  <2>3. ret'.got = {} /\ UNCHANGED <<idsVars, qVars, r_msg>>
    BY Zenon, <1>3, NothingGot DEF SndSleep, Stay
  <2> QED BY SMT, Z3, <2>1, <2>2, <2>3, <1>1, SenderStep
<1>4. CASE /\ \/ \E i \in takers(o, r) : SndHandOver(t, r, m, o, i, w)
              \/ takers(o, r) = {} /\ SndEnqueue(t, r, m, o, w)
           /\ heap' = [heap EXCEPT ![m] = [type |-> r.type, ts |-> r.sz]]
           /\ Leave(t, Ok(0))
  BY Zenon, <1>4, HandOverStep, EnqueueStep
<1> QED BY Zenon, <1>2, <1>3, <1>4 DEF SndSection

\* rt_msgsnd does what the abstract queues allow.
LEMMA SendStep ==
  ASSUME Inv, Asked, NEW t \in Task,
         MsgsndWake(t) \/ \E id \in CallIds, r \in SndReqs : Msgsnd(t, id, r)
  PROVE  Typed!QueueNext
<1>0. SysvTypeOK /\ TableInv
  BY Zenon DEF Inv
<1>1. ASSUME NEW id \in CallIds, NEW r \in SndReqs, Msgsnd(t, id, r)
      PROVE  Typed!QueueNext
  <2>1. PICK m \in FreeMsg :
          \/ ipc_lock(id) = NULL /\ SndGiveUp(t, m, "EINVAL")
          \/ ipc_lock(id) # NULL /\ SndSection(t, id, r, m, ipc_lock(id), snds, wake)
    BY Zenon, <1>1 DEF Msgsnd
  <2>2. /\ pc[t] = "idle" /\ r.sz \in 0 .. MsgMax /\ r.type >= 1 /\ UNCHANGED idsVars
    BY Zenon, <1>1 DEF Msgsnd
  <2>3. r.sz >= 0 /\ id \in Int
    BY SMT, Z3, <2>2, LimitAssumption, CallIdAssumption, WidthAssumption
  <2>4. SndCtx(t, r, m, snds, wake)
    BY Zenon, <2>2, <2>3, SndCtxIdle
  <2>5. CASE ipc_lock(id) # NULL /\ SndSection(t, id, r, m, ipc_lock(id), snds, wake)
    <3>1. ipc_lock(id) \in Live
      BY Zenon, <2>3, <2>5, <1>0, LockLive
    <3> QED BY Zenon, <3>1, <2>2, <2>3, <2>4, <2>5, SndSectionStep
  <2>6. CASE SndGiveUp(t, m, "EINVAL")
    BY Zenon, <2>2, <2>4, <2>6, GiveUpStep
  <2> QED BY Zenon, <2>1, <2>5, <2>6
<1>2. CASE MsgsndWake(t)
  <2> DEFINE lists == IF killed[t] THEN snds ELSE [snds EXCEPT ![msq[t]] = Without(@, {t})]
             w == [wake EXCEPT ![t] = @ - 1]
             m == s_msg[t]
  <2>1. /\ pc[t] = "snd" /\ wake[t] > 0 /\ UNCHANGED idsVars
        /\ \/ \E e : SndGiveUp(t, m, e)
           \/ /\ ipc_lock(msqid[t]) # NULL
              /\ SndSection(t, msqid[t], req[t], m, ipc_lock(msqid[t]), lists, w)
    BY Zenon, <1>2 DEF MsgsndWake
  <2>2. SndCtx(t, req[t], m, lists, w)
    BY Zenon, <2>1, SndCtxWake
  <2>3. req[t] \in SndReqs /\ msqid[t] \in Int
    BY Zenon, <2>1, <1>0 DEF Asked, SysvTypeOK
  <2> HIDE DEF lists, w, m
  <2>4. CASE /\ ipc_lock(msqid[t]) # NULL
             /\ SndSection(t, msqid[t], req[t], m, ipc_lock(msqid[t]), lists, w)
    <3>1. ipc_lock(msqid[t]) \in Live
      BY Zenon, <2>3, <2>4, <1>0, LockLive
    <3> QED BY Zenon, <3>1, <2>1, <2>2, <2>3, <2>4, SndSectionStep
  <2>5. ASSUME NEW e, SndGiveUp(t, m, e) PROVE Typed!QueueNext
    BY Zenon, <2>1, <2>2, <2>5, GiveUpStep
  <2> QED BY Zenon, <2>1, <2>4, <2>5
<1> QED BY Zenon, <1>1, <1>2
=============================================================================
