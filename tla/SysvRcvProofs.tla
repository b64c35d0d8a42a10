--------------------------- MODULE SysvRcvProofs ----------------------------
(***************************************************************************)
(* rt_msgrcv preserves the invariant of the message queues.                 *)
(***************************************************************************)
EXTENDS SysvMsgInv

\* Where rt_msgrcv is when it holds the lock: t is in no list any more.
RcvCtx(t, lists, w) ==
  /\ pc[t] \in {"idle", "rcv"}
  /\ lists \in [Obj -> Seq(Task)]
  /\ \A p \in Live : Range(lists[p]) = Range(rcvs[p]) \ {t}
  /\ w \in [Task -> Nat] /\ \A u \in Task : u # t => w[u] = wake[u]

\* rt_msgrcv has just been called.
LEMMA RcvCtxIdle ==
  ASSUME Inv, NEW t \in Task, pc[t] = "idle"
  PROVE  RcvCtx(t, rcvs, wake) /\ r_msg[t] \notin Msg
<1>1. wake \in [Task -> Nat] /\ rcvs \in [Obj -> Seq(Task)]
  BY Zenon DEF Inv, SysvTypeOK
<1>2. r_msg[t] = "none" /\ \A p \in Live : t \notin Range(rcvs[p])
  BY Zenon DEF Inv, FrameInv, ReceiversListed
<1>3. "none" \notin Msg
  BY Zenon, MsgAssumption
<1> QED BY Zenon, <1>1, <1>2, <1>3 DEF RcvCtx

\* A receiver that was answered is in no list; one that was not is unlinked.
LEMMA RcvCtxWake ==
  ASSUME Inv, NEW t \in Task, pc[t] = "rcv", wake[t] > 0
  PROVE  /\ r_msg[t] # "EAGAIN" => RcvCtx(t, rcvs, [wake EXCEPT ![t] = @ - 1])
         /\ r_msg[t] = "EAGAIN" => RcvCtx(t, [rcvs EXCEPT ![msq[t]] = Without(@, {t})],
                                          [wake EXCEPT ![t] = @ - 1])
<1> DEFINE w == [wake EXCEPT ![t] = @ - 1]
           lists == [rcvs EXCEPT ![msq[t]] = Without(@, {t})]
<1>1. SysvTypeOK /\ TableInv /\ ReceiversListed
  BY Zenon DEF Inv
<1>2. rcvs \in [Obj -> Seq(Task)] /\ Live \subseteq Obj
  BY Zenon, <1>1, LiveFacts DEF SysvTypeOK
<1>3. w \in [Task -> Nat] /\ \A u \in Task : u # t => w[u] = wake[u]
  <2>1. wake \in [Task -> Nat] /\ wake[t] - 1 \in Nat
    BY SMT, Z3, <1>1 DEF SysvTypeOK
  <2> QED BY Zenon, <2>1
<1> HIDE DEF w
<1>4. CASE r_msg[t] # "EAGAIN"
  <2>1. \A p \in Live : t \notin Range(rcvs[p])
    BY Zenon, <1>1, <1>4 DEF ReceiversListed
  <2> QED BY Zenon, <2>1, <1>2, <1>3, <1>4 DEF RcvCtx, w
<1>5. CASE r_msg[t] = "EAGAIN"
  <2>1. msq[t] \in Live /\ msq[t] \in Obj
    BY Zenon, <1>1, <1>2, <1>5 DEF ReceiversListed
  <2>2. /\ Without(rcvs[msq[t]], {t}) \in Seq(Task)
        /\ Range(Without(rcvs[msq[t]], {t})) = Range(rcvs[msq[t]]) \ {t}
    BY Zenon, <1>2, <2>1, WithoutLemma
  <2>3. \A p \in Live : p # msq[t] => t \notin Range(rcvs[p])
    BY Zenon, <1>1 DEF ReceiversListed
  <2>4. /\ lists \in [Obj -> Seq(Task)]
        /\ lists[msq[t]] = Without(rcvs[msq[t]], {t})
        /\ \A p \in Live : p # msq[t] => lists[p] = rcvs[p]
    BY Zenon, <1>2, <2>1, <2>2
  <2> HIDE DEF lists
  <2>5. \A p \in Live : Range(lists[p]) = Range(rcvs[p]) \ {t}
    BY Zenon, <2>2, <2>3, <2>4
  <2>6. RcvCtx(t, lists, w)
    BY Zenon, <2>4, <2>5, <1>3 DEF RcvCtx
  <2> QED BY Zenon, <2>6, <1>5 DEF lists, w
<1> QED BY Zenon, <1>4, <1>5

\* The other tasks are at most resumed.
RcvQuiet(t, w) ==
  /\ snds' = snds
  /\ wake' \in [Task -> Nat] /\ \A u \in Task : wake'[u] >= w[u]
  /\ \A u \in Task : u # t => r_msg'[u] = r_msg[u]

\* What a receive does to the other tasks.
LEMMA RcvKept ==
  ASSUME Inv, NEW t \in Task, NEW lists, NEW w, RcvCtx(t, lists, w), Frames(t),
         RcvQuiet(t, w),
         \A p \in Live, u \in Task :
           u # t => (u \in Range(rcvs'[p]) <=> u \in Range(lists[p]))
  PROVE  Kept(t) /\ \A p \in Live : t \notin Range(snds'[p])
<1>1. \A p \in Live : t \notin Range(snds[p])
  BY Zenon DEF Inv, SendersListed, RcvCtx
<1>2. \A u \in Task : u # t => wake'[u] >= wake[u]
  BY Zenon DEF RcvCtx, RcvQuiet
<1>3. \A p \in Live, u \in Task :
        u # t => (u \in Range(rcvs'[p]) <=> u \in Range(rcvs[p]))
  BY Zenon DEF RcvCtx
<1> QED BY Zenon, <1>1, <1>2, <1>3 DEF Kept, Frames, RcvQuiet

\* Ownership does not change when only answers that are no messages do.
LEMMA OwnersSame ==
  ASSUME MessagesOwned, SysvTypeOK, msgs' = msgs, heap' = heap, s_msg' = s_msg,
         \A u \in Task : \/ r_msg'[u] = r_msg[u]
                         \/ r_msg[u] \notin Msg /\ r_msg'[u] \notin Msg
  PROVE  MessagesOwned'
<1>1. \A u \in Task, x \in Msg : r_msg'[u] = x <=> r_msg[u] = x
  BY Zenon
<1>2. /\ \A o \in Obj : IsInjective(msgs'[o])
      /\ \A o, p \in Obj : o # p => Range(msgs'[o]) \cap Range(msgs'[p]) = {}
  BY Zenon DEF MessagesOwned
<1>3. \A o \in Obj, t \in Task : /\ s_msg'[t] \notin Range(msgs'[o])
                                 /\ r_msg'[t] \notin Range(msgs'[o])
  <2>1. \A o \in Obj, t \in Task : r_msg'[t] \notin Range(msgs[o])
    <3>1. SUFFICES ASSUME NEW o \in Obj, NEW t \in Task,
                          r_msg'[t] \in Range(msgs[o])
                   PROVE  FALSE
      BY Zenon
    <3>2. r_msg'[t] \in Msg
      BY Zenon, <3>1, MsgsTyped
    <3>3. r_msg[t] \notin Range(msgs[o])
      BY Zenon DEF MessagesOwned
    <3> QED BY Zenon, <3>1, <3>2, <3>3
  <2> QED BY Zenon, <2>1 DEF MessagesOwned
<1>4. ASSUME NEW t \in Task, NEW u \in Task
      PROVE  /\ s_msg'[t] \in Msg => s_msg'[t] # r_msg'[u]
             /\ s_msg'[t] \in Msg /\ s_msg'[t] = s_msg'[u] => t = u
             /\ r_msg'[t] \in Msg /\ r_msg'[t] = r_msg'[u] => t = u
  <2>1. /\ s_msg[t] \in Msg => s_msg[t] # r_msg[u]
        /\ s_msg[t] \in Msg /\ s_msg[t] = s_msg[u] => t = u
        /\ r_msg[t] \in Msg /\ r_msg[t] = r_msg[u] => t = u
    BY Zenon DEF MessagesOwned
  <2> QED BY Zenon, <2>1, <1>1
<1>5. ASSUME NEW m \in Msg
      PROVE  heap'[m] # Free <=> \/ \E o \in Obj : m \in Range(msgs'[o])
                                 \/ \E t \in Task : m \in {s_msg'[t], r_msg'[t]}
  <2>1. heap[m] # Free <=> \/ \E o \in Obj : m \in Range(msgs[o])
                           \/ \E t \in Task : m \in {s_msg[t], r_msg[t]}
    BY Zenon DEF MessagesOwned
  <2> QED BY Zenon, <2>1, <1>1
<1> QED BY Zenon, <1>2, <1>3, <1>4, <1>5 DEF MessagesOwned

\* rt_msgrcv returns an error.
LEMMA RcvGiveUpInv ==
  ASSUME Inv, NEW t \in Task, NEW lists, NEW w, NEW e, RcvCtx(t, lists, w),
         r_msg[t] \notin Msg, RcvGiveUp(t, e), rcvs' = lists, wake' = w,
         UNCHANGED <<idsVars, snds, sem>>
  PROVE  Inv'
<1>0. SysvTypeOK /\ TableInv /\ FrameInv /\ MessagesOwned
  BY Zenon DEF Inv
<1>1. /\ Leave(t, Err(e)) /\ r_msg' = [r_msg EXCEPT ![t] = "none"]
      /\ UNCHANGED <<qVars, counters, heap>>
  BY Zenon DEF RcvGiveUp
<1>2. TableKept
  BY Zenon, <1>0, KeptWhenUnchanged
<1>3. Frames(t) /\ pc'[t] = "idle" /\ s_msg'[t] = "none" /\ killed'[t] = FALSE
  BY Zenon, <1>0, <1>1, LeaveFrames
<1>4. /\ r_msg'[t] = "none" /\ \A u \in Task : u # t => r_msg'[u] = r_msg[u]
      /\ r_msg' \in [Task -> Msg \cup {"none", "EAGAIN", "EIDRM", "E2BIG"}]
  BY Zenon, <1>0, <1>1 DEF SysvTypeOK
<1>5. wake' \in [Task -> Nat] /\ lists \in [Obj -> Seq(Task)] /\ pc[t] \in {"idle", "rcv"}
      /\ \A u \in Task : wake'[u] >= w[u]
  BY SMT, Z3 DEF RcvCtx
<1>6. Kept(t) /\ \A p \in Live : t \notin Range(snds'[p])
  <2>1. RcvQuiet(t, w)
    BY Zenon, <1>4, <1>5 DEF RcvQuiet
  <2> QED BY Zenon, <2>1, <1>3, RcvKept
<1>7. \A p \in Live : t \notin Range(rcvs'[p])
  BY Zenon DEF RcvCtx
<1>8. Awake(t)'
  BY Zenon, <1>2, <1>3, <1>4, <1>6, <1>7 DEF Awake, TableKept
<1>9. SysvTypeOK'
  BY Zenon, <1>0, <1>1, <1>2, <1>3, <1>4, <1>5, TypeKept
  DEF SysvTypeOK, qVars, counters, TableKept
<1>10. /\ TableInv' /\ NoBug' /\ SemHeld' /\ FrameInv' /\ Clean'
       /\ ReceiversListed' /\ SendersListed' /\ Told'
  <2>1. \A p \in Obj \ Live : msgs'[p] = msgs[p]
    BY Zenon, <1>1 DEF qVars
  <2> QED BY Zenon, <2>1, <1>2, <1>5, <1>6, <1>8, <1>9, ListsKept
<1>11. NoMatch'
  <2>1. ASSUME NEW p \in Live, NEW u \in Task, NEW x \in Msg,
               u \in Range(rcvs'[p]), x \in Range(msgs'[p])
        PROVE  ~ testmsg(heap'[x].type, req'[u])
    <3>1. u \in Range(rcvs[p]) /\ u # t
      BY Zenon, <2>1, <1>7 DEF RcvCtx
    <3>2. x \in Range(msgs[p]) /\ heap' = heap /\ req'[u] = req[u]
      BY Zenon, <2>1, <3>1, <1>1, <1>3 DEF qVars, Frames
    <3> QED BY Zenon, <3>1, <3>2 DEF Inv, NoMatch
  <2> QED BY Zenon, <2>1, <1>2 DEF NoMatch, TableKept
<1>12. Permitted'
  BY Zenon, <1>1, <1>3, <1>5, <1>6, PermittedKept DEF qVars
<1>13. MessagesOwned'
  <2>1. msgs' = msgs /\ heap' = heap
    BY Zenon, <1>1 DEF qVars
  <2>2. s_msg' = s_msg
    BY Zenon, <1>0, <1>3, <1>5, SameSender
  <2>3. \A u \in Task : r_msg'[u] = r_msg[u] \/ (r_msg[u] \notin Msg /\ r_msg'[u] \notin Msg)
    BY Zenon, <1>4, MsgAssumption
  <2> QED BY Zenon, <2>1, <2>2, <2>3, <1>0, OwnersSame
<1> QED BY Zenon, <1>9, <1>10, <1>11, <1>12, <1>13 DEF Inv

\* rt_msgrcv goes to sleep because no message on the queue is one it wants.
LEMMA RcvSleepInv ==
  ASSUME Inv, NEW t \in Task, NEW id \in Int, NEW r \in RcvArgs, NEW lists, NEW w,
         RcvCtx(t, lists, w), r_msg[t] \notin Msg, ipc_lock(id) # NULL,
         ipcperms(t, ipc_lock(id), {"r"}),
         \A m \in Range(msgs[ipc_lock(id)]) : ~ testmsg(heap[m].type, r),
         RcvSleep(t, id, r, ipc_lock(id), lists), wake' = w,
         UNCHANGED <<idsVars, snds, sem>>
  PROVE  Inv'
<1> DEFINE o == ipc_lock(id)
<1>0. SysvTypeOK /\ TableInv /\ FrameInv /\ MessagesOwned
  BY Zenon DEF Inv
<1>1. /\ rcvs' = [lists EXCEPT ![o] = Append(@, t)]
      /\ r_msg' = [r_msg EXCEPT ![t] = "EAGAIN"]
      /\ Stay(t, "rcv", id, o, r, "none") /\ UNCHANGED <<qVars, counters, heap>>
  BY Zenon DEF RcvSleep
<1>2. o \in Live /\ o \in Obj
  BY Zenon, <1>0, LockLive
<1>3. TableKept /\ ipc_lock(id)' = o
  BY Zenon, <1>0, KeptWhenUnchanged DEF TableKept
<1>4. /\ lists \in [Obj -> Seq(Task)] /\ pc[t] \in {"idle", "rcv"}
      /\ wake' \in [Task -> Nat] /\ \A u \in Task : wake'[u] >= w[u]
  BY SMT, Z3 DEF RcvCtx
<1>5. /\ Frames(t) /\ pc'[t] = "rcv" /\ msqid'[t] = id /\ msq'[t] = o
      /\ req'[t] = r /\ s_msg'[t] = "none" /\ killed'[t] = FALSE
  <2>1. o \in Obj \cup {NULL} /\ r \in SndArgs \cup RcvArgs \cup {NoReq}
        /\ "none" \in Msg \cup {"none"} /\ ("rcv" = "snd" => r \in SndArgs)
    BY Zenon, <1>2
  <2> QED BY <2>1, <1>0, <1>1, <1>4, StayFrames, Zenon
<1>6. /\ rcvs' \in [Obj -> Seq(Task)]
      /\ Range(rcvs'[o]) = Range(lists[o]) \cup {t}
      /\ \A p \in Obj : p # o => rcvs'[p] = lists[p]
  <2> HIDE DEF o
  <2>0. lists[o] \in Seq(Task)
    BY Zenon, <1>2, <1>4
  <2>1. /\ Append(lists[o], t) \in Seq(Task)
        /\ Range(Append(lists[o], t)) = Range(lists[o]) \cup {t}
    BY <2>0, AppendRng
  <2> QED BY Zenon, <2>1, <1>1, <1>2, <1>4
<1>7. /\ r_msg'[t] = "EAGAIN" /\ \A u \in Task : u # t => r_msg'[u] = r_msg[u]
      /\ r_msg' \in [Task -> Msg \cup {"none", "EAGAIN", "EIDRM", "E2BIG"}]
  BY Zenon, <1>0, <1>1 DEF SysvTypeOK
<1>8. /\ ipcperms(t, o, {"r"})
      /\ \A m \in Range(msgs[o]) : ~ testmsg(heap[m].type, r)
  BY Zenon
<1> HIDE DEF o
<1>9. \A p \in Live : p \in Obj /\ Range(lists[p]) = Range(rcvs[p]) \ {t}
  BY Zenon, <1>0, LiveFacts DEF RcvCtx
<1>10. Kept(t) /\ \A p \in Live : t \notin Range(snds'[p])
  <2>1. RcvQuiet(t, w)
    BY Zenon, <1>4, <1>7 DEF RcvQuiet
  <2>2. \A p \in Live, u \in Task :
          u # t => (u \in Range(rcvs'[p]) <=> u \in Range(lists[p]))
    BY Zenon, <1>6, <1>9
  <2> QED BY Zenon, <2>1, <2>2, <1>5, RcvKept
<1>11. RcvAsleep(t)'
  <2>1. Live' = Live
    BY Zenon, <1>3 DEF TableKept
  <2>2. t \in Range(rcvs'[o]) /\ \A p \in Live : t \in Range(rcvs'[p]) => p = o
    BY Zenon, <1>6, <1>9
  <2> QED BY Zenon, <2>1, <2>2, <1>2, <1>3, <1>5, <1>7, <1>10 DEF RcvAsleep
<1>12. SysvTypeOK'
  BY Zenon, <1>0, <1>1, <1>3, <1>4, <1>5, <1>6, <1>7, TypeKept
  DEF SysvTypeOK, qVars, counters, TableKept
<1>13. /\ TableInv' /\ NoBug' /\ SemHeld' /\ FrameInv' /\ Clean'
       /\ ReceiversListed' /\ SendersListed' /\ Told'
  <2>1. \A p \in Obj \ Live : msgs'[p] = msgs[p]
    BY Zenon, <1>1 DEF qVars
  <2> QED BY Zenon, <2>1, <1>3, <1>4, <1>10, <1>11, <1>12, ListsKept
<1>14. NoMatch'
  <2>1. ASSUME NEW p \in Live, NEW u \in Task, NEW x \in Msg,
               u \in Range(rcvs'[p]), x \in Range(msgs'[p])
        PROVE  ~ testmsg(heap'[x].type, req'[u])
    <3>1. x \in Range(msgs[p]) /\ heap' = heap
      BY Zenon, <2>1, <1>1 DEF qVars
    <3>2. CASE u = t
      <4>1. p = o
        BY Zenon, <2>1, <3>2, <1>6, <1>9
      <4> QED BY Zenon, <4>1, <3>1, <3>2, <1>5, <1>8
    <3>3. CASE u # t
      <4>1. req'[u] = req[u]
        BY Zenon, <3>3, <1>5 DEF Frames
      <4>2. u \in Range(lists[p])
        <5>1. CASE p = o
          BY Zenon, <5>1, <2>1, <3>3, <1>6
        <5>2. CASE p # o
          BY Zenon, <5>2, <2>1, <1>6, <1>9
        <5> QED BY Zenon, <5>1, <5>2
      <4>3. u \in Range(rcvs[p])
        BY Zenon, <4>2, <1>9
      <4> QED BY Zenon, <4>1, <4>3, <3>1 DEF Inv, NoMatch
    <3> QED BY Zenon, <3>2, <3>3
  <2> QED BY Zenon, <2>1, <1>3 DEF NoMatch, TableKept
<1>15. Permitted'
  <2>0. acl' = acl /\ UNCHANGED <<cbytes, qnum, qbytes>>
    BY Zenon, <1>1 DEF qVars
  <2>1. ASSUME NEW u \in Task, u # t, pc'[u] \in {"rcv", "snd"}, wake'[u] = 0
        PROVE  /\ pc[u] = pc'[u] /\ msq'[u] = msq[u] /\ req'[u] = req[u] /\ wake[u] = 0
    <3>0. Kept(t)
      BY Zenon, <1>10
    <3>1. wake[u] \in Nat /\ wake'[u] >= wake[u]
      BY Zenon, <2>1, <3>0, <1>0 DEF SysvTypeOK, Kept
    <3>2. pc[u] = pc'[u] /\ msq'[u] = msq[u] /\ req'[u] = req[u]
      BY Zenon, <2>1, <3>0 DEF Kept
    <3> QED BY SMT, Z3, <2>1, <3>1, <3>2
  <2>2. ASSUME NEW u \in Task, u # t
        PROVE  /\ pc'[u] = "rcv" /\ wake'[u] = 0 => ipcperms(u, msq[u], {"r"})'
               /\ pc'[u] = "snd" /\ wake'[u] = 0 => /\ ipcperms(u, msq[u], {"w"})'
                                                    /\ full(msq[u], req[u].sz)'
    <3>1. /\ pc[u] = "rcv" /\ wake[u] = 0 => ipcperms(u, msq[u], {"r"})
          /\ pc[u] = "snd" /\ wake[u] = 0 => /\ ipcperms(u, msq[u], {"w"})
                                             /\ full(msq[u], req[u].sz)
      BY Zenon DEF Inv, Permitted
    <3>2. /\ \A p, x : ipcperms(u, p, x)' = ipcperms(u, p, x)
          /\ \A p, sz : full(p, sz)' = full(p, sz)
      BY Zenon, <2>0, SameAcl, SameFull
    <3> QED BY Zenon, <3>1, <3>2, <2>1, <2>2
  <2>3. ipcperms(t, msq[t], {"r"})'
    BY Zenon, <2>0, <1>5, <1>8 DEF ipcperms, granted
  <2> QED BY Zenon, <2>2, <2>3, <1>5 DEF Permitted
<1>16. MessagesOwned'
  <2>1. msgs' = msgs /\ heap' = heap
    BY Zenon, <1>1 DEF qVars
  <2>2. s_msg' = s_msg
    BY Zenon, <1>0, <1>4, <1>5, SameSender
  <2>3. \A u \in Task : r_msg'[u] = r_msg[u] \/ (r_msg[u] \notin Msg /\ r_msg'[u] \notin Msg)
    BY Zenon, <1>7, MsgAssumption
  <2> QED BY Zenon, <2>1, <2>2, <2>3, <1>0, OwnersSame
<1> QED BY Zenon, <1>12, <1>13, <1>14, <1>15, <1>16 DEF Inv

\* The message m, off every list, is copied out and freed.
LEMMA DeliveredFacts ==
  ASSUME Inv, NEW t \in Task, NEW r, NEW m \in Msg, Delivered(t, r, m)
  PROVE  /\ Frames(t) /\ pc'[t] = "idle" /\ s_msg'[t] = "none" /\ killed'[t] = FALSE
         /\ r_msg'[t] = "none" /\ \A u \in Task : u # t => r_msg'[u] = r_msg[u]
         /\ r_msg' \in [Task -> Msg \cup {"none", "EAGAIN", "EIDRM", "E2BIG"}]
         /\ heap'[m] = Free /\ \A x \in Msg : x # m => heap'[x] = heap[x]
         /\ heap' \in [Msg -> [type : Int, ts : Int]]
<1>1. SysvTypeOK
  BY Zenon DEF Inv
<1>2. PICK v : Leave(t, v)
  BY Zenon DEF Delivered
<1>3. Frames(t) /\ pc'[t] = "idle" /\ s_msg'[t] = "none" /\ killed'[t] = FALSE
  BY Zenon, <1>1, <1>2, LeaveFrames
<1>4. /\ r_msg'[t] = "none" /\ \A u \in Task : u # t => r_msg'[u] = r_msg[u]
      /\ r_msg' \in [Task -> Msg \cup {"none", "EAGAIN", "EIDRM", "E2BIG"}]
  BY Zenon, <1>1 DEF SysvTypeOK, Delivered
<1>5. /\ heap'[m] = Free /\ \A x \in Msg : x # m => heap'[x] = heap[x]
      /\ heap' \in [Msg -> [type : Int, ts : Int]]
  <2>1. heap' = [heap EXCEPT ![m] = Free]
    BY Zenon DEF Delivered
  <2> QED BY SMT, Z3, <2>1, <1>1 DEF SysvTypeOK, Free
<1> QED BY Zenon, <1>3, <1>4, <1>5

\* rt_msgrcv takes a message off the queue and wakes every sleeping sender.
LEMMA RcvTakeInv ==
  ASSUME Inv, NEW t \in Task, NEW r, NEW o \in Live, NEW i \in DOMAIN msgs[o],
         NEW lists, NEW w, RcvCtx(t, lists, w), r_msg[t] \notin Msg,
         RcvTake(t, r, o, i, w), rcvs' = lists, UNCHANGED <<idsVars, snds, sem>>
  PROVE  Inv'
<1>m. PICK m : m = msgs[o][i]
  BY Zenon
<1>0. SysvTypeOK /\ TableInv /\ FrameInv /\ MessagesOwned
  BY Zenon DEF Inv
<1>1. /\ msgs' = [msgs EXCEPT ![o] = DropAt(@, i)]
      /\ qnum' = [qnum EXCEPT ![o] = @ - 1]
      /\ cbytes' = [cbytes EXCEPT ![o] = @ - heap[m].ts]
      /\ msg_bytes' = msg_bytes - heap[m].ts /\ msg_hdrs' = msg_hdrs - 1
      /\ wake' = resume(w, Range(snds[o]))
      /\ Delivered(t, r, m) /\ acl' = acl /\ qbytes' = qbytes
  BY Zenon, <1>m DEF RcvTake, TakeOff
<1>2. /\ o \in Obj /\ Live \subseteq Obj /\ msgs \in [Obj -> Seq(Msg)]
      /\ msgs[o] \in Seq(Msg)
  BY Zenon, <1>0, LiveFacts DEF SysvTypeOK
<1>3. m \in Msg /\ m \in Range(msgs[o])
  BY SMT, Z3, <1>m, <1>2 DEF Range
<1>4. /\ DropAt(msgs[o], i) \in Seq(Msg) /\ IsInjective(DropAt(msgs[o], i))
      /\ Range(DropAt(msgs[o], i)) = Range(msgs[o]) \ {m}
  <2>1. IsInjective(msgs[o])
    BY Zenon, <1>0, <1>2 DEF MessagesOwned
  <2> QED BY Zenon, <2>1, <1>m, <1>2, DropAtLemma
<1>5. /\ Frames(t) /\ pc'[t] = "idle" /\ s_msg'[t] = "none" /\ killed'[t] = FALSE
      /\ r_msg'[t] = "none" /\ \A u \in Task : u # t => r_msg'[u] = r_msg[u]
      /\ r_msg' \in [Task -> Msg \cup {"none", "EAGAIN", "EIDRM", "E2BIG"}]
      /\ heap'[m] = Free /\ \A x \in Msg : x # m => heap'[x] = heap[x]
      /\ heap' \in [Msg -> [type : Int, ts : Int]]
  BY Zenon, <1>1, <1>3, DeliveredFacts
<1>6. TableKept
  BY Zenon, <1>0, KeptWhenUnchanged
<1>7. /\ lists \in [Obj -> Seq(Task)] /\ pc[t] \in {"idle", "rcv"}
      /\ w \in [Task -> Nat] /\ wake' \in [Task -> Nat]
      /\ \A u \in Task : wake'[u] >= w[u] /\ (u \in Range(snds[o]) => wake'[u] > 0)
  <2>1. lists \in [Obj -> Seq(Task)] /\ w \in [Task -> Nat] /\ pc[t] \in {"idle", "rcv"}
    BY Zenon DEF RcvCtx
  <2> QED BY Zenon, <2>1, <1>1, ResumeType
<1>8. Kept(t) /\ \A p \in Live : t \notin Range(snds'[p])
  <2>1. RcvQuiet(t, w)
    BY Zenon, <1>5, <1>7 DEF RcvQuiet
  <2>2. Frames(t)
    BY Zenon, <1>5
  <2> QED BY Zenon, <2>1, <2>2, RcvKept
<1>9. \A p \in Live : Range(rcvs'[p]) = Range(rcvs[p]) \ {t}
  BY Zenon DEF RcvCtx
<1>10. Awake(t)'
  BY Zenon, <1>5, <1>6, <1>8, <1>9 DEF Awake, TableKept
<1>11. /\ msgs' \in [Obj -> Seq(Msg)] /\ msgs'[o] = DropAt(msgs[o], i)
       /\ \A p \in Obj : p # o => msgs'[p] = msgs[p]
  BY Zenon, <1>1, <1>2, <1>4
<1>12. /\ cbytes' \in [Obj -> Int] /\ qnum' \in [Obj -> Int]
       /\ msg_bytes' \in Int /\ msg_hdrs' \in Int
       /\ \A p \in Obj : p # o => cbytes'[p] = cbytes[p] /\ qnum'[p] = qnum[p]
  <2>1. /\ cbytes \in [Obj -> Int] /\ qnum \in [Obj -> Int]
        /\ msg_bytes \in Int /\ msg_hdrs \in Int /\ heap[m].ts \in Int
    BY Zenon, <1>0, <1>3 DEF SysvTypeOK
  <2>2. /\ cbytes' = [cbytes EXCEPT ![o] = cbytes[o] - heap[m].ts]
        /\ qnum' = [qnum EXCEPT ![o] = qnum[o] - 1]
    BY Zenon, <1>1
  <2>3. cbytes[o] - heap[m].ts \in Int /\ qnum[o] - 1 \in Int
    BY SMT, Z3, <2>1, <1>2
  <2>4. cbytes' \in [Obj -> Int] /\ qnum' \in [Obj -> Int]
    BY Zenon, <2>1, <2>2, <2>3, ExceptType
  <2>5. \A p \in Obj : p # o => cbytes'[p] = cbytes[p] /\ qnum'[p] = qnum[p]
    BY Zenon, <2>1, <2>2
  <2> QED BY SMT, Z3, <2>1, <2>4, <2>5, <1>1
<1>13. SysvTypeOK'
  BY Zenon, <1>0, <1>1, <1>5, <1>6, <1>7, <1>11, <1>12, TypeKept DEF SysvTypeOK, TableKept
<1>14. /\ TableInv' /\ NoBug' /\ SemHeld' /\ FrameInv' /\ Clean'
       /\ ReceiversListed' /\ SendersListed' /\ Told'
  <2>1. \A p \in Obj \ Live : msgs'[p] = msgs[p]
    BY Zenon, <1>11
  <2> QED BY Zenon, <2>1, <1>6, <1>7, <1>8, <1>10, <1>13, ListsKept
<1>15. NoMatch'
  <2>1. ASSUME NEW p \in Live, NEW u \in Task, NEW x \in Msg,
               u \in Range(rcvs'[p]), x \in Range(msgs'[p])
        PROVE  ~ testmsg(heap'[x].type, req'[u])
    <3>1. u \in Range(rcvs[p]) /\ u # t
      BY Zenon, <2>1, <1>9
    <3>2. x \in Range(msgs[p]) /\ x # m
      <4>1. CASE p = o
        BY Zenon, <4>1, <2>1, <1>4, <1>11
      <4>2. CASE p # o
        <5>1. x \in Range(msgs[p]) /\ p \in Obj
          BY Zenon, <4>2, <2>1, <1>2, <1>11
        <5> QED BY Zenon, <5>1, <4>2, <1>0, <1>2, <1>3 DEF MessagesOwned
      <4> QED BY Zenon, <4>1, <4>2
    <3>3. heap'[x] = heap[x] /\ req'[u] = req[u]
      BY Zenon, <3>1, <3>2, <1>5 DEF Frames
    <3> QED BY Zenon, <3>1, <3>2, <3>3 DEF Inv, NoMatch
  <2> QED BY Zenon, <2>1, <1>6 DEF NoMatch, TableKept
<1>16. Permitted'
  <2>1. ASSUME NEW u \in Task, pc'[u] \in {"rcv", "snd"}, wake'[u] = 0
        PROVE  /\ pc[u] = pc'[u] /\ msq'[u] = msq[u] /\ req'[u] = req[u] /\ wake[u] = 0
               /\ u \notin Range(snds[o])
    <3>0. u # t
      BY Zenon, <2>1, <1>5
    <3>1. wake[u] \in Nat /\ wake'[u] >= wake[u]
      BY Zenon, <3>0, <1>0, <1>8 DEF SysvTypeOK, Kept
    <3>2. pc[u] = pc'[u] /\ msq'[u] = msq[u] /\ req'[u] = req[u]
      BY Zenon, <3>0, <1>8 DEF Kept
    <3>3. u \notin Range(snds[o])
      BY SMT, Z3, <2>1, <1>7
    <3> QED BY SMT, Z3, <2>1, <3>1, <3>2, <3>3
  <2>2. ASSUME NEW u \in Task, pc'[u] = "rcv", wake'[u] = 0
        PROVE  ipcperms(u, msq[u], {"r"})'
    <3>1. ipcperms(u, msq[u], {"r"}) /\ msq'[u] = msq[u]
      BY Zenon, <2>1, <2>2 DEF Inv, Permitted
    <3> QED BY Zenon, <3>1, <1>1, SameAcl
  <2>3. ASSUME NEW u \in Task, pc'[u] = "snd", wake'[u] = 0
        PROVE  ipcperms(u, msq[u], {"w"})' /\ full(msq[u], req[u].sz)'
    <3>1. /\ ipcperms(u, msq[u], {"w"}) /\ full(msq[u], req[u].sz)
          /\ msq'[u] = msq[u] /\ req'[u] = req[u]
      BY Zenon, <2>1, <2>3 DEF Inv, Permitted
    <3>2. ~ killed[u]
      <4>0. ~ (wake'[u] > 0)
        BY SMT, Z3, <2>3
      <4>1. killed'[u] => wake'[u] > 0
        BY Zenon, <1>14 DEF Told
      <4>2. ~ killed'[u]
        BY <4>0, <4>1, Zenon
      <4>3. u # t
        BY Zenon, <2>3, <1>5
      <4> QED BY Zenon, <4>2, <4>3, <1>8 DEF Kept
    <3>3. msq[u] \in Live /\ u \in Range(snds[msq[u]])
      BY Zenon, <3>2, <2>1, <2>3 DEF Inv, SendersListed
    <3>4. msq[u] # o /\ msq[u] \in Obj
      BY Zenon, <3>3, <2>1, <2>3, <1>2
    <3>5. full(msq[u], req[u].sz)'
      BY Zenon, <3>1, <3>4, <1>1, <1>12 DEF full
    <3> QED BY Zenon, <3>1, <3>5, <1>1, SameAcl
  <2> QED BY Zenon, <2>2, <2>3 DEF Permitted
<1>17. MessagesOwned'
  <2>1. s_msg' = s_msg
    BY Zenon, <1>0, <1>5, <1>7, SameSender
  <2>2. \A u \in Task : /\ s_msg[u] # m /\ r_msg[u] # m
                        /\ \A x \in Msg : r_msg'[u] = x <=> r_msg[u] = x
    <3>1. \A u \in Task : s_msg[u] # m /\ r_msg[u] # m
      BY SMT, Z3, <1>0, <1>2, <1>3 DEF MessagesOwned
    <3>2. \A u \in Task, x \in Msg : r_msg'[u] = x <=> r_msg[u] = x
      BY Zenon, <1>5, MsgAssumption
    <3> QED BY Zenon, <3>1, <3>2
  <2>3. \A p \in Obj : IsInjective(msgs'[p]) /\ Range(msgs'[p]) \subseteq Msg
    <3>1. \A p \in Obj : IsInjective(msgs[p])
      BY Zenon, <1>0 DEF MessagesOwned
    <3>2. \A p \in Obj : Range(msgs[p]) \subseteq Msg
      BY Zenon, <1>0, MsgsTyped
    <3> QED BY Zenon, <3>1, <3>2, <1>2, <1>4, <1>11
  <2>4. \A p \in Obj, x \in Msg : x # m => (x \in Range(msgs'[p]) <=> x \in Range(msgs[p]))
    BY Zenon, <1>4, <1>11
  <2>5. \A p \in Obj : m \notin Range(msgs'[p])
    <3>1. \A p \in Obj : p # o => m \notin Range(msgs[p])
      BY Zenon, <1>0, <1>2, <1>3 DEF MessagesOwned
    <3> QED BY Zenon, <3>1, <1>4, <1>11
  <2>6. Moved(m)
    BY SMT, Z3, <2>1, <2>2, <2>3, <2>4, <1>5 DEF Moved
  <2>7. Unowned(m)'
    BY Zenon, <2>1, <2>2, <2>5, <1>3, <1>5 DEF Unowned
  <2> QED BY Zenon, <2>6, <2>7, <1>0, <1>3, OwnerMoves
<1> QED BY Zenon, <1>13, <1>14, <1>15, <1>16, <1>17 DEF Inv

\* A receiver that was handed a message returns it.
LEMMA RcvHandedInv ==
  ASSUME Inv, NEW t \in Task, NEW m \in Msg, NEW r, NEW w, r_msg[t] = m,
         pc[t] = "rcv", RcvCtx(t, rcvs, w), Delivered(t, r, m), wake' = w,
         UNCHANGED <<idsVars, qVars, counters, rcvs, snds, sem>>
  PROVE  Inv'
<1>0. SysvTypeOK /\ TableInv /\ FrameInv /\ MessagesOwned
  BY Zenon DEF Inv
<1>1. /\ Frames(t) /\ pc'[t] = "idle" /\ s_msg'[t] = "none" /\ killed'[t] = FALSE
      /\ r_msg'[t] = "none" /\ \A u \in Task : u # t => r_msg'[u] = r_msg[u]
      /\ r_msg' \in [Task -> Msg \cup {"none", "EAGAIN", "EIDRM", "E2BIG"}]
      /\ heap'[m] = Free /\ \A x \in Msg : x # m => heap'[x] = heap[x]
      /\ heap' \in [Msg -> [type : Int, ts : Int]]
  BY Zenon, DeliveredFacts
<1>2. TableKept
  BY Zenon, <1>0, KeptWhenUnchanged
<1>3. /\ wake' \in [Task -> Nat] /\ \A u \in Task : wake'[u] >= w[u]
      /\ \A p \in Live : t \notin Range(rcvs'[p])
  <2>1. wake' \in [Task -> Nat] /\ \A u \in Task : wake'[u] >= w[u]
    BY SMT, Z3 DEF RcvCtx
  <2>2. \A p \in Live : Range(rcvs[p]) = Range(rcvs[p]) \ {t}
    BY Zenon DEF RcvCtx
  <2>3. \A p \in Live : t \notin Range(rcvs[p])
    BY Zenon, <2>2
  <2> QED BY Zenon, <2>1, <2>3
<1>4. Kept(t) /\ \A p \in Live : t \notin Range(snds'[p])
  <2>1. RcvQuiet(t, w)
    BY Zenon, <1>1, <1>3 DEF RcvQuiet
  <2>2. Frames(t)
    BY Zenon, <1>1
  <2> QED BY Zenon, <2>1, <2>2, RcvKept
<1>5. Awake(t)'
  BY Zenon, <1>1, <1>2, <1>3, <1>4 DEF Awake, TableKept
<1>6. SysvTypeOK'
  BY Zenon, <1>0, <1>1, <1>2, <1>3, TypeKept DEF SysvTypeOK, qVars, counters, TableKept
<1>7. /\ TableInv' /\ NoBug' /\ SemHeld' /\ FrameInv' /\ Clean'
      /\ ReceiversListed' /\ SendersListed' /\ Told'
  <2>1. \A p \in Obj \ Live : msgs'[p] = msgs[p]
    BY Zenon DEF qVars
  <2> QED BY Zenon, <2>1, <1>2, <1>4, <1>5, <1>6, ListsKept
<1>8. msgs' = msgs /\ \A p \in Obj : m \notin Range(msgs[p])
  BY Zenon, <1>0 DEF MessagesOwned, qVars
<1>9. NoMatch'
  <2>1. ASSUME NEW p \in Live, NEW u \in Task, NEW x \in Msg,
               u \in Range(rcvs'[p]), x \in Range(msgs'[p])
        PROVE  ~ testmsg(heap'[x].type, req'[u])
    <3>1. u \in Range(rcvs[p]) /\ u # t /\ x \in Range(msgs[p]) /\ p \in Obj
      BY Zenon, <2>1, <1>0, <1>3, <1>8, LiveFacts
    <3>2. heap'[x] = heap[x] /\ req'[u] = req[u]
      BY Zenon, <3>1, <1>1, <1>8 DEF Frames
    <3> QED BY Zenon, <3>1, <3>2 DEF Inv, NoMatch
  <2> QED BY Zenon, <2>1, <1>2 DEF NoMatch, TableKept
<1>10. Permitted'
  BY Zenon, <1>1, <1>3, <1>4, PermittedKept DEF qVars
<1>11. MessagesOwned'
  <2>1. s_msg' = s_msg
    BY Zenon, <1>0, <1>1, SameSender
  <2>2. \A u \in Task : s_msg[u] # m /\ r_msg'[u] # m
    BY SMT, Z3, <1>0, <1>1, MsgAssumption DEF MessagesOwned
  <2>3. \A u \in Task, x \in Msg : x # m => (r_msg'[u] = x <=> r_msg[u] = x)
    BY Zenon, <1>1, MsgAssumption
  <2>4. \A p \in Obj : IsInjective(msgs'[p]) /\ Range(msgs'[p]) \subseteq Msg
    BY Zenon, <1>0, <1>8, MsgsTyped DEF MessagesOwned
  <2>5. Moved(m)
    BY Zenon, <2>1, <2>2, <2>3, <2>4, <1>1, <1>8 DEF Moved
  <2>6. Unowned(m)'
    BY Zenon, <2>1, <2>2, <1>1, <1>8 DEF Unowned
  <2> QED BY Zenon, <2>5, <2>6, <1>0, OwnerMoves
<1> QED BY Zenon, <1>6, <1>7, <1>9, <1>10, <1>11 DEF Inv

\* Every way through the locked section of rt_msgrcv.
LEMMA RcvSectionInv ==
  ASSUME Inv, NEW t \in Task, NEW id \in Int, NEW r \in RcvArgs, NEW lists, NEW w,
         RcvCtx(t, lists, w), r_msg[t] \notin Msg, ipc_lock(id) # NULL,
         RcvSection(t, id, r, ipc_lock(id), lists, w),
         UNCHANGED <<idsVars, snds, sem>>
  PROVE  Inv'
<1> DEFINE o == ipc_lock(id)
<1>1. o \in Live
  BY Zenon, LockLive DEF Inv
<1>2. CASE (\E e : RcvGiveUp(t, e)) /\ rcvs' = lists /\ wake' = w
  BY Zenon, <1>2, RcvGiveUpInv
<1>3. CASE (\E i \in DOMAIN msgs[o] : RcvTake(t, r, o, i, w)) /\ rcvs' = lists
  <2> HIDE DEF o
  <2> QED BY Zenon, <1>1, <1>3, RcvTakeInv
<1>4. CASE /\ ipcperms(t, o, {"r"})
           /\ \A m \in Range(msgs[o]) : ~ testmsg(heap[m].type, r)
           /\ RcvSleep(t, id, r, o, lists) /\ wake' = w
  BY Zenon, <1>4, RcvSleepInv
<1>5. \/ (\E e : RcvGiveUp(t, e)) /\ rcvs' = lists /\ wake' = w
      \/ (\E i \in DOMAIN msgs[o] : RcvTake(t, r, o, i, w)) /\ rcvs' = lists
      \/ /\ ipcperms(t, o, {"r"})
         /\ \A m \in Range(msgs[o]) : ~ testmsg(heap[m].type, r)
         /\ RcvSleep(t, id, r, o, lists) /\ wake' = w
  BY Zenon DEF RcvSection
<1> QED BY Zenon, <1>2, <1>3, <1>4, <1>5

\* rt_msgrcv up to its return or its sleep preserves the invariant.
LEMMA MsgrcvInv ==
  ASSUME Inv, NEW t \in Task, NEW id \in CallIds, NEW r \in RcvReqs, Msgrcv(t, id, r)
  PROVE  Inv'
<1>1. /\ pc[t] = "idle" /\ id \in Int /\ r \in RcvArgs
      /\ UNCHANGED <<idsVars, snds, sem>>
  BY SMT, Z3, CallIdAssumption, RcvAssumption, WidthAssumption DEF Msgrcv
<1>2. RcvCtx(t, rcvs, wake) /\ r_msg[t] \notin Msg
  BY Zenon, <1>1, RcvCtxIdle
<1>3. CASE RcvGiveUp(t, "EINVAL") /\ UNCHANGED <<rcvs, wake>>
  BY Zenon, <1>1, <1>2, <1>3, RcvGiveUpInv
<1>4. CASE ipc_lock(id) # NULL /\ RcvSection(t, id, r, ipc_lock(id), rcvs, wake)
  BY Zenon, <1>1, <1>2, <1>4, RcvSectionInv
<1> QED BY Zenon, <1>3, <1>4 DEF Msgrcv

\* The queue a receiver of an unanswered call finds after the sleep is the one
\* it slept on, so the BUG() of msg.c:885 is not reached.
LEMMA MsgrcvWakeInv ==
  ASSUME Inv, NEW t \in Task, MsgrcvWake(t)
  PROVE  Inv'
<1> DEFINE w == [wake EXCEPT ![t] = @ - 1]
           list_del == [rcvs EXCEPT ![msq[t]] = Without(@, {t})]
<1>1. /\ pc[t] = "rcv" /\ wake[t] > 0
      /\ UNCHANGED <<size, entries, in_use, max_id, seq, perm, snds, sem>>
  BY Zenon DEF MsgrcvWake
<1>2. /\ r_msg[t] # "EAGAIN" => RcvCtx(t, rcvs, w)
      /\ r_msg[t] = "EAGAIN" => RcvCtx(t, list_del, w)
  BY Zenon, <1>1, RcvCtxWake
<1>3. req[t] \in RcvArgs /\ msqid[t] \in Int /\ bug \in BOOLEAN
  BY Zenon, <1>1 DEF Inv, SysvTypeOK, IdsTypeOK
<1>4. \/ /\ r_msg[t] \in Msg /\ Delivered(t, req[t], r_msg[t]) /\ wake' = w
         /\ UNCHANGED <<qVars, counters, rcvs, bug>>
      \/ /\ r_msg[t] \in {"EIDRM", "E2BIG"} /\ RcvGiveUp(t, r_msg[t])
         /\ wake' = w /\ UNCHANGED <<rcvs, bug>>
      \/ /\ r_msg[t] = "EAGAIN" /\ bug' = (bug \/ ipc_lock(msqid[t]) = NULL)
         /\ \/ RcvGiveUp(t, "EINTR") /\ rcvs' = list_del /\ wake' = w
            \/ RcvSection(t, msqid[t], req[t], msq[t], list_del, w)
  BY Zenon DEF MsgrcvWake
<1> HIDE DEF w, list_del
<1>5. {"EAGAIN", "EIDRM", "E2BIG"} \cap Msg = {}
  BY Zenon, MsgAssumption
<1>6. CASE /\ r_msg[t] \in Msg /\ Delivered(t, req[t], r_msg[t]) /\ wake' = w
           /\ UNCHANGED <<qVars, counters, rcvs, bug>>
  <2>1. PICK m \in Msg : m = r_msg[t]
    BY Zenon, <1>6
  <2>2. Delivered(t, req[t], m) /\ RcvCtx(t, rcvs, w)
    BY Zenon, <2>1, <1>2, <1>5, <1>6
  <2>3. UNCHANGED <<idsVars, qVars, counters, rcvs, snds, sem>>
    BY Zenon, <1>1, <1>6 DEF idsVars
  <2> QED BY Zenon, <2>1, <2>2, <2>3, <1>1, <1>6, RcvHandedInv
<1>7. CASE /\ r_msg[t] \in {"EIDRM", "E2BIG"} /\ RcvGiveUp(t, r_msg[t])
           /\ wake' = w /\ UNCHANGED <<rcvs, bug>>
  <2>1. RcvCtx(t, rcvs, w) /\ r_msg[t] \notin Msg
    BY Zenon, <1>2, <1>5, <1>7
  <2>2. UNCHANGED <<idsVars, snds, sem>>
    BY Zenon, <1>1, <1>7 DEF idsVars
  <2> QED BY Zenon, <2>1, <2>2, <1>7, RcvGiveUpInv
<1>8. CASE /\ r_msg[t] = "EAGAIN" /\ bug' = (bug \/ ipc_lock(msqid[t]) = NULL)
           /\ \/ RcvGiveUp(t, "EINTR") /\ rcvs' = list_del /\ wake' = w
              \/ RcvSection(t, msqid[t], req[t], msq[t], list_del, w)
  <2>1. ipc_lock(msqid[t]) = msq[t] /\ msq[t] # NULL
    BY Zenon, <1>1, <1>8, LiveFacts DEF Inv, ReceiversListed
  <2>2. bug' = bug
    BY Zenon, <2>1, <1>3, <1>8
  <2>3. UNCHANGED <<idsVars, snds, sem>>
    BY Zenon, <2>2, <1>1 DEF idsVars
  <2>4. RcvCtx(t, list_del, w) /\ r_msg[t] \notin Msg
    BY Zenon, <1>2, <1>5, <1>8
  <2>5. CASE RcvGiveUp(t, "EINTR") /\ rcvs' = list_del /\ wake' = w
    BY Zenon, <2>3, <2>4, <2>5, RcvGiveUpInv
  <2>6. CASE RcvSection(t, msqid[t], req[t], msq[t], list_del, w)
    <3>1. PICK id \in Int, r \in RcvArgs : id = msqid[t] /\ r = req[t]
      BY Zenon, <1>3
    <3>2. ipc_lock(id) # NULL /\ RcvSection(t, id, r, ipc_lock(id), list_del, w)
      BY Zenon, <3>1, <2>1, <2>6
    <3> QED BY Zenon, <3>2, <2>3, <2>4, RcvSectionInv
  <2> QED BY Zenon, <2>5, <2>6, <1>8
<1> QED BY Zenon, <1>4, <1>6, <1>7, <1>8

-----------------------------------------------------------------------------

-----------------------------------------------------------------------------
\* A receiver returns without a message.
LEMMA RcvGiveUpStep ==
  ASSUME Inv, NEW t \in Task, NEW e, r_msg[t] \notin Msg, RcvGiveUp(t, e),
         entries' = entries
  PROVE  Typed!QueueNext
<1>0. SysvTypeOK
  BY Zenon DEF Inv
<1>1. /\ Leave(t, Err(e)) /\ r_msg' = [r_msg EXCEPT ![t] = "none"]
      /\ msgs' = msgs /\ heap' = heap
  BY Zenon DEF RcvGiveUp, qVars
<1>2. r_msg'[t] = "none" /\ \A u \in Task : u # t => r_msg'[u] = r_msg[u]
  BY Zenon, <1>0, <1>1 DEF SysvTypeOK
<1>3. SameContent
  BY Zenon, <1>1 DEF SameContent, Live, Used
<1>4. Frames(t)
  BY Zenon, <1>0, <1>1, LeaveFrames
<1>5. SameReaders(t)
  BY Zenon, <1>1, <1>2, <1>4 DEF SameReaders, Frames
<1>6. ret'.got = Handed[t]
  <2>1. ret'.got = {}
    BY Zenon, <1>1, NothingGot DEF Leave
  <2>2. Handed[t] = {}
    BY Zenon, ReaderView
  <2> QED BY Zenon, <2>1, <2>2
<1> QED BY Zenon, <1>2, <1>3, <1>5, <1>6, ReturnStep

\* What a delivered message is recorded as.
LEMMA DeliveredGot ==
  ASSUME NEW t, NEW r, NEW m, Delivered(t, r, m)
  PROVE  ret'.got = {[type |-> heap[m].type, args |-> r]}
<1>1. PICK v \in {Ok(IF r.sz > heap[m].ts THEN heap[m].ts ELSE r.sz), Err("EFAULT")} :
        Leave(t, [v EXCEPT !.got = {[type |-> heap[m].type, args |-> r]}])
  BY Zenon DEF Delivered
<1>2. ret' = [v EXCEPT !.got = {[type |-> heap[m].type, args |-> r]}]
  BY Zenon, <1>1 DEF Leave
<1>3. "got" \in DOMAIN v
  BY SMT, Z3 DEF Ok, Err
<1> QED BY SMT, Z3, <1>2, <1>3

\* A receiver returns with the message it was handed.
LEMMA RcvHandedStep ==
  ASSUME Inv, NEW t \in Task, r_msg[t] \in Msg, Delivered(t, req[t], r_msg[t]),
         UNCHANGED <<entries, msgs>>
  PROVE  Typed!QueueNext
<1> DEFINE m == r_msg[t]
<1>0. SysvTypeOK /\ MessagesOwned /\ Live \subseteq Obj /\ m \in Msg
  BY Zenon, LiveFacts DEF Inv
<1>1. /\ Frames(t) /\ r_msg'[t] = "none" /\ \A u \in Task : u # t => r_msg'[u] = r_msg[u]
      /\ \A x \in Msg : x # m => heap'[x] = heap[x]
  BY Zenon, DeliveredFacts
<1>2. ret'.got = {[type |-> heap[m].type, args |-> req[t]]}
  BY Zenon, DeliveredGot
<1>3. ret'.got = Handed[t]
  BY Zenon, <1>2, ReaderView
<1>4. \A u \in Task : u # t => r_msg[u] # m
  BY Zenon, <1>0 DEF MessagesOwned
<1>5. \A p \in Obj : m \notin Range(msgs[p])
  BY Zenon, <1>0 DEF MessagesOwned
<1> HIDE DEF m
<1>6. SameContent
  <2>1. ASSUME NEW p \in Live, NEW x \in Range(msgs[p]) PROVE heap'[x] = heap[x]
    <3>1. x \in Msg /\ x # m
      BY Zenon, <1>0, <1>5, MsgsTyped
    <3> QED BY Zenon, <3>1, <1>1
  <2>2. Live' = Live /\ msgs' = msgs
    BY Zenon DEF Live, Used
  <2> QED BY Zenon, <2>1, <2>2 DEF SameContent
<1>7. SameReaders(t)
  BY Zenon, <1>1, <1>4 DEF SameReaders, Frames
<1> QED BY Zenon, <1>1, <1>3, <1>6, <1>7, ReturnStep

\* A receiver goes to sleep: nothing in the queue is what it asks for.
LEMMA RcvSleepStep ==
  ASSUME Inv, NEW t \in Task, pc[t] = "idle", NEW id \in Int, NEW r \in RcvReqs,
         NEW o \in Live, NEW lists, RcvSleep(t, id, r, o, lists), entries' = entries,
         \A m \in Range(msgs[o]) : ~ testmsg(heap[m].type, r)
  PROVE  Typed!QueueNext
<1>0. SysvTypeOK /\ o \in Obj /\ r \in RcvArgs
  BY Zenon, LiveFacts, RcvAssumption DEF Inv
<1>1. /\ Stay(t, "rcv", id, o, r, "none") /\ r_msg' = [r_msg EXCEPT ![t] = "EAGAIN"]
      /\ msgs' = msgs /\ heap' = heap
  BY Zenon DEF RcvSleep, qVars
<1>2. Frames(t) /\ pc'[t] = "rcv" /\ msq'[t] = o /\ req'[t] = r
  <2>1. "rcv" = "snd" => r \in SndArgs
    BY Zenon
  <2> QED BY Zenon, <2>1, <1>0, <1>1, StayFrames
<1>3. r_msg'[t] = "EAGAIN" /\ \A u \in Task : u # t => r_msg'[u] = r_msg[u]
  BY Zenon, <1>0, <1>1 DEF SysvTypeOK
<1>4. SameReaders(t)
  BY Zenon, <1>1, <1>2, <1>3 DEF SameReaders, Frames
<1>5. Content' = Content
  BY Zenon, <1>1 DEF Content, Live, Used
<1>6. \A u \in Task : u # t => Waiting'[u] = Waiting[u] /\ Handed'[u] = Handed[u]
  BY <1>4, ReaderKept
<1>7. Waiting[t] = {} /\ Waiting'[t] = {[queue |-> o, args |-> r]}
  BY Zenon, <1>2, <1>3, ReaderView
<1>8. Handed[t] = {} /\ Handed'[t] = {}
  <2>1. r_msg[t] = "none"
    BY Zenon DEF Inv, FrameInv
  <2>2. r_msg[t] \notin Msg /\ r_msg'[t] \notin Msg
    BY Zenon, <2>1, <1>3, MsgAssumption
  <2> QED BY Zenon, <2>2, ReaderView
<1>9. Waiting' = [Waiting EXCEPT ![t] = {[queue |-> o, args |-> r]}]
  <2>1. \A u \in Task : Waiting'[u] = IF u = t THEN {[queue |-> o, args |-> r]}
                                       ELSE Waiting[u]
    BY Zenon, <1>6, <1>7
  <2> QED BY Zenon, <2>1 DEF Waiting
<1>10. Handed' = Handed
  <2>1. \A u \in Task : Handed'[u] = Handed[u]
    BY Zenon, <1>6, <1>8
  <2> QED BY Zenon, <2>1 DEF Handed
<1>11. Typed!Unanswerable(o, r)
  <2>1. Content[o] = [i \in DOMAIN msgs[o] |-> heap[msgs[o][i]]]
    BY Zenon, <1>0 DEF Content
  <2>2. \A i \in DOMAIN msgs[o] : ~ testmsg(heap[msgs[o][i]].type, r)
    BY Zenon DEF Range
  <2> QED BY Zenon, <2>1, <2>2, SameTests DEF Typed!Unanswerable
<1>12. ret'.got = {}
  BY Zenon, <1>1, NothingGot DEF Stay
<1>13. Typed!Wait(t, o, r)
  BY Zenon, <1>5, <1>7, <1>9, <1>10, <1>11, <1>12 DEF Typed!Wait
<1> QED BY Zenon, <1>0, <1>13 DEF Typed!QueueNext

\* A receiver takes the message it should.
LEMMA RcvTakeStep ==
  ASSUME Inv, NEW t \in Task, pc[t] = "idle", NEW r \in RcvReqs, NEW o \in Live,
         NEW i \in DOMAIN msgs[o], NEW w, found(o, r, i), RcvTake(t, r, o, i, w),
         entries' = entries
  PROVE  Typed!QueueNext
<1> DEFINE m == msgs[o][i]
<1>0. SysvTypeOK /\ MessagesOwned /\ Live \subseteq Obj /\ o \in Obj
      /\ msgs[o] \in Seq(Msg) /\ IsInjective(msgs[o])
  BY Zenon, LiveFacts DEF Inv, SysvTypeOK, MessagesOwned
<1>1. msgs' = [msgs EXCEPT ![o] = DropAt(@, i)] /\ Delivered(t, r, m)
  BY Zenon DEF RcvTake, TakeOff
<1>2. m \in Msg /\ m \in Range(msgs[o])
  <2>1. Range(msgs[o]) \subseteq Msg
    BY Zenon, <1>0, MsgsTyped
  <2> QED BY Zenon, <2>1 DEF Range
<1>3. /\ Frames(t) /\ pc'[t] = "idle"
      /\ r_msg'[t] = "none" /\ \A u \in Task : u # t => r_msg'[u] = r_msg[u]
      /\ \A x \in Msg : x # m => heap'[x] = heap[x]
  BY Zenon, <1>1, <1>2, DeliveredFacts
<1>4. ret'.got = {[type |-> heap[m].type, args |-> r]}
  BY Zenon, <1>1, DeliveredGot
<1>5. Live' = Live
  BY Zenon DEF Live, Used
<1>6. Content[o] = [j \in DOMAIN msgs[o] |-> heap[msgs[o][j]]]
  BY Zenon, <1>0 DEF Content
<1>7. Content[o][i] = heap[m]
  BY Zenon, <1>6
<1>8. \A u \in Task : r_msg[u] # m
  BY Zenon, <1>0, <1>2 DEF MessagesOwned
<1>9. SameReaders(t)
  BY Zenon, <1>3, <1>8 DEF SameReaders, Frames
<1>10. /\ Waiting[t] = {} /\ Waiting'[t] = {} /\ Handed[t] = {} /\ Handed'[t] = {}
  <2>1. r_msg[t] = "none" /\ "none" \notin Msg
    BY Zenon, MsgAssumption DEF Inv, FrameInv
  <2> QED BY Zenon, <2>1, <1>3, ReaderView
<1>11. Waiting' = Waiting /\ Handed' = Handed
  <2>1. \A u \in Task : u # t => Waiting'[u] = Waiting[u] /\ Handed'[u] = Handed[u]
    BY <1>9, ReaderKept
  <2>2. \A u \in Task : Waiting'[u] = Waiting[u] /\ Handed'[u] = Handed[u]
    BY Zenon, <2>1, <1>10
  <2> QED BY Zenon, <2>2 DEF Waiting, Handed
<1>12. Content'[o] = DropAt(Content[o], i)
  <2>1. /\ DOMAIN msgs[o] = 1 .. Len(msgs[o]) /\ Len(msgs[o]) \in Nat
        /\ i \in 1 .. Len(msgs[o])
    BY SMT, Z3, <1>0
  <2>2. Len(Content[o]) = Len(msgs[o])
    BY SMT, Z3, <2>1, <1>6
  <2>3. msgs'[o] = [j \in 1 .. Len(msgs[o]) - 1 |-> IF j < i THEN msgs[o][j] ELSE msgs[o][j + 1]]
    BY Zenon, <1>0, <1>1 DEF SysvTypeOK, DropAt
  <2>4. DropAt(Content[o], i)
          = [j \in 1 .. Len(msgs[o]) - 1 |-> IF j < i THEN Content[o][j] ELSE Content[o][j + 1]]
    BY Zenon, <2>2 DEF DropAt
  <2>5. Content'[o] = [j \in 1 .. Len(msgs[o]) - 1 |-> heap'[msgs'[o][j]]]
    <3>1. Content'[o] = [j \in DOMAIN msgs'[o] |-> heap'[msgs'[o][j]]]
      BY Zenon, <1>0, <1>5 DEF Content
    <3>2. DOMAIN msgs'[o] = 1 .. Len(msgs[o]) - 1
      BY Zenon, <2>3
    <3> QED BY Zenon, <3>1, <3>2
  <2>6. ASSUME NEW j \in 1 .. Len(msgs[o]) - 1
        PROVE  heap'[msgs'[o][j]] = IF j < i THEN Content[o][j] ELSE Content[o][j + 1]
    <3>1. PICK k \in 1 .. Len(msgs[o]) : k # i /\ k = IF j < i THEN j ELSE j + 1
      BY SMT, Z3, <2>1
    <3>2. msgs'[o][j] = msgs[o][k]
      BY Zenon, <2>3, <3>1
    <3>3. msgs[o][k] # m /\ msgs[o][k] \in Range(msgs[o])
      BY Zenon, <2>1, <3>1, <1>0 DEF IsInjective, Range
    <3>4. heap'[msgs[o][k]] = heap[msgs[o][k]]
      BY Zenon, <3>3, <1>0, <1>3, MsgsTyped
    <3>5. Content[o][k] = heap[msgs[o][k]]
      BY Zenon, <2>1, <3>1, <1>6
    <3> QED BY Zenon, <3>1, <3>2, <3>4, <3>5
  <2> QED BY Zenon, <2>4, <2>5, <2>6
<1>13. Content' = [Content EXCEPT ![o] = DropAt(@, i)]
  <2>1. ASSUME NEW p \in Obj, p # o PROVE Content'[p] = Content[p]
    <3>1. msgs'[p] = msgs[p]
      BY Zenon, <2>1, <1>0, <1>1 DEF SysvTypeOK
    <3>2. \A x \in Range(msgs[p]) : x \in Msg /\ x # m
      BY Zenon, <2>1, <1>0, <1>2, MsgsTyped DEF MessagesOwned
    <3>3. \A j \in DOMAIN msgs[p] : heap'[msgs[p][j]] = heap[msgs[p][j]]
      BY Zenon, <3>2, <1>3 DEF Range
    <3> QED BY Zenon, <3>1, <3>3, <1>5 DEF Content
  <2>2. \A p \in Obj : Content'[p] = IF p = o THEN DropAt(Content[o], i) ELSE Content[p]
    BY Zenon, <2>1, <1>12
  <2> QED BY Zenon, <2>2 DEF Content
<1>14. i \in DOMAIN Content[o] /\ Typed!Best(Content[o], r, i)
  <2>1. DOMAIN Content[o] = DOMAIN msgs[o]
    BY Zenon, <1>6
  <2>2. \A j \in DOMAIN msgs[o] : Content[o][j] = heap[msgs[o][j]]
    BY Zenon, <1>6
  <2>3. testmsg(Content[o][i].type, r)
    BY Zenon, <2>2 DEF found
  <2>4. ASSUME NEW j \in DOMAIN msgs[o], testmsg(Content[o][j].type, r)
        PROVE  IF convert_mode(r) = "LESSEQUAL"
               THEN \/ Content[o][i].type < Content[o][j].type
                    \/ Content[o][i].type = Content[o][j].type /\ i <= j
               ELSE i <= j
    BY Zenon, <2>2, <2>4 DEF found
  <2> QED BY Zenon, <2>1, <2>3, <2>4, SameTests DEF Typed!Best
<1> HIDE DEF m
<1>15. Typed!Take(o, i, r)
  <2>1. ret'.got = {Typed!Given(Content[o][i].type, r)}
    BY Zenon, <1>4, <1>7 DEF Typed!Given
  <2>2. Content' = [Content EXCEPT ![o] = Typed!DropAt(@, i)]
    BY Zenon, <1>13, SameTests
  <2> QED BY Zenon, <2>1, <2>2, <1>11, <1>14 DEF Typed!Take
<1> QED BY Zenon, <1>0, <1>14, <1>15 DEF Typed!QueueNext

\* rt_msgrcv does what the abstract queues allow.
LEMMA MsgrcvStep ==
  ASSUME Inv, NEW t \in Task, NEW id \in CallIds, NEW r \in RcvReqs, Msgrcv(t, id, r)
  PROVE  Typed!QueueNext
<1>0. pc[t] = "idle" /\ entries' = entries /\ r_msg[t] \notin Msg /\ TableInv
  BY Zenon, MsgAssumption DEF Msgrcv, idsVars, Inv, FrameInv
<1>1. id \in Int
  BY SMT, Z3, CallIdAssumption, WidthAssumption
<1>2. CASE \E e : RcvGiveUp(t, e)
  BY Zenon, <1>0, <1>2, RcvGiveUpStep
<1>3. CASE ipc_lock(id) # NULL /\ RcvSection(t, id, r, ipc_lock(id), rcvs, wake)
  <2> DEFINE o == ipc_lock(id)
  <2>1. o \in Live
    BY Zenon, <1>0, <1>1, <1>3, LockLive
  <2>2. \/ \E e : RcvGiveUp(t, e)
        \/ \E i \in DOMAIN msgs[o] : found(o, r, i) /\ RcvTake(t, r, o, i, wake)
        \/ /\ \A m \in Range(msgs[o]) : ~ testmsg(heap[m].type, r)
           /\ RcvSleep(t, id, r, o, rcvs)
    BY Zenon, <1>3 DEF RcvSection
  <2> HIDE DEF o
  <2>3. ASSUME NEW i \in DOMAIN msgs[o], found(o, r, i), RcvTake(t, r, o, i, wake)
        PROVE  Typed!QueueNext
    BY Zenon, <2>1, <2>3, <1>0, RcvTakeStep
  <2>4. CASE /\ \A m \in Range(msgs[o]) : ~ testmsg(heap[m].type, r)
             /\ RcvSleep(t, id, r, o, rcvs)
    BY Zenon, <2>1, <2>4, <1>0, <1>1, RcvSleepStep
  <2> QED BY Zenon, <2>2, <2>3, <2>4, <1>2
<1> QED BY Zenon, <1>2, <1>3 DEF Msgrcv

\* A receiver that was woken returns, or sleeps on as before: what it was woken for
\* was handed to it, so it finds nothing in the queue.
LEMMA MsgrcvWakeStep ==
  ASSUME Inv, NEW t \in Task, MsgrcvWake(t)
  PROVE  Typed!QueueNext
<1> DEFINE w == [wake EXCEPT ![t] = @ - 1]
           list_del == [rcvs EXCEPT ![msq[t]] = Without(@, {t})]
<1>0. SysvTypeOK /\ TableInv
  BY Zenon DEF Inv
<1>1. /\ pc[t] = "rcv" /\ entries' = entries
      /\ \/ r_msg[t] \in Msg /\ Delivered(t, req[t], r_msg[t]) /\ UNCHANGED qVars
         \/ r_msg[t] \in {"EIDRM", "E2BIG"} /\ RcvGiveUp(t, r_msg[t])
         \/ /\ r_msg[t] = "EAGAIN"
            /\ RcvGiveUp(t, "EINTR") \/ RcvSection(t, msqid[t], req[t], msq[t], list_del, w)
  BY Zenon DEF MsgrcvWake
<1> HIDE DEF w, list_del
<1>2. {"EAGAIN", "EIDRM", "E2BIG"} \cap Msg = {}
  BY Zenon, MsgAssumption
<1>3. CASE r_msg[t] \in Msg /\ Delivered(t, req[t], r_msg[t]) /\ UNCHANGED qVars
  <2>1. UNCHANGED <<entries, msgs>>
    BY Zenon, <1>1, <1>3 DEF qVars
  <2> QED BY Zenon, <1>3, <2>1, RcvHandedStep
<1>4. ASSUME NEW e, RcvGiveUp(t, e), r_msg[t] \notin Msg PROVE Typed!QueueNext
  BY Zenon, <1>1, <1>4, RcvGiveUpStep
<1>5. CASE r_msg[t] = "EAGAIN" /\ RcvSection(t, msqid[t], req[t], msq[t], list_del, w)
  <2>1. msq[t] \in Live /\ t \in Range(rcvs[msq[t]])
    BY Zenon, <1>1, <1>5 DEF Inv, ReceiversListed
  <2>2. Range(msgs[msq[t]]) \subseteq Msg
    BY Zenon, <2>1, <1>0, LiveFacts, MsgsTyped
  <2>3. \A i \in DOMAIN msgs[msq[t]] : ~ found(msq[t], req[t], i)
    <3>1. \A m \in Range(msgs[msq[t]]) : ~ testmsg(heap[m].type, req[t])
      BY Zenon, <2>1, <2>2 DEF Inv, NoMatch
    <3> QED BY Zenon, <3>1 DEF found, Range
  <2>4. \/ \E e : RcvGiveUp(t, e)
        \/ RcvSleep(t, msqid[t], req[t], msq[t], list_del)
    BY Zenon, <2>3, <1>5 DEF RcvSection
  <2>5. CASE RcvSleep(t, msqid[t], req[t], msq[t], list_del)
    <3>1. UNCHANGED <<msgs, heap, pc, msq, req, r_msg>>
      BY Zenon, <2>5, <1>0, <1>1, <1>5 DEF RcvSleep, Stay, qVars, SysvTypeOK
    <3>2. ret'.got = {}
      BY Zenon, <2>5, NothingGot DEF RcvSleep, Stay
    <3>3. UNCHANGED <<entries, msgs, heap, pc, msq, req, r_msg>>
      BY Zenon, <3>1, <1>1
    <3> QED BY Zenon, <3>2, <3>3, UnseenStep
  <2> QED BY Zenon, <2>4, <2>5, <1>2, <1>4, <1>5
<1> QED BY Zenon, <1>1, <1>2, <1>3, <1>4, <1>5
=============================================================================
