----------------------------- MODULE SysvMsgInv ------------------------------
(***************************************************************************)
(* The inductive invariant of the message queues, and what the proofs of    *)
(* the calls share: facts about lists, about a step that leaves a task's    *)
(* frame alone, and about a message that changes its owner.                 *)
(***************************************************************************)
EXTENDS SysvTyped, WellFoundedInduction, TLAPS

Below == {p \in Nat \X Nat : p[1] < p[2]}

\* Every non-empty set of natural numbers has a least element.
LEMMA NatLeast ==
  ASSUME NEW T, T \subseteq Nat, T # {}
  PROVE  \E x \in T : \A y \in T : x <= y
<1>1. IsWellFoundedOn(Below, Nat)
  BY NatLessThanWellFounded, Zenon DEF Below, OpToRel
<1>2. \E x \in T : \A y \in T : ~(<<y, x>> \in Below)
  BY Zenon, <1>1, WFMin
<1>3. \A x, y \in Nat : y < x => <<y, x>> \in Below
  BY Zenon DEF Below
<1>4. PICK x \in T : \A y \in T : ~(<<y, x>> \in Below)
  BY Zenon, <1>2
<1>5. ASSUME NEW y \in T PROVE x <= y
  <2>1. x \in Nat /\ y \in Nat BY Zenon
  <2>2. ~(y < x) BY Zenon, <1>3, <1>4, <2>1
  <2> QED BY SMT, Z3, <2>1, <2>2
<1> QED BY Zenon, <1>5


\* Induction: a set with 0 that is closed under successor has every number.
LEMMA NatInd ==
  ASSUME NEW S, 0 \in S, \A n \in Nat : n \in S => n+1 \in S
  PROVE  Nat \subseteq S
<1> DEFINE T == {n \in Nat : n \notin S}
<1> SUFFICES ASSUME T # {} PROVE FALSE BY Zenon
<1>1. PICK x \in T : \A y \in T : x <= y
  <2> HIDE DEF T
  <2>1. T \subseteq Nat BY Zenon DEF T
  <2> QED BY Zenon, NatLeast, <2>1
<1>2. x # 0 BY Zenon
<1>3. x - 1 \in Nat /\ x - 1 \notin T BY SMT, Z3, <1>1, <1>2
<1> QED BY SMT, Z3, <1>3


\* What list_add_tail does to the elements of a list.
LEMMA AppendRng ==
  ASSUME NEW T, NEW q \in Seq(T), NEW e \in T
  PROVE  Append(q, e) \in Seq(T) /\ Range(Append(q, e)) = Range(q) \cup {e}
<1>1. /\ Append(q, e) \in Seq(T) /\ Len(q) \in Nat
      /\ DOMAIN q = 1 .. Len(q) /\ DOMAIN Append(q, e) = 1 .. Len(q) + 1
      /\ Append(q, e)[Len(q) + 1] = e
      /\ \A i \in 1 .. Len(q) : Append(q, e)[i] = q[i]
  BY SMT, Z3
<1> QED BY SMT, Z3, <1>1 DEF Range

\* An update of a function with a value of its range.
LEMMA ExceptType ==
  ASSUME NEW S, NEW T, NEW f \in [S -> T], NEW a, NEW e \in T
  PROVE  [f EXCEPT ![a] = e] \in [S -> T]
  BY Zenon

\* What deleting the elements of S leaves of a list.
LEMMA WithoutLemma ==
  ASSUME NEW T, NEW s \in Seq(T), NEW S
  PROVE  /\ Without(s, S) \in Seq(T)
         /\ Range(Without(s, S)) = Range(s) \ S
<1> DEFINE N == Len(s)
           Body(w, i) == IF i = 0 THEN << >>
                         ELSE IF s[i] \in S THEN w[i-1] ELSE Append(w[i-1], s[i])
           Eq(w, n) == w = [i \in 0..n |-> Body(w, i)]
           E == {n \in Nat : \E w : Eq(w, n)}
           W == CHOOSE w : Eq(w, N)
           P == {n \in Nat : n <= N => /\ W[n] \in Seq(T)
                                       /\ Range(W[n]) = {s[j] : j \in 1..n} \ S}
<1>0. Without(s, S) = W[N]
  BY Zenon DEF Without
<1>n. N \in Nat
  BY SMT, Z3
<1>1. N \in E
  <2>1. 0 \in E
    <3>1. Eq([i \in 0..0 |-> << >>], 0)
      BY SMT, Z3
    <3> QED BY Zenon, <3>1
  <2>2. ASSUME NEW n \in Nat, n \in E PROVE n+1 \in E
    <3>1. PICK w : Eq(w, n) BY Zenon, <2>2
    <3>0. ASSUME NEW i \in 0..n PROVE w[i] = Body(w, i)
      <4> HIDE DEF Body
      <4> QED BY Zenon, <3>1
    <3> DEFINE v == [i \in 0..(n+1) |-> IF i <= n THEN w[i] ELSE Body(w, n+1)]
    <3>2. ASSUME NEW i \in 0..(n+1) PROVE v[i] = Body(v, i)
      <4>1. CASE i = 0 BY SMT, Z3, <4>1, <3>1
      <4>2. CASE i > 0 /\ i <= n
        <5>1. v[i] = w[i] /\ v[i-1] = w[i-1] BY SMT, Z3, <4>2
        <5>2. w[i] = Body(w, i) BY SMT, Z3, <3>0, <4>2
        <5> QED BY Zenon, <5>1, <5>2, <4>2
      <4>3. CASE i = n+1
        BY SMT, Z3, <4>3
      <4> QED BY SMT, Z3, <4>1, <4>2, <4>3
    <3>3. Eq(v, n+1) BY Zenon, <3>2
    <3> HIDE DEF v, Eq
    <3> QED BY SMT, Z3, <3>3
  <2> HIDE DEF E
  <2> QED BY Zenon, <2>1, <2>2, <1>n, NatInd
<1>2. Eq(W, N)
  BY Zenon, <1>1
<1>3. ASSUME NEW i \in 0..N PROVE W[i] = Body(W, i)
  BY Zenon, <1>2
<1> HIDE DEF W, N
<1>4. N \in P
  <2>1. 0 \in P
    <3>1. W[0] = << >> BY SMT, Z3, <1>3, <1>n
    <3>2. << >> \in Seq(T) /\ Range(<< >>) = {} BY SMT, Z3 DEF Range
    <3>3. {s[j] : j \in 1..0} = {} BY SMT, Z3
    <3>4. W[0] \in Seq(T) /\ Range(W[0]) = {s[j] : j \in 1..0} \ S BY Zenon, <3>1, <3>2, <3>3
    <3> QED BY Zenon, <3>4
  <2>2. ASSUME NEW n \in Nat, n \in P PROVE n+1 \in P
    <3> SUFFICES ASSUME n+1 <= N
                 PROVE  /\ W[n+1] \in Seq(T)
                        /\ Range(W[n+1]) = {s[j] : j \in 1..(n+1)} \ S
      BY SMT, Z3
    <3>1. W[n] \in Seq(T) /\ Range(W[n]) = {s[j] : j \in 1..n} \ S
      BY SMT, Z3, <2>2, <1>n
    <3>2. W[n+1] = IF s[n+1] \in S THEN W[n] ELSE Append(W[n], s[n+1])
      BY SMT, Z3, <1>3, <1>n
    <3>3. s[n+1] \in T
      BY SMT, Z3, <1>n DEF N
    <3>4. {s[j] : j \in 1..(n+1)} = {s[j] : j \in 1..n} \cup {s[n+1]}
      BY SMT, Z3
    <3>5. CASE s[n+1] \in S
      BY Zenon, <3>1, <3>2, <3>4, <3>5
    <3>6. CASE s[n+1] \notin S
      BY SMT, Z3, <3>1, <3>2, <3>3, <3>4, <3>6, AppendRng
    <3> QED BY Zenon, <3>5, <3>6
  <2> HIDE DEF P
  <2> QED BY Zenon, <2>1, <2>2, <1>n, NatInd
<1>5. Range(s) = {s[j] : j \in 1 .. N}
  BY SMT, Z3 DEF Range, N
<1> QED BY SMT, Z3, <1>0, <1>4, <1>5, <1>n

\* What list_add_tail and list_del do to a list without repetitions.
LEMMA AppendInjective ==
  ASSUME NEW T, NEW q \in Seq(T), NEW e \in T, IsInjective(q), e \notin Range(q)
  PROVE  IsInjective(Append(q, e))
  BY SMT, Z3 DEF Range, IsInjective

\* What list_del of one element leaves of a list without repetitions.
LEMMA DropAtLemma ==
  ASSUME NEW T, NEW q \in Seq(T), NEW i \in DOMAIN q, IsInjective(q)
  PROVE  /\ DropAt(q, i) \in Seq(T)
         /\ IsInjective(DropAt(q, i))
         /\ Range(DropAt(q, i)) = Range(q) \ {q[i]}
<1>0. Len(q) \in Nat /\ DOMAIN q = 1 .. Len(q) /\ i \in 1 .. Len(q)
  BY SMT, Z3
<1> DEFINE d == DropAt(q, i)
<1>1. d \in Seq(T) /\ Len(d) = Len(q) - 1 /\ DOMAIN d = 1 .. Len(q) - 1
  BY SMT, Z3, <1>0 DEF DropAt
<1>2. \A j \in 1 .. Len(q) - 1 : d[j] = IF j < i THEN q[j] ELSE q[j + 1]
  BY Zenon, <1>0 DEF DropAt
<1> HIDE DEF d
<1>3. \A a, b \in 1 .. Len(q) : q[a] = q[b] => a = b
  BY Zenon, <1>0 DEF IsInjective
<1>4. IsInjective(d)
  BY SMT, Z3, <1>0, <1>1, <1>2, <1>3 DEF IsInjective
<1>5. ASSUME NEW x \in Range(d) PROVE x \in Range(q) \ {q[i]}
  <2>1. PICK j \in 1 .. Len(q) - 1 : x = d[j]
    BY Zenon, <1>1 DEF Range
  <2> QED BY SMT, Z3, <2>1, <1>0, <1>2, <1>3 DEF Range
<1>6. ASSUME NEW x \in Range(q), x # q[i] PROVE x \in Range(d)
  <2>1. PICK j \in 1 .. Len(q) : x = q[j]
    BY Zenon, <1>0 DEF Range
  <2>2. CASE j < i
    <3>1. j \in 1 .. Len(q) - 1 /\ d[j] = x
      BY SMT, Z3, <2>1, <2>2, <1>0, <1>2
    <3> QED BY Zenon, <3>1, <1>1 DEF Range
  <2>3. CASE j > i
    <3>1. j - 1 \in 1 .. Len(q) - 1 /\ d[j - 1] = x
      BY SMT, Z3, <2>1, <2>3, <1>0, <1>2
    <3> QED BY Zenon, <3>1, <1>1 DEF Range
  <2> QED BY SMT, Z3, <2>1, <2>2, <2>3, <1>0, <1>6
<1> QED BY Zenon, <1>1, <1>4, <1>5, <1>6 DEF d


\* What a task's program counter says about its local variables.
FrameInv ==
  \A t \in Task :
    /\ pc[t] = "snd" <=> s_msg[t] # "none"
    /\ pc[t] = "rcv" <=> r_msg[t] # "none"
    /\ killed[t] => pc[t] = "snd"
    /\ pc[t] = "snd" => req[t].type >= 1 /\ req[t].sz >= 0
    /\ pc[t] = "rmfree" => msq[t] \in Obj \ Live
    /\ pc[t] = "getret" => msqid[t] \in Used /\ entries[msqid[t]] = msq[t]

\* Only a live queue, or a removed one that is being freed, has messages.
Clean ==
  \A o \in Obj : \/ o \in Live
                 \/ \E t \in Task : pc[t] = "rmfree" /\ msq[t] = o
                 \/ Range(msgs[o]) = {}

\* Who has been told to look again has been resumed.
Told ==
  \A t \in Task : /\ pc[t] = "rcv" /\ r_msg[t] # "EAGAIN" => wake[t] > 0
                  /\ killed[t] => wake[t] > 0

\* No message on a queue is one that a listed receiver waits for.
NoMatch ==
  \A o \in Live, t \in Task, m \in Msg :
    t \in Range(rcvs[o]) /\ m \in Range(msgs[o]) => ~ testmsg(heap[m].type, req[t])

\* Without a pending resume, the task may use the queue, and a sender cannot.
Permitted ==
  \A t \in Task :
    /\ pc[t] = "rcv" /\ wake[t] = 0 => ipcperms(t, msq[t], {"r"})
    /\ pc[t] = "snd" /\ wake[t] = 0 => /\ ipcperms(t, msq[t], {"w"})
                                       /\ full(msq[t], req[t].sz)

Inv ==
  /\ SysvTypeOK /\ TableInv /\ NoBug /\ SemHeld /\ FrameInv /\ Clean
  /\ ReceiversListed /\ SendersListed /\ Told /\ NoMatch /\ Permitted
  /\ MessagesOwned

\* A step that leaves the table alone leaves everything derived from it alone.
LEMMA SameTable ==
  ASSUME UNCHANGED <<size, entries, in_use, max_id, seq, perm>>, TableInv,
         bug' \in BOOLEAN
  PROVE  /\ TableInv' /\ Live' = Live /\ Used' = Used
         /\ \A id \in Int : ipc_lock(id)' = ipc_lock(id)
  BY SMT, Z3 DEF TableInv, IdsTypeOK, TableShape, KeysUnique, Used, Live, ipc_lock

\* The same for a step that may grow the table.
TableKept ==
  /\ TableInv' /\ entries' = entries /\ Used' = Used /\ Live' = Live
  /\ bug' = bug
  /\ \A id \in Int : ipc_lock(id) # NULL => ipc_lock(id)' = ipc_lock(id)

\* A step that does not touch the table keeps what is known about it.
LEMMA KeptWhenUnchanged ==
  ASSUME UNCHANGED idsVars, TableInv
  PROVE  TableKept
<1>1. bug' \in BOOLEAN
  BY Zenon DEF idsVars, TableInv, IdsTypeOK
<1> QED BY Zenon, <1>1, SameTable DEF idsVars, TableKept

\* Permissions and room on a queue depend on the queue alone.
LEMMA SameAcl ==
  ASSUME acl' = acl, NEW u, NEW o, NEW w
  PROVE  ipcperms(u, o, w)' = ipcperms(u, o, w)
  BY Zenon DEF ipcperms, granted

\* Whether a message fits depends on the counters of the queue only.
LEMMA SameFull ==
  ASSUME UNCHANGED <<cbytes, qnum, qbytes>>, NEW o, NEW sz
  PROVE  full(o, sz)' = full(o, sz)
  BY Zenon DEF full

\* A call that holds no message and is in no list returns.
LEMMA QuietLeave ==
  ASSUME Inv, NEW t \in Task, NEW v, pc[t] \in {"idle", "getret", "info"},
         Leave(t, v), TableKept, SemHeld', sem' \in Task \cup {NoTask},
         UNCHANGED <<qVars, counters, rcvs, snds, heap, r_msg, wake>>
  PROVE  Inv'
<1> USE DEF Leave, TableKept, qVars, counters
<1>0. SysvTypeOK /\ TableInv /\ FrameInv
  BY Zenon DEF Inv
<1>1. SysvTypeOK'
  BY SMT, Z3, <1>0 DEF SysvTypeOK, TableInv
<1>2. FrameInv'
  BY <1>0 DEF SysvTypeOK, FrameInv
<1>3. Clean'
  BY Zenon, <1>0 DEF Inv, SysvTypeOK, Clean
<1>4. ReceiversListed'
  <2>1. ReceiversListed
    BY Zenon DEF Inv
  <2>2. \A u \in Task : u # t => pc'[u] = pc[u] /\ msq'[u] = msq[u] /\ msqid'[u] = msqid[u]
    BY Zenon, <1>0 DEF SysvTypeOK
  <2>3. pc'[t] = "idle" /\ \A u \in Task : msqid[u] \in Int
    BY Zenon, <1>0 DEF SysvTypeOK
  <2>4. NULL \notin Live
    BY Zenon DEF Live, Used
  <2>0. /\ Live' = Live /\ rcvs' = rcvs /\ r_msg' = r_msg /\ pc[t] # "rcv"
        /\ \A id \in Int : ipc_lock(id) # NULL => ipc_lock(id)' = ipc_lock(id)
    BY Zenon
  <2> HIDE DEF Leave, TableKept, qVars, counters
  <2>5. ASSUME NEW o \in Live', NEW u \in Task, u \in Range(rcvs'[o])
        PROVE  pc'[u] = "rcv" /\ msq'[u] = o /\ r_msg'[u] = "EAGAIN"
    <3>1. o \in Live /\ u \in Range(rcvs[o])
      BY Zenon, <2>0, <2>5
    <3>2. pc[u] = "rcv" /\ msq[u] = o /\ r_msg[u] = "EAGAIN"
      BY Zenon, <2>1, <3>1 DEF ReceiversListed
    <3>3. u # t
      BY Zenon, <2>0, <3>2
    <3> QED BY Zenon, <2>0, <2>2, <3>2, <3>3
  <2>6. ASSUME NEW u \in Task, pc'[u] = "rcv", r_msg'[u] = "EAGAIN"
        PROVE  /\ msq'[u] \in Live' /\ u \in Range(rcvs'[msq'[u]])
               /\ ipc_lock(msqid[u])' = msq'[u]
    <3>1. u # t /\ pc[u] = "rcv" /\ r_msg[u] = "EAGAIN"
      BY Zenon, <2>0, <2>2, <2>3, <2>6
    <3>2. msq[u] \in Live /\ u \in Range(rcvs[msq[u]]) /\ ipc_lock(msqid[u]) = msq[u]
      BY Zenon, <2>1, <3>1 DEF ReceiversListed
    <3>3. ipc_lock(msqid[u])' = ipc_lock(msqid[u])
      BY Zenon, <2>0, <2>2, <2>3, <2>4, <3>1, <3>2
    <3> QED BY Zenon, <2>0, <2>2, <3>1, <3>2, <3>3
  <2> QED BY Zenon, <2>5, <2>6 DEF ReceiversListed
<1>5. SendersListed'
  <2>1. SendersListed
    BY Zenon DEF Inv
  <2>2. /\ \A u \in Task : u # t => pc'[u] = pc[u] /\ msq'[u] = msq[u]
                                   /\ msqid'[u] = msqid[u]
        /\ pc'[t] = "idle" /\ \A u \in Task : msqid[u] \in Int
    BY Zenon, <1>0 DEF SysvTypeOK
  <2>3. \A u \in Task : u # t => killed'[u] = killed[u]
    BY Zenon, <1>0 DEF SysvTypeOK
  <2>4. NULL \notin Live
    BY DEF Live, Used
  <2> QED BY SMT, Z3, <2>1, <2>2, <2>3, <2>4 DEF SendersListed
<1>6. Told'
  BY Zenon, <1>0 DEF Inv, Told, SysvTypeOK, FrameInv
<1>7. NoMatch'
  <2>1. NoMatch /\ ReceiversListed
    BY Zenon DEF Inv
  <2>2. \A u \in Task : u # t => req'[u] = req[u]
    BY Zenon, <1>0 DEF SysvTypeOK
  <2>0. UNCHANGED <<rcvs, msgs, heap>> /\ Live' = Live /\ pc[t] # "rcv"
    BY Zenon
  <2> HIDE DEF Leave, TableKept, qVars, counters
  <2>3. ASSUME NEW o \in Live, NEW u \in Task, NEW m \in Msg, u \in Range(rcvs[o]),
               m \in Range(msgs[o])
        PROVE  ~ testmsg(heap[m].type, req'[u])
    <3>0. pc[u] = "rcv"
      BY Zenon, <2>1, <2>3 DEF ReceiversListed
    <3>1. u # t
      BY Zenon, <2>0, <3>0
    <3> QED BY Zenon, <2>1, <2>2, <2>3, <3>1 DEF NoMatch
  <2> QED BY Zenon, <2>0, <2>3 DEF NoMatch, testmsg
<1>8. Permitted'
  <2>1. \A u \in Task : u # t => pc'[u] = pc[u] /\ msq'[u] = msq[u] /\ req'[u] = req[u]
    BY Zenon, <1>0 DEF SysvTypeOK
  <2>2. pc'[t] = "idle"
    BY Zenon, <1>0 DEF SysvTypeOK
  <2> QED BY SMT, Z3, <2>1, <2>2, SameAcl, SameFull DEF Inv, Permitted
<1>9. MessagesOwned'
  <2>1. s_msg[t] = "none" /\ s_msg' = s_msg
    BY Zenon, <1>0 DEF SysvTypeOK, FrameInv
  <2> QED BY Zenon, <2>1 DEF Inv, MessagesOwned
<1>10. NoBug'
  BY Zenon DEF Inv, NoBug
<1> QED BY Zenon, <1>0, <1>1, <1>2, <1>3, <1>4, <1>5, <1>6, <1>7, <1>8, <1>9, <1>10 DEF Inv

\* A call that is refused preserves the invariant.
LEMMA RefuseInv ==
  ASSUME Inv, NEW t \in Task, NEW v, pc[t] = "idle", Refuse(t, v)
  PROVE  Inv'
<1>1. TableKept
  BY Zenon, KeptWhenUnchanged DEF Inv, Refuse
<1>2. SemHeld' /\ sem' \in Task \cup {NoTask}
  BY Zenon DEF Inv, SemHeld, SysvTypeOK, Refuse, Leave
<1> QED BY SMT, Z3, <1>1, <1>2, QuietLeave DEF Refuse

\* What msg_lock returns is in the table.
LEMMA LockLive ==
  ASSUME TableInv, NEW id \in Int, ipc_lock(id) # NULL
  PROVE  /\ lidOf(id) \in Used /\ entries[lidOf(id)] = ipc_lock(id)
         /\ ipc_lock(id) \in Live /\ ipc_lock(id) \in Obj
         /\ lidOf(id) \in Nat /\ lidOf(id) < size
<1>1. lidOf(id) \in 0 .. IPCMNI - 1
  BY SMT, Z3, SlotAssumption DEF lidOf
<1>2. size \in Nat
  BY SMT, Z3, SlotAssumption DEF TableInv, IdsTypeOK, NewSize
<1> QED BY SMT, Z3, <1>1, <1>2, SlotAssumption
        DEF ipc_lock, Used, Live, Slots, TableInv, IdsTypeOK

\* Live queues are objects.
LEMMA LiveFacts ==
  ASSUME TableInv
  PROVE  Live \subseteq Obj /\ NULL \notin Live
  BY Zenon, NullAssumption DEF Live, Used, TableInv, IdsTypeOK

\* What Leave and Stay do to the locals of the calls.
Frames(t) ==
  /\ \A u \in Task : u # t =>
       /\ pc'[u] = pc[u] /\ msqid'[u] = msqid[u] /\ msq'[u] = msq[u]
       /\ req'[u] = req[u] /\ s_msg'[u] = s_msg[u] /\ killed'[u] = killed[u]
  /\ pc' \in [Task -> {"idle", "getret", "info", "rmfree", "snd", "rcv"}]
  /\ msqid' \in [Task -> Int] /\ msq' \in [Task -> Obj \cup {NULL}]
  /\ s_msg' \in [Task -> Msg \cup {"none"}] /\ killed' \in [Task -> BOOLEAN]
  /\ sig' \in [Task -> BOOLEAN]
  /\ req' \in [Task -> SndArgs \cup RcvArgs \cup {NoReq}]
  /\ \A u \in Task : /\ pc'[u] = "snd" => req'[u] \in SndArgs
                     /\ pc'[u] = "rcv" => req'[u] \in RcvArgs

\* Returning from a call leaves the locals of the other calls alone.
LEMMA LeaveFrames ==
  ASSUME SysvTypeOK, NEW t \in Task, NEW v, Leave(t, v)
  PROVE  /\ Frames(t) /\ pc'[t] = "idle" /\ s_msg'[t] = "none"
         /\ killed'[t] = FALSE /\ killed'[t] \in BOOLEAN
<1>1. /\ pc'[t] = "idle" /\ s_msg'[t] = "none" /\ killed'[t] = FALSE
      /\ \A u \in Task : u # t =>
           /\ pc'[u] = pc[u] /\ msqid'[u] = msqid[u] /\ msq'[u] = msq[u]
           /\ req'[u] = req[u] /\ s_msg'[u] = s_msg[u]
  BY Zenon DEF SysvTypeOK, Leave
<1>2. \A u \in Task : u # t => killed'[u] = killed[u]
  BY Zenon DEF SysvTypeOK, Leave
<1>3. /\ pc' \in [Task -> {"idle", "getret", "info", "rmfree", "snd", "rcv"}]
      /\ msqid' \in [Task -> Int] /\ msq' \in [Task -> Obj \cup {NULL}]
      /\ s_msg' \in [Task -> Msg \cup {"none"}]
  BY SMT, Z3 DEF SysvTypeOK, Leave
<1>4. killed' \in [Task -> BOOLEAN] /\ sig' \in [Task -> BOOLEAN]
  BY Zenon DEF SysvTypeOK, Leave
<1>5. req' \in [Task -> SndArgs \cup RcvArgs \cup {NoReq}]
  BY Zenon DEF SysvTypeOK, Leave
<1>6. \A u \in Task : /\ pc'[u] = "snd" => req'[u] \in SndArgs
                      /\ pc'[u] = "rcv" => req'[u] \in RcvArgs
  <2>1. \A u \in Task : /\ pc[u] = "snd" => req[u] \in SndArgs
                        /\ pc[u] = "rcv" => req[u] \in RcvArgs
    BY Zenon DEF SysvTypeOK
  <2> QED BY Zenon, <1>1, <2>1
<1> QED BY Zenon, <1>1, <1>2, <1>3, <1>4, <1>5, <1>6 DEF Frames

\* So does going to sleep.
LEMMA StayFrames ==
  ASSUME SysvTypeOK, NEW t \in Task, NEW at \in {"getret", "info", "snd", "rcv"},
         NEW id \in Int, NEW o \in Obj \cup {NULL},
         NEW r \in SndArgs \cup RcvArgs \cup {NoReq},
         NEW m \in Msg \cup {"none"}, Stay(t, at, id, o, r, m),
         at = "snd" => r \in SndArgs, at = "rcv" => r \in RcvArgs
  PROVE  /\ Frames(t) /\ pc'[t] = at /\ msqid'[t] = id /\ msq'[t] = o
         /\ req'[t] = r /\ s_msg'[t] = m /\ killed'[t] = FALSE
<1>1. /\ pc'[t] = at /\ msqid'[t] = id /\ msq'[t] = o /\ s_msg'[t] = m
      /\ killed'[t] = FALSE
      /\ \A u \in Task : u # t =>
           /\ pc'[u] = pc[u] /\ msqid'[u] = msqid[u] /\ msq'[u] = msq[u]
           /\ req'[u] = req[u] /\ s_msg'[u] = s_msg[u]
  BY Zenon DEF SysvTypeOK, Stay
<1>2. \A u \in Task : u # t => killed'[u] = killed[u]
  BY Zenon DEF SysvTypeOK, Stay
<1>3. /\ pc' \in [Task -> {"idle", "getret", "info", "rmfree", "snd", "rcv"}]
      /\ msqid' \in [Task -> Int] /\ msq' \in [Task -> Obj \cup {NULL}]
      /\ s_msg' \in [Task -> Msg \cup {"none"}]
  BY Zenon DEF SysvTypeOK, Stay
<1>4. killed' \in [Task -> BOOLEAN] /\ sig' \in [Task -> BOOLEAN]
  BY Zenon DEF SysvTypeOK, Stay
<1>5. req'[t] = r /\ req' \in [Task -> SndArgs \cup RcvArgs \cup {NoReq}]
  BY Zenon DEF SysvTypeOK, Stay
<1>6. \A u \in Task : /\ pc'[u] = "snd" => req'[u] \in SndArgs
                      /\ pc'[u] = "rcv" => req'[u] \in RcvArgs
  <2>1. \A u \in Task : /\ pc[u] = "snd" => req[u] \in SndArgs
                        /\ pc[u] = "rcv" => req[u] \in RcvArgs
    BY Zenon DEF SysvTypeOK
  <2> QED BY Zenon, <1>1, <1>5, <2>1
<1> QED BY Zenon, <1>1, <1>2, <1>3, <1>4, <1>5, <1>6 DEF Frames

\* A call that holds no message of its own leaves s_msg as it is.
LEMMA SameSender ==
  ASSUME SysvTypeOK, FrameInv, NEW t \in Task, pc[t] # "snd", Frames(t),
         s_msg'[t] = "none"
  PROVE  s_msg' = s_msg
<1>1. s_msg[t] = "none"
  BY Zenon DEF FrameInv
<1>2. \A u \in Task : s_msg'[u] = s_msg[u]
  BY Zenon, <1>1 DEF Frames
<1>3. s_msg \in [Task -> Msg \cup {"none"}] /\ s_msg' \in [Task -> Msg \cup {"none"}]
  BY Zenon DEF Frames, SysvTypeOK
<1> QED BY SMT, Z3, <1>2, <1>3

\* The type invariant, from the parts a step of one call changes.
LEMMA TypeKept ==
  ASSUME SysvTypeOK, NEW t \in Task, Frames(t), TableInv',
         acl' \in [Obj -> Acl], qbytes' \in [Obj -> Nat], qnum' \in [Obj -> Int], cbytes' \in [Obj -> Int],
         msgs' \in [Obj -> Seq(Msg)],
         rcvs' \in [Obj -> Seq(Task)], snds' \in [Obj -> Seq(Task)],
         heap' \in [Msg -> [type : Int, ts : Int]],
         msg_bytes' \in Int, msg_hdrs' \in Int, sem' \in Task \cup {NoTask},
         r_msg' \in [Task -> Msg \cup {"none", "EAGAIN", "EIDRM", "E2BIG"}],
         wake' \in [Task -> Nat]
  PROVE  SysvTypeOK'
<1>1. IdsTypeOK'
  BY Zenon DEF TableInv
<1> QED BY <1>1, Zenon DEF SysvTypeOK, Frames

-----------------------------------------------------------------------------
-----------------------------------------------------------------------------
\* What a call of t that works on a locked queue may do to the other tasks: it
\* leaves their locals alone, and takes a receiver off its list only together
\* with an answer and a resume.
Kept(t) ==
  \A u \in Task : u # t =>
    /\ pc'[u] = pc[u] /\ msqid'[u] = msqid[u] /\ msq'[u] = msq[u]
    /\ req'[u] = req[u] /\ s_msg'[u] = s_msg[u] /\ killed'[u] = killed[u]
    /\ wake'[u] >= wake[u]
    /\ \A p \in Live : u \in Range(snds'[p]) <=> u \in Range(snds[p])
    /\ \/ /\ r_msg'[u] = r_msg[u]
          /\ \A p \in Live : u \in Range(rcvs'[p]) <=> u \in Range(rcvs[p])
       \/ /\ pc[u] = "rcv" /\ r_msg'[u] \notin {"none", "EAGAIN"} /\ wake'[u] > 0
          /\ \A p \in Live : u \notin Range(rcvs'[p])

\* Afterwards t has returned, or it sleeps as a sender or as a receiver.
Awake(t) ==
  /\ pc[t] = "idle" /\ s_msg[t] = "none" /\ r_msg[t] = "none" /\ ~ killed[t]
  /\ \A p \in Live : t \notin Range(rcvs[p]) /\ t \notin Range(snds[p])

SndAsleep(t) ==
  /\ pc[t] = "snd" /\ s_msg[t] # "none" /\ r_msg[t] = "none" /\ ~ killed[t]
  /\ req[t].type >= 1 /\ req[t].sz >= 0
  /\ msq[t] \in Live /\ t \in Range(snds[msq[t]]) /\ ipc_lock(msqid[t]) = msq[t]
  /\ \A p \in Live : t \notin Range(rcvs[p]) /\ (t \in Range(snds[p]) => p = msq[t])

RcvAsleep(t) ==
  /\ pc[t] = "rcv" /\ s_msg[t] = "none" /\ r_msg[t] = "EAGAIN" /\ ~ killed[t]
  /\ msq[t] \in Live /\ t \in Range(rcvs[msq[t]]) /\ ipc_lock(msqid[t]) = msq[t]
  /\ \A p \in Live : t \notin Range(snds[p]) /\ (t \in Range(rcvs[p]) => p = msq[t])

\* The lists still describe the sleepers when t has returned or gone to sleep and
\* the others were at most answered.
LEMMA ListsKept ==
  ASSUME Inv, NEW t \in Task, pc[t] \in {"idle", "snd", "rcv"}, TableKept, Kept(t),
         Awake(t)' \/ SndAsleep(t)' \/ RcvAsleep(t)', sem' = sem, SysvTypeOK',
         \A p \in Obj \ Live : msgs'[p] = msgs[p]
  PROVE  /\ TableInv' /\ NoBug' /\ SemHeld' /\ FrameInv' /\ Clean'
         /\ ReceiversListed' /\ SendersListed' /\ Told'
<1>0. SysvTypeOK /\ TableInv /\ SysvTypeOK' /\ Live' = Live
  BY Zenon DEF Inv, TableKept
<1>1. pc'[t] \in {"idle", "snd", "rcv"}
  BY Zenon DEF Awake, SndAsleep, RcvAsleep
<1>2. TableInv' /\ NoBug'
  BY Zenon DEF Inv, TableKept, NoBug
<1>3. SemHeld'
  <2>1. \A u \in Task : u # t => pc'[u] = pc[u]
    BY Zenon DEF Kept
  <2> QED BY Zenon, <2>1, <1>1 DEF Inv, SemHeld
<1>4. FrameInv'
  <2>1. ASSUME NEW u \in Task, u # t
        PROVE  /\ pc'[u] = "snd" <=> s_msg'[u] # "none"
               /\ pc'[u] = "rcv" <=> r_msg'[u] # "none"
               /\ killed'[u] => pc'[u] = "snd"
               /\ pc'[u] = "snd" => req'[u].type >= 1 /\ req'[u].sz >= 0
               /\ pc'[u] = "rmfree" => msq'[u] \in Obj \ Live
               /\ pc'[u] = "getret" => msqid'[u] \in Used /\ entries[msqid'[u]] = msq'[u]
    <3>1. /\ pc[u] = "snd" <=> s_msg[u] # "none"
          /\ pc[u] = "rcv" <=> r_msg[u] # "none"
          /\ killed[u] => pc[u] = "snd"
          /\ pc[u] = "snd" => req[u].type >= 1 /\ req[u].sz >= 0
          /\ pc[u] = "rmfree" => msq[u] \in Obj \ Live
          /\ pc[u] = "getret" => msqid[u] \in Used /\ entries[msqid[u]] = msq[u]
      BY Zenon DEF Inv, FrameInv
    <3>2. /\ pc'[u] = pc[u] /\ msqid'[u] = msqid[u] /\ msq'[u] = msq[u]
          /\ req'[u] = req[u] /\ s_msg'[u] = s_msg[u]
          /\ r_msg'[u] = r_msg[u] \/ (pc[u] = "rcv" /\ r_msg'[u] # "none")
      BY Zenon, <2>1 DEF Kept
    <3>3. killed'[u] = killed[u]
      BY Zenon, <2>1 DEF Kept
    <3>4. killed'[u] => pc'[u] = "snd"
      BY Zenon, <3>1, <3>2, <3>3
    <3> QED BY Zenon, <3>1, <3>2, <3>4
  <2>2. /\ pc'[t] = "snd" <=> s_msg'[t] # "none"
        /\ pc'[t] = "rcv" <=> r_msg'[t] # "none"
        /\ killed'[t] => pc'[t] = "snd"
        /\ pc'[t] = "snd" => req'[t].type >= 1 /\ req'[t].sz >= 0
        /\ pc'[t] \notin {"rmfree", "getret"}
    BY Zenon DEF Awake, SndAsleep, RcvAsleep
  <2> QED BY Zenon, <2>1, <2>2 DEF FrameInv, TableKept
<1>5. Clean'
  <2>1. \A u \in Task : pc[u] = "rmfree" => pc'[u] = "rmfree" /\ msq'[u] = msq[u]
    BY Zenon DEF Kept
  <2>2. Clean
    BY Zenon DEF Inv
  <2> QED BY Zenon, <2>1, <2>2, <1>0 DEF Clean
<1>6. ReceiversListed'
  <2>0. ReceiversListed /\ NULL \notin Live
    BY Zenon, <1>0, LiveFacts DEF Inv
  <2>1. ASSUME NEW p \in Live, NEW u \in Task, u \in Range(rcvs'[p])
        PROVE  pc'[u] = "rcv" /\ msq'[u] = p /\ r_msg'[u] = "EAGAIN"
    <3>1. CASE u # t
      BY SMT, Z3, <3>1, <2>0, <2>1 DEF Kept, ReceiversListed
    <3>2. CASE u = t
      BY Zenon, <3>2, <2>1, <1>0 DEF Awake, SndAsleep, RcvAsleep
    <3> QED BY Zenon, <3>1, <3>2
  <2>2. ASSUME NEW u \in Task, pc'[u] = "rcv", r_msg'[u] = "EAGAIN"
        PROVE  /\ msq'[u] \in Live /\ u \in Range(rcvs'[msq'[u]])
               /\ ipc_lock(msqid[u])' = msq'[u]
    <3>1. CASE u # t
      <4>1. /\ r_msg[u] = "EAGAIN" /\ pc[u] = "rcv" /\ msq'[u] = msq[u]
            /\ msqid'[u] = msqid[u]
            /\ \A p \in Live : u \in Range(rcvs'[p]) <=> u \in Range(rcvs[p])
        BY Zenon, <3>1, <2>2 DEF Kept
      <4>2. /\ msq[u] \in Live /\ u \in Range(rcvs[msq[u]])
            /\ ipc_lock(msqid[u]) = msq[u]
        BY Zenon, <4>1, <2>0 DEF ReceiversListed
      <4>3. msqid[u] \in Int
        BY Zenon, <1>0 DEF SysvTypeOK
      <4> QED BY Zenon, <4>1, <4>2, <4>3, <2>0 DEF TableKept
    <3>2. CASE u = t
      BY Zenon, <3>2, <2>2, <1>0 DEF Awake, SndAsleep, RcvAsleep
    <3> QED BY Zenon, <3>1, <3>2
  <2> QED BY Zenon, <2>1, <2>2, <1>0 DEF ReceiversListed
<1>7. SendersListed'
  <2>0. SendersListed
    BY Zenon DEF Inv
  <2>1. ASSUME NEW p \in Live, NEW u \in Task, u \in Range(snds'[p])
        PROVE  pc'[u] = "snd" /\ msq'[u] = p /\ ~ killed'[u]
    <3>1. CASE u # t
      <4>1. /\ pc'[u] = pc[u] /\ msq'[u] = msq[u] /\ u \in Range(snds[p])
        BY Zenon, <3>1, <2>1 DEF Kept
      <4>2. killed'[u] = killed[u]
        BY Zenon, <3>1 DEF Kept
      <4>3. pc[u] = "snd" /\ msq[u] = p
        BY Zenon, <4>1, <2>0 DEF SendersListed
      <4>4. ~ killed[u]
        BY Zenon, <4>1, <2>0 DEF SendersListed
      <4> QED BY Zenon, <4>1, <4>2, <4>3, <4>4
    <3>2. CASE u = t
      BY Zenon, <3>2, <2>1, <1>0 DEF Awake, SndAsleep, RcvAsleep
    <3> QED BY Zenon, <3>1, <3>2
  <2>2. ASSUME NEW u \in Task, pc'[u] = "snd", ~ killed'[u]
        PROVE  /\ msq'[u] \in Live /\ u \in Range(snds'[msq'[u]])
               /\ ipc_lock(msqid[u])' = msq'[u]
    <3>1. CASE u # t
      <4>1. /\ pc[u] = "snd" /\ msq'[u] = msq[u] /\ msqid'[u] = msqid[u]
            /\ \A p \in Live : u \in Range(snds'[p]) <=> u \in Range(snds[p])
        BY Zenon, <3>1, <2>2 DEF Kept
      <4>2. ~ killed[u]
        BY Zenon, <3>1, <2>2 DEF Kept
      <4>3. /\ msq[u] \in Live /\ u \in Range(snds[msq[u]])
            /\ ipc_lock(msqid[u]) = msq[u]
        BY Zenon, <4>1, <4>2, <2>0 DEF SendersListed
      <4>4. msqid[u] \in Int /\ NULL \notin Live
        BY Zenon, <1>0, LiveFacts DEF SysvTypeOK
      <4> QED BY Zenon, <4>1, <4>3, <4>4 DEF TableKept
    <3>2. CASE u = t
      BY Zenon, <3>2, <2>2, <1>0 DEF Awake, SndAsleep, RcvAsleep
    <3> QED BY Zenon, <3>1, <3>2
  <2> QED BY Zenon, <2>1, <2>2, <1>0 DEF SendersListed
<1>8. Told'
  <2>1. ASSUME NEW u \in Task, u # t
        PROVE  /\ pc'[u] = "rcv" /\ r_msg'[u] # "EAGAIN" => wake'[u] > 0
               /\ killed'[u] => wake'[u] > 0
    <3>1. wake[u] \in Nat /\ wake'[u] \in Nat
      BY Zenon, <1>0 DEF SysvTypeOK
    <3>2. /\ pc'[u] = pc[u] /\ wake'[u] >= wake[u]
          /\ r_msg'[u] = r_msg[u] \/ wake'[u] > 0
      BY Zenon, <2>1 DEF Kept
    <3>3. killed'[u] = killed[u]
      BY <2>1 DEF Kept
    <3>4. /\ pc[u] = "rcv" /\ r_msg[u] # "EAGAIN" => wake[u] > 0
          /\ killed[u] => wake[u] > 0
      BY Zenon DEF Inv, Told
    <3>5. wake[u] > 0 => wake'[u] > 0
      BY SMT, Z3, <3>1, <3>2
    <3> QED BY Zenon, <3>2, <3>3, <3>4, <3>5
  <2>2. /\ pc'[t] = "rcv" => r_msg'[t] = "EAGAIN"
        /\ ~ killed'[t]
    BY Zenon DEF Awake, SndAsleep, RcvAsleep
  <2> QED BY Zenon, <2>1, <2>2 DEF Told
<1> QED BY Zenon, <1>2, <1>3, <1>4, <1>5, <1>6, <1>7, <1>8

-----------------------------------------------------------------------------
\* What resume and expunge_all do.
LEMMA ResumeType ==
  ASSUME NEW w \in [Task -> Nat], NEW S
  PROVE  /\ resume(w, S) \in [Task -> Nat]
         /\ \A u \in Task : /\ resume(w, S)[u] >= w[u]
                            /\ u \in S => resume(w, S)[u] > 0
                            /\ u \notin S => resume(w, S)[u] = w[u]
  BY SMT, Z3 DEF resume

\* expunge_all and ss_wakeup together resume the receivers and the senders.
LEMMA Resume2 ==
  ASSUME NEW w \in [Task -> Nat], NEW S, NEW R
  PROVE  /\ resume(resume(w, S), R) \in [Task -> Nat]
         /\ \A u \in Task : /\ resume(resume(w, S), R)[u] >= w[u]
                            /\ u \in S \cup R => resume(resume(w, S), R)[u] > 0
<1> DEFINE v == resume(w, S)
<1>1. /\ v \in [Task -> Nat]
      /\ \A u \in Task : v[u] >= w[u] /\ (u \in S => v[u] > 0)
  BY Zenon, ResumeType
<1> HIDE DEF v
<1>2. /\ resume(v, R) \in [Task -> Nat]
      /\ \A u \in Task : resume(v, R)[u] >= v[u] /\ (u \in R => resume(v, R)[u] > 0)
  BY Zenon, <1>1, ResumeType
<1>3. ASSUME NEW u \in Task
      PROVE  /\ resume(v, R)[u] >= w[u]
             /\ u \in S \cup R => resume(v, R)[u] > 0
  <2>1. w[u] \in Nat /\ v[u] \in Nat /\ resume(v, R)[u] \in Nat
    BY Zenon, <1>1, <1>2
  <2> QED BY SMT, Z3, <2>1, <1>1, <1>2
<1> QED BY Zenon, <1>2, <1>3 DEF v

-----------------------------------------------------------------------------

\* Ownership of one message, m, changes; that of the others does not.
Moved(m) ==
  /\ \A x \in Msg : x # m => heap'[x] = heap[x]
  /\ \A p \in Obj : IsInjective(msgs'[p]) /\ Range(msgs'[p]) \subseteq Msg
  /\ \A p \in Obj, x \in Msg : x # m =>
       (x \in Range(msgs'[p]) <=> x \in Range(msgs[p]))
  /\ \A u \in Task, x \in Msg : x # m => /\ s_msg'[u] = x <=> s_msg[u] = x
                                         /\ r_msg'[u] = x <=> r_msg[u] = x

\* Afterwards m has no owner, or exactly one.
Unowned(m) ==
  /\ heap[m] = Free
  /\ \A p \in Obj : m \notin Range(msgs[p])
  /\ \A u \in Task : s_msg[u] # m /\ r_msg[u] # m

OwnedByQueue(m, o) ==
  /\ heap[m] # Free
  /\ \A p \in Obj : m \in Range(msgs[p]) <=> p = o
  /\ \A u \in Task : s_msg[u] # m /\ r_msg[u] # m

OwnedBySender(m, t) ==
  /\ heap[m] # Free
  /\ \A p \in Obj : m \notin Range(msgs[p])
  /\ \A u \in Task : (s_msg[u] = m <=> u = t) /\ r_msg[u] # m

OwnedByReceiver(m, t) ==
  /\ heap[m] # Free
  /\ \A p \in Obj : m \notin Range(msgs[p])
  /\ \A u \in Task : s_msg[u] # m /\ (r_msg[u] = m <=> u = t)

\* Ownership is kept when one message moves to at most one new owner.
LEMMA OwnerMoves ==
  ASSUME MessagesOwned, NEW m \in Msg, Moved(m),
         \/ Unowned(m)'
         \/ \E o \in Obj : OwnedByQueue(m, o)'
         \/ \E t \in Task : OwnedBySender(m, t)' \/ OwnedByReceiver(m, t)'
  PROVE  MessagesOwned'
<1>0. /\ \A p, q \in Obj : m \in Range(msgs'[p]) /\ m \in Range(msgs'[q]) => p = q
      /\ \A p \in Obj, u \in Task : m \in Range(msgs'[p]) => s_msg'[u] # m /\ r_msg'[u] # m
      /\ \A u, v \in Task : /\ s_msg'[u] = m => r_msg'[v] # m
                            /\ s_msg'[u] = m /\ s_msg'[v] = m => u = v
                            /\ r_msg'[u] = m /\ r_msg'[v] = m => u = v
      /\ heap'[m] # Free <=> \/ \E p \in Obj : m \in Range(msgs'[p])
                             \/ \E u \in Task : m \in {s_msg'[u], r_msg'[u]}
  BY Zenon DEF Unowned, OwnedByQueue, OwnedBySender, OwnedByReceiver
<1>1. \A p, q \in Obj : p # q => Range(msgs'[p]) \cap Range(msgs'[q]) = {}
  <2>1. \A p, q \in Obj : p # q => Range(msgs[p]) \cap Range(msgs[q]) = {}
    BY Zenon DEF MessagesOwned
  <2>2. ASSUME NEW p \in Obj, NEW q \in Obj, p # q,
               NEW x \in Range(msgs'[p]), x \in Range(msgs'[q])
        PROVE  FALSE
    <3>1. x \in Msg
      BY Zenon, <2>2 DEF Moved
    <3>2. CASE x = m
      BY Zenon, <2>2, <3>2, <1>0
    <3>3. CASE x # m
      BY Zenon, <2>1, <2>2, <3>1, <3>3 DEF Moved
    <3> QED BY Zenon, <3>2, <3>3
  <2> QED BY Zenon, <2>2
<1>2. \A p \in Obj, u \in Task : s_msg'[u] \notin Range(msgs'[p])
                                 /\ r_msg'[u] \notin Range(msgs'[p])
  <2>1. \A p \in Obj, u \in Task : s_msg[u] \notin Range(msgs[p])
                                   /\ r_msg[u] \notin Range(msgs[p])
    BY Zenon DEF MessagesOwned
  <2>2. ASSUME NEW p \in Obj, NEW u \in Task, NEW x \in Range(msgs'[p]),
               x \in {s_msg'[u], r_msg'[u]}
        PROVE  FALSE
    <3>1. x \in Msg
      BY Zenon, <2>2 DEF Moved
    <3>2. CASE x = m
      BY Zenon, <2>2, <3>2, <1>0
    <3>3. CASE x # m
      BY SMT, Z3, <2>1, <2>2, <3>1, <3>3 DEF Moved
    <3> QED BY Zenon, <3>2, <3>3
  <2> QED BY Zenon, <2>2
<1>3. ASSUME NEW u \in Task, NEW v \in Task
      PROVE  /\ s_msg'[u] \in Msg => s_msg'[u] # r_msg'[v]
             /\ s_msg'[u] \in Msg /\ s_msg'[u] = s_msg'[v] => u = v
             /\ r_msg'[u] \in Msg /\ r_msg'[u] = r_msg'[v] => u = v
  <2>1. /\ s_msg[u] \in Msg => s_msg[u] # r_msg[v]
        /\ s_msg[u] \in Msg /\ s_msg[u] = s_msg[v] => u = v
        /\ r_msg[u] \in Msg /\ r_msg[u] = r_msg[v] => u = v
    BY Zenon DEF MessagesOwned
  <2>2. ~ (s_msg'[u] = m /\ r_msg'[v] = m)
        /\ (s_msg'[u] = m /\ s_msg'[v] = m => u = v)
        /\ (r_msg'[u] = m /\ r_msg'[v] = m => u = v)
    BY Zenon, <1>0
  <2>3. \A x \in Msg : x # m => /\ s_msg'[u] = x <=> s_msg[u] = x
                                /\ s_msg'[v] = x <=> s_msg[v] = x
                                /\ r_msg'[u] = x <=> r_msg[u] = x
                                /\ r_msg'[v] = x <=> r_msg[v] = x
    BY Zenon DEF Moved
  <2> QED BY Zenon, <2>1, <2>2, <2>3
<1>4. ASSUME NEW x \in Msg
      PROVE  heap'[x] # Free <=> \/ \E p \in Obj : x \in Range(msgs'[p])
                                 \/ \E u \in Task : x \in {s_msg'[u], r_msg'[u]}
  <2>1. CASE x = m
    BY Zenon, <2>1, <1>0
  <2>2. CASE x # m
    <3>1. heap[x] # Free <=> \/ \E p \in Obj : x \in Range(msgs[p])
                             \/ \E u \in Task : x \in {s_msg[u], r_msg[u]}
      BY Zenon DEF MessagesOwned
    <3> QED BY <2>2, <3>1 DEF Moved
  <2> QED BY Zenon, <2>1, <2>2
<1>5. \A p \in Obj : IsInjective(msgs'[p])
  BY Zenon DEF Moved
<1> QED BY Zenon, <1>1, <1>2, <1>3, <1>4, <1>5 DEF MessagesOwned

\* What is on a queue are messages.
LEMMA MsgsTyped ==
  ASSUME SysvTypeOK, NEW p \in Obj
  PROVE  Range(msgs[p]) \subseteq Msg
  BY SMT, Z3 DEF SysvTypeOK, Range

\* Nothing about a queue changed and the other tasks sleep on.
LEMMA PermittedKept ==
  ASSUME Inv, NEW t \in Task, Kept(t), UNCHANGED <<acl, qbytes, cbytes, qnum>>,
         pc'[t] = "idle", wake' \in [Task -> Nat]
  PROVE  Permitted'
<1>1. ASSUME NEW u \in Task, pc'[u] \in {"rcv", "snd"}, wake'[u] = 0
      PROVE  /\ pc[u] = pc'[u] /\ msq'[u] = msq[u] /\ req'[u] = req[u] /\ wake[u] = 0
  <2>1. u # t
    BY Zenon, <1>1
  <2>2. wake[u] \in Nat /\ wake'[u] >= wake[u]
    BY Zenon, <2>1 DEF Kept, Inv, SysvTypeOK
  <2> QED BY SMT, Z3, <1>1, <2>1, <2>2 DEF Kept
<1> QED BY SMT, Z3, <1>1, SameAcl, SameFull DEF Inv, Permitted

-----------------------------------------------------------------------------
\* The request of a sleeping sender is one of rt_msgsnd.
Asked == \A t \in Task : pc[t] = "snd" => req[t] \in SndReqs

\* The view of the queues that the step of a call leaves alone.
SameContent ==
  /\ \A o \in Live : /\ o \in Live' /\ msgs'[o] = msgs[o]
                     /\ \A x \in Range(msgs[o]) : heap'[x] = heap[x]
  /\ \A o \in Live' : o \notin Live => msgs'[o] = << >>
SameReaders(t) ==
  /\ \A u \in Task : u # t => pc'[u] = pc[u] /\ msq'[u] = msq[u] /\ req'[u] = req[u]
  /\ \A u \in Task : u # t => r_msg'[u] = r_msg[u]
  /\ \A u \in Task : u # t /\ r_msg[u] \in Msg => heap'[r_msg[u]] = heap[r_msg[u]]

\* Queues whose lists and messages stay are the same queues to a user.
LEMMA ContentKept ==
  ASSUME SysvTypeOK, Live \subseteq Obj, SameContent
  PROVE  Content' = Content
<1>1. ASSUME NEW o \in Obj
      PROVE  (IF o \in Live THEN [i \in DOMAIN msgs[o] |-> heap[msgs[o][i]]] ELSE << >>)'
             = IF o \in Live THEN [i \in DOMAIN msgs[o] |-> heap[msgs[o][i]]] ELSE << >>
  <2>1. CASE o \in Live
    <3>1. o \in Live' /\ msgs'[o] = msgs[o]
      BY Zenon, <2>1 DEF SameContent
    <3>2. \A i \in DOMAIN msgs[o] : heap'[msgs[o][i]] = heap[msgs[o][i]]
      BY Zenon, <2>1 DEF SameContent, Range
    <3> QED BY Zenon, <2>1, <3>1, <3>2
  <2>2. CASE o \notin Live /\ o \in Live'
    <3>1. msgs'[o] = << >>
      BY Zenon, <2>2 DEF SameContent
    <3>2. [i \in DOMAIN << >> |-> heap'[msgs'[o][i]]] = << >>
      BY SMT, Z3
    <3> QED BY Zenon, <2>2, <3>1, <3>2
  <2>3. CASE o \notin Live /\ o \notin Live'
    BY Zenon, <2>3
  <2> QED BY Zenon, <2>1, <2>2, <2>3
<1> QED BY Zenon, <1>1 DEF Content

\* What a reader waits for and was handed, by its local variables.
LEMMA ReaderView ==
  ASSUME NEW t \in Task
  PROVE  /\ Waiting[t] = IF pc[t] = "rcv" /\ r_msg[t] = "EAGAIN"
                         THEN {[queue |-> msq[t], args |-> req[t]]} ELSE {}
         /\ Waiting'[t] = IF pc'[t] = "rcv" /\ r_msg'[t] = "EAGAIN"
                          THEN {[queue |-> msq'[t], args |-> req'[t]]} ELSE {}
         /\ Handed[t] = IF r_msg[t] \in Msg
                        THEN {[type |-> heap[r_msg[t]].type, args |-> req[t]]} ELSE {}
         /\ Handed'[t] = IF r_msg'[t] \in Msg
                         THEN {[type |-> heap'[r_msg'[t]].type, args |-> req'[t]]} ELSE {}
  BY Zenon DEF Waiting, Handed

\* A reader whose local variables stay sees nothing.
LEMMA ReaderKept ==
  ASSUME NEW t, SameReaders(t), NEW u \in Task, u # t
  PROVE  Waiting'[u] = Waiting[u] /\ Handed'[u] = Handed[u]
<1>1. /\ pc'[u] = pc[u] /\ msq'[u] = msq[u] /\ req'[u] = req[u] /\ r_msg'[u] = r_msg[u]
      /\ r_msg[u] \in Msg => heap'[r_msg[u]] = heap[r_msg[u]]
  BY Zenon DEF SameReaders
<1>2. Waiting'[u] = Waiting[u]
  BY Zenon, <1>1, ReaderView
<1>3. CASE r_msg[u] \in Msg
  BY Zenon, <1>1, <1>2, <1>3, ReaderView
<1>4. CASE r_msg[u] \notin Msg
  BY Zenon, <1>1, <1>2, <1>4, ReaderView
<1> QED BY Zenon, <1>3, <1>4

\* A step that keeps the queues and all readers but t, which returns.
LEMMA ReturnStep ==
  ASSUME Inv, NEW t \in Task, SameContent, SameReaders(t), r_msg'[t] = "none",
         ret'.got = Handed[t]
  PROVE  Typed!QueueNext
<1>1. Content' = Content
  BY Zenon, ContentKept, LiveFacts DEF Inv
<1>r. \A u \in Task : u # t => Waiting'[u] = Waiting[u] /\ Handed'[u] = Handed[u]
  BY ReaderKept
<1>2. Waiting'[t] = {} /\ Handed'[t] = {}
  <2>1. "none" # "EAGAIN" /\ "none" \notin Msg
    BY Zenon, MsgAssumption
  <2> QED BY Zenon, <2>1, ReaderView
<1>3. Waiting' = [Waiting EXCEPT ![t] = {}]
  <2>1. ASSUME NEW u \in Task PROVE Waiting'[u] = IF u = t THEN {} ELSE Waiting[u]
    BY Zenon, <1>2, <1>r
  <2> QED BY Zenon, <2>1 DEF Waiting
<1>4. Handed' = [Handed EXCEPT ![t] = {}]
  <2>1. ASSUME NEW u \in Task PROVE Handed'[u] = IF u = t THEN {} ELSE Handed[u]
    BY Zenon, <1>2, <1>r
  <2> QED BY Zenon, <2>1 DEF Handed
<1>5. Typed!Return(t)
  BY Zenon, <1>1, <1>3, <1>4 DEF Typed!Return
<1> QED BY Zenon, <1>5 DEF Typed!QueueNext

\* A call of a task that is no reader, which keeps the queues and all readers.
LEMMA QuietStep ==
  ASSUME Inv, NEW t \in Task, SameContent, SameReaders(t), pc[t] # "rcv",
         r_msg' = r_msg, ret'.got = {}
  PROVE  Typed!QueueNext
<1>1. r_msg[t] = "none" /\ "none" \notin Msg
  BY Zenon, MsgAssumption DEF Inv, FrameInv
<1>2. Handed[t] = {}
  BY Zenon, <1>1, ReaderView
<1> QED BY Zenon, <1>1, <1>2, ReturnStep

\* Nothing a user can see changes.
LEMMA UnseenStep ==
  ASSUME UNCHANGED <<entries, msgs, heap, pc, msq, req, r_msg>>, ret'.got = {}
  PROVE  Typed!QueueNext
<1>1. UNCHANGED <<Content, Waiting, Handed>>
  BY Zenon DEF Content, Waiting, Handed, Live, Used
<1> QED BY Zenon, <1>1 DEF Typed!QueueNext, Typed!Quiet

\* What Leave and Stay do to the other readers.
LEMMA FramesReaders ==
  ASSUME NEW t \in Task, Frames(t), r_msg' = r_msg,
         \A u \in Task : u # t /\ r_msg[u] \in Msg => heap'[r_msg[u]] = heap[r_msg[u]]
  PROVE  SameReaders(t)
  BY Zenon DEF Frames, SameReaders

\* A call that is refused.
LEMMA RefuseStep ==
  ASSUME Inv, NEW t \in Task, NEW v, pc[t] = "idle", Refuse(t, v), v.got = {}
  PROVE  Typed!QueueNext
<1>1. /\ Leave(t, v) /\ r_msg' = r_msg /\ heap' = heap /\ msgs' = msgs
      /\ entries' = entries
  BY Zenon DEF Refuse, qVars, idsVars
<1>2. Frames(t)
  BY Zenon, <1>1, LeaveFrames DEF Inv
<1>3. SameReaders(t)
  BY Zenon, <1>1, <1>2, FramesReaders
<1>4. SameContent
  BY Zenon, <1>1 DEF SameContent, Live, Used
<1>5. ret'.got = {}
  BY Zenon, <1>1 DEF Leave
<1> QED BY Zenon, <1>1, <1>3, <1>4, <1>5, QuietStep

\* Only rt_msgrcv takes messages out.
LEMMA NothingGot ==
  NoRet.got = {} /\ \A c : Err(c).got = {} /\ Ok(c).got = {}
  BY SMT, Z3 DEF NoRet, Err, Ok

\* The abstract queues use the same tests and the same list_del.
LEMMA SameTests ==
  /\ \A type, r : Typed!testmsg(type, r) <=> testmsg(type, r)
  /\ \A r : Typed!convert_mode(r) = convert_mode(r)
  /\ \A s, i : Typed!DropAt(s, i) = DropAt(s, i)
  BY Zenon DEF Typed!testmsg, Typed!convert_mode, Typed!absTyp, Typed!DropAt,
               testmsg, convert_mode, absTyp, DropAt
=============================================================================
