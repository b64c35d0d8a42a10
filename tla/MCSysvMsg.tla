----------------------------- MODULE MCSysvMsg ------------------------------
(***************************************************************************)
(* Model-checking instances of SysvMsg, and the properties that need sums.  *)
(***************************************************************************)
EXTENDS SysvTyped, FiniteSetsExt, TLC

CONSTANT MaxWake        \* bound on pending resumes of one task

All == [c \in {"u", "g", "o"} |-> {"r", "w"}]
Mode(u, g, o) == ("u" :> u) @@ ("g" :> g) @@ ("o" :> o)

\* One kind of task: all have the same user and may do everything.
Peer == [euid |-> "ann", egid |-> "users", groups |-> {"users"}, caps |-> {}]
PeerCred == [t \in Task |-> Peer]

PrivateGet == {[key |-> IPC_PRIVATE, mode |-> All, creat |-> FALSE, excl |-> FALSE]}

Snd(type, sz, nowait) == [type |-> type, sz |-> sz, nowait |-> nowait]
Rcv(typ, sz) == [typ |-> typ, sz |-> sz, nowait |-> FALSE, noerror |-> FALSE,
                 except |-> FALSE]
Set(q, mode) == [qbytes |-> q, uid |-> "ann", gid |-> "users", mode |-> mode]

\* Two tasks: a short and a long message, a receiver for any and one for type 2,
\* and a change of the queue's size.
DuoSnd == {Snd(1, 1, FALSE), Snd(2, 2, FALSE)}
DuoRcv == {Rcv(0, 1), Rcv(2, 2)}
DuoSet == {Set(1, All)}

\* One size for everything.
LiveSnd == {Snd(1, 1, FALSE)}
LiveRcv == {Rcv(0, 1)}

\* Every flag, every refused argument and different rights.  The administrator may
\* control every queue and exceed msg_ctlmnb, and is a stranger otherwise.
ArgCred ==
  [ann |-> Peer,
   adm |-> [euid |-> "adm", egid |-> "none", groups |-> {},
            caps |-> {"SYS_ADMIN", "SYS_RESOURCE"}]]
Get(key, mode, creat, excl) ==
  [key |-> key, mode |-> mode, creat |-> creat, excl |-> excl]
Closed == Mode({"r", "w"}, {"r"}, {})
ArgGet == {Get("k", Closed, TRUE, FALSE), Get("k", Closed, TRUE, TRUE),
           Get("k", Mode({"r"}, {}, {}), FALSE, FALSE)}
ArgSet == {[Set(3, Closed) EXCEPT !.uid = "adm"]}
ArgSnd == {Snd(0, 1, FALSE), Snd(1, -1, FALSE), Snd(1, 3, FALSE),
           Snd(1, 1, TRUE), Snd(2, 2, FALSE)}
ArgIds == -1 .. 1
ArgRcv == {Rcv(0, -1), Rcv(-2, 2), [Rcv(0, 2) EXCEPT !.nowait = TRUE],
           [Rcv(1, 1) EXCEPT !.except = TRUE, !.noerror = TRUE]}

BoundedNext == SysvNext /\ \A t \in Task : wake'[t] <= MaxWake
Spec == SysvInit /\ [][BoundedNext]_vars
FairSpec == Spec /\ \A t \in Task : WF_vars(Progress(t))

DataSymmetry == Permutations(Obj) \cup Permutations(Msg)
Symmetry == Permutations(Task) \cup Permutations(Obj) \cup Permutations(Msg)

\* q_cbytes and q_qnum describe the queue, and msg_bytes and msg_hdrs are their
\* sums over all queues, a removed queue counting until it is freed.
Accounting ==
  /\ \A o \in Obj :
       /\ qnum[o] = Len(msgs[o])
       /\ cbytes[o] = MapThenSumSet(LAMBDA i : heap[msgs[o][i]].ts, DOMAIN msgs[o])
  /\ msg_bytes = MapThenSumSet(LAMBDA o : cbytes[o], Obj)
  /\ msg_hdrs = MapThenSumSet(LAMBDA o : qnum[o], Obj)
=============================================================================
