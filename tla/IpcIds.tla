------------------------------- MODULE IpcIds -------------------------------
(***************************************************************************)
(* The identifier table of the System V message queues                     *)
(* (user/sysvmsg/util.c, util.h): a resizable array of pointers to queue    *)
(* objects, a sequence counter that makes identifiers of successive users   *)
(* of one slot differ, and the bookkeeping in_use / max_id.                 *)
(*                                                                         *)
(* Every operation here runs under ids->sem and, where it changes the       *)
(* array, under ids->ary, so it is one step.  The callers are rt_msgget     *)
(* (through newque) and freeque; the conditions under which they call are   *)
(* part of Create and Remove.                                               *)
(***************************************************************************)
EXTENDS Integers, FiniteSets

CONSTANTS
  Obj,          \* addresses of struct msg_queue (the embedded kern_ipc_perm)
  NULL,
  Key,
  IPC_PRIVATE,
  IPCMNI,       \* 32768 in Linux: hard limit of slots, and SEQ_MULTIPLIER
  INT_MAX,
  USHRT_MAX,
  MsgMni        \* msg_ctlmni, 16 in the source: the size asked for

ASSUME SlotAssumption == IPCMNI \in Nat \ {0} /\ MsgMni \in Nat \ {0}
ASSUME WidthAssumption == INT_MAX \in Nat /\ USHRT_MAX \in Nat
\* 2^31 is a multiple of 32768: the largest seq still gives ids that fit an int.
ASSUME RangeAssumption ==
         /\ IPCMNI <= INT_MAX
         /\ INT_MAX + 1 = IPCMNI * ((INT_MAX + 1) \div IPCMNI)
ASSUME NullAssumption == NULL \notin Obj
ASSUME KeyAssumption == IPC_PRIVATE \in Key

VARIABLES
  size,         \* ids->size
  entries,      \* ids->entries[lid].p, NULL from size on
  in_use,       \* ids->in_use
  max_id,       \* ids->max_id
  seq,          \* ids->seq
  perm,         \* key and seq of each kern_ipc_perm
  bug           \* TRUE once a BUG() was executed

idsVars == <<size, entries, in_use, max_id, seq, perm, bug>>

Slots == 0 .. IPCMNI - 1

NewSize == IF MsgMni > IPCMNI THEN IPCMNI ELSE MsgMni

seq_max ==
  LET seq_limit == INT_MAX \div IPCMNI
  IN  IF seq_limit > USHRT_MAX THEN USHRT_MAX ELSE seq_limit

MniAsMultiplier(lid, s) == MsgMni * s + lid
ipc_buildid(lid, s) == IPCMNI * s + lid

lidOf(id) == id % IPCMNI

\* ipc_lock and ipc_get: the object in the slot, NULL if there is none.
ipc_lock(id) ==
  IF lidOf(id) >= size THEN NULL ELSE entries[lidOf(id)]

\* TRUE when the id was issued for an earlier user of the slot.
ipc_checkid(o, id) == id \div IPCMNI # perm[o].seq

\* The slots the loop of ipc_findkey would stop at; it returns the first of
\* them, and -1 if there is none.
StopsBeforeMaxId(k) ==
  {lid \in 0 .. max_id - 1 : entries[lid] # NULL /\ perm[entries[lid]].key = k}
WithKey(k) ==
  {lid \in 0 .. max_id : entries[lid] # NULL /\ perm[entries[lid]].key = k}
ipc_findkey(k) == {lid \in WithKey(k) : \A j \in WithKey(k) : lid <= j}

IdsTypeOK ==
  /\ size \in {0, NewSize}
  /\ entries \in [Slots -> Obj \cup {NULL}]
  /\ in_use \in Int
  /\ max_id \in -1 .. IPCMNI - 1
  /\ seq \in 0 .. seq_max
  /\ perm \in [Obj -> [key : Key, seq : 0 .. seq_max]]
  /\ bug \in BOOLEAN

-----------------------------------------------------------------------------
\* ipc_init_ids: the array may not be allocated, and then size is 0.
IdsInit ==
  /\ size \in {0, NewSize}
  /\ entries = [lid \in Slots |-> NULL]
  /\ in_use = 0
  /\ max_id = -1
  /\ seq = 0
  /\ perm \in [Obj -> [key : {IPC_PRIVATE}, seq : {0}]]
  /\ bug = FALSE

\* grow_ary(ids, msg_ctlmni): the size it returns.  A failed allocation leaves
\* the old array in place.
grow_ary == IF NewSize <= size THEN {NewSize} ELSE {NewSize, size}

FirstFree(sz) ==
  {lid \in 0 .. sz - 1 :
     /\ entries[lid] = NULL
     /\ \A j \in 0 .. lid - 1 : entries[j] # NULL}

NeverReset == seq + 1
ResetTooEarly == IF seq + 1 >= seq_max THEN 0 ELSE seq + 1
NextSeq ==
  LET s == (seq + 1) % (USHRT_MAX + 1)
  IN  IF s > seq_max THEN 0 ELSE s

\* ipc_addid, with the key newque stores before it releases ids->ary.
ipc_addid(o, k, lid) ==
  /\ \E sz \in grow_ary :
       /\ size' = IF sz > size THEN sz ELSE size
       /\ lid \in FirstFree(sz)
  /\ entries' = [entries EXCEPT ![lid] = o]
  /\ in_use' = in_use + 1
  /\ max_id' = IF lid > max_id THEN lid ELSE max_id
  /\ perm' = [perm EXCEPT ![o] = [key |-> k, seq |-> seq]]
  /\ seq' = NextSeq
  /\ UNCHANGED bug

\* ipc_addid returns -1: there is no free slot.
ipc_addid_full ==
  /\ \E sz \in grow_ary :
       /\ size' = IF sz > size THEN sz ELSE size
       /\ FirstFree(sz) = {}
  /\ UNCHANGED <<entries, in_use, max_id, seq, perm, bug>>

\* Where the loop of ipc_rmid leaves lid: the next used slot below, or -1.
SlotBelow(lid) == {lid - 1}
UsedBelow(lid) ==
  {n \in -1 .. lid - 1 :
     /\ n # -1 => entries[n] # NULL
     /\ \A j \in n + 1 .. lid - 1 : entries[j] = NULL}

\* ipc_rmid, with its two BUG() checks.
ipc_rmid(id) ==
  LET lid == lidOf(id)
  IN  /\ bug' = (bug \/ lid >= size \/ entries[lid] = NULL)
      /\ entries' = [entries EXCEPT ![lid] = NULL]
      /\ in_use' = in_use - 1
      /\ max_id' \in (IF lid = max_id THEN UsedBelow(lid) ELSE {max_id})
      /\ UNCHANGED <<size, seq, perm>>

-----------------------------------------------------------------------------
\* newque as rt_msgget calls it: a private key, or a key not in the table.
Create(o, k) ==
  /\ \A lid \in Slots : entries[lid] # o
  /\ k = IPC_PRIVATE \/ WithKey(k) = {}
  /\ \E lid \in Slots : ipc_addid(o, k, lid)

CreateFull(k) ==
  /\ k = IPC_PRIVATE \/ WithKey(k) = {}
  /\ ipc_addid_full

\* IPC_RMID: lock, check the id, and only then unlink.
Remove(id) ==
  /\ ipc_lock(id) # NULL
  /\ ~ ipc_checkid(ipc_lock(id), id)
  /\ ipc_rmid(id)

IdsNext ==
  \/ \E o \in Obj, k \in Key : Create(o, k)
  \/ \E k \in Key : CreateFull(k)
  \/ \E id \in 0 .. INT_MAX : Remove(id)

IdsSpec == IdsInit /\ [][IdsNext]_idsVars

-----------------------------------------------------------------------------
Used == {lid \in Slots : entries[lid] # NULL}

IdOf(lid) == ipc_buildid(lid, perm[entries[lid]].seq)

\* No BUG() of ipc_rmid (util.c:202, 206) is ever executed.
NoBug == ~ bug

\* max_id is the highest used slot, nothing is used at or beyond size, and no
\* object has two slots.
TableShape ==
  /\ \A lid \in Used : lid <= max_id /\ lid < size
  /\ max_id # -1 => max_id \in Used
  /\ \A i, j \in Used : entries[i] = entries[j] => i = j

\* The table's bookkeeping agrees with the array: max_id is the highest used slot
\* and in_use counts them (ipc_findkey, MSG_INFO and the proc file rely on both).
TableCoherent == TableShape /\ in_use = Cardinality(Used)

\* Two queues in the table never share a key, unless it is IPC_PRIVATE:
\* rt_msgget with a key names at most one queue.
KeysUnique ==
  \A i, j \in Used :
    /\ perm[entries[i]].key = perm[entries[j]].key
    /\ perm[entries[i]].key # IPC_PRIVATE
    => i = j

\* What every operation keeps of the array.
TableInv == IdsTypeOK /\ TableShape /\ KeysUnique

\* The id rt_msgget returns for a queue is a non-negative int that leads back
\* to exactly this queue: ipc_lock finds it and ipc_checkid accepts it.
IdsLeadBack ==
  \A lid \in Used :
    /\ IdOf(lid) \in 0 .. INT_MAX
    /\ ipc_lock(IdOf(lid)) = entries[lid]
    /\ ~ ipc_checkid(entries[lid], IdOf(lid))
=============================================================================
