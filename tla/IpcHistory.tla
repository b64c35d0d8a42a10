----------------------------- MODULE IpcHistory -----------------------------
(***************************************************************************)
(* IpcIds with a history: how many queues were created so far, which of    *)
(* them each object is, and the ids of the queues that were removed.  The   *)
(* history only watches; it restricts the table by the bound MaxCreate      *)
(* alone.                                                                   *)
(***************************************************************************)
EXTENDS IpcIds

CONSTANT MaxCreate      \* bound on the number of queues ever created
ASSUME MaxCreateAssumption == MaxCreate \in Nat

VARIABLES
  created,      \* queues created so far
  birth,        \* the creation number of each object's queue
  retired       \* id and creation number of each removed queue

histVars == <<created, birth, retired>>

HistInit ==
  /\ IdsInit
  /\ created = 0
  /\ birth = [o \in Obj |-> 0]
  /\ retired = {}

HistCreate(o, k) ==
  /\ created < MaxCreate
  /\ Create(o, k)
  /\ created' = created + 1
  /\ birth' = [birth EXCEPT ![o] = created]
  /\ UNCHANGED retired

HistCreateFull(k) == CreateFull(k) /\ UNCHANGED histVars

HistRemove(id) ==
  /\ Remove(id)
  /\ retired' = retired \cup {[id |-> id, birth |-> birth[ipc_lock(id)]]}
  /\ UNCHANGED <<created, birth>>

HistNext ==
  \/ \E o \in Obj, k \in Key : HistCreate(o, k)
  \/ \E k \in Key : HistCreateFull(k)
  \/ \E id \in 0 .. INT_MAX : HistRemove(id)

HistSpec == HistInit /\ [][HistNext]_<<idsVars, histVars>>

\* The id of a removed queue names a live queue again only after more than
\* seq_max further queues were created: until then every call with the stale id
\* is rejected by ipc_checkid (util.h:123) or finds an empty slot.
StaleIdDistance ==
  \A r \in retired, lid \in Used :
    IdOf(lid) = r.id => birth[entries[lid]] - r.birth > seq_max
=============================================================================
