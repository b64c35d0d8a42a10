------------------------------ MODULE MsgCopy -------------------------------
(***************************************************************************)
(* How msgctl passes the description of a queue to a caller and back        *)
(* (copy_msqid_to_user and copy_msqid_from_user in user/sysvmsg/msg.c): the *)
(* old format has counters of 16 bits, next to long copies of two of them.  *)
(* A caller reads the description, changes it or not, and sets it.          *)
(***************************************************************************)
EXTENDS Integers

CONSTANTS
  SHORT_MAX,      \* USHRT_MAX, of the fields of the old format
  CtlMnb,         \* msg_ctlmnb
  MaxQbytes,      \* bound on q_qbytes
  PermModes       \* modes of a queue
ASSUME CopyAssumption ==
  {SHORT_MAX, CtlMnb, MaxQbytes} \subseteq Nat /\ SHORT_MAX > 0 /\ CtlMnb <= MaxQbytes

VARIABLES
  queue,          \* q_qbytes, q_cbytes and mode
  buf,            \* the caller's msqid_ds or msqid64_ds
  read            \* history: the queue the copy was made of, until it is changed

copyVars == <<queue, buf, read>>
NoCopy == [version |-> "none"]

Truncated(n) == n % (SHORT_MAX + 1)
Saturated(n) == IF n > SHORT_MAX THEN SHORT_MAX ELSE n

copy_msqid_to_user(version) ==
  IF version = "IPC_64"
  THEN [version |-> version, mode |-> queue.mode,
        qbytes |-> queue.qbytes, cbytes |-> queue.cbytes]
  ELSE [version |-> version, mode |-> queue.mode,
        qbytes |-> Saturated(queue.qbytes), lqbytes |-> queue.qbytes,
        cbytes |-> Saturated(queue.cbytes), lcbytes |-> queue.cbytes]

\* In the old format the long field counts where the short one is 0.
copy_msqid_from_user ==
  [mode |-> buf.mode,
   qbytes |-> IF buf.version = "IPC_OLD" /\ buf.qbytes = 0
              THEN buf.lqbytes ELSE buf.qbytes]

CopyInit ==
  /\ queue \in [qbytes : 0..MaxQbytes, cbytes : 0..MaxQbytes, mode : PermModes]
  /\ queue.cbytes <= queue.qbytes
  /\ buf = NoCopy /\ read = queue

\* IPC_STAT
CopyOut ==
  /\ \E version \in {"IPC_64", "IPC_OLD"} : buf' = copy_msqid_to_user(version)
  /\ read' = queue
  /\ UNCHANGED queue

\* The caller writes a mode, or a size, which may be too large for 16 bits.
Edit ==
  /\ buf # NoCopy
  /\ \/ \E m \in PermModes : buf' = [buf EXCEPT !.mode = m]
     \/ \E n \in 0..SHORT_MAX : buf' = [buf EXCEPT !.qbytes = n]
     \/ /\ buf.version = "IPC_OLD"
        /\ \E n \in 0..MaxQbytes : buf' = [buf EXCEPT !.qbytes = 0, !.lqbytes = n]
  /\ read' = NoCopy
  /\ UNCHANGED queue

\* IPC_SET, by a caller with or without CAP_SYS_RESOURCE.
CopyIn ==
  /\ buf # NoCopy
  /\ LET set == copy_msqid_from_user IN
     \E capable \in BOOLEAN :
       /\ set.qbytes > CtlMnb => capable
       /\ queue' = [queue EXCEPT !.qbytes = set.qbytes, !.mode = set.mode]
  /\ UNCHANGED <<buf, read>>

CopyNext == CopyOut \/ Edit \/ CopyIn
CopySpec == CopyInit /\ [][CopyNext]_copyVars
-----------------------------------------------------------------------------
\* Setting an unchanged copy leaves mode and size as they were read; only a size
\* that the old format cannot hold becomes the largest it can (msg.c:370, 435).
CopyLeadsBack ==
  (buf # NoCopy /\ read # NoCopy) =>
    /\ copy_msqid_from_user.mode = read.mode
    /\ copy_msqid_from_user.qbytes =
         IF buf.version = "IPC_64" \/ read.qbytes <= SHORT_MAX
         THEN read.qbytes ELSE SHORT_MAX
=============================================================================
