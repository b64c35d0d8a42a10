---------------------------- MODULE IpcIdsProofs ----------------------------
(***************************************************************************)
(* The identifier table is coherent for every size of the table and every   *)
(* width of its counters: what ipc_init_ids, ipc_addid and ipc_rmid keep of *)
(* it (the lemmas SysvCtlProofs uses too), and the ids that follow.         *)
(***************************************************************************)
EXTENDS IpcHistory, FiniteSetTheorems, TLAPS

IdsInv == TableInv /\ NoBug

\* Division with remainder by a positive number.
LEMMA Euclid ==
  ASSUME NEW n \in Nat \ {0}, NEW x \in Int
  PROVE  /\ x = n * (x \div n) + (x % n)
         /\ x % n \in 0 .. n - 1
         /\ x \div n \in Int
  OBVIOUS

\* A positive multiple of a number is at least that number.
LEMMA MulGe ==
  ASSUME NEW n \in Nat \ {0}, NEW a \in Int, a >= 1
  PROVE  n * a >= n
  BY SMTT(30)

\* Multiplication distributes over a difference.
LEMMA MulSub ==
  ASSUME NEW n \in Nat, NEW a \in Int, NEW b \in Int
  PROVE  n * (a - b) = n * a - n * b /\ n * a \in Int /\ n * b \in Int
  BY SMTT(30)

\* Quotient and remainder are unique.
LEMMA EuclidUnique ==
  ASSUME NEW n \in Nat \ {0}, NEW s \in Int, NEW q \in Int,
         NEW l \in 0 .. n - 1, NEW r \in 0 .. n - 1, n * s + l = n * q + r
  PROVE  s = q /\ l = r
<1>1. n * s \in Int /\ n * q \in Int
  BY SMTT(30)
<1>2. ~ (s > q)
  <2> SUFFICES ASSUME s > q PROVE FALSE
    OBVIOUS
  <2>1. n * (s - q) >= n
    BY MulGe, s - q >= 1
  <2>2. n * (s - q) = n * s - n * q
    BY MulSub
  <2> QED BY <1>1, <2>1, <2>2
<1>3. ~ (q > s)
  <2> SUFFICES ASSUME q > s PROVE FALSE
    OBVIOUS
  <2>1. n * (q - s) >= n
    BY MulGe, q - s >= 1
  <2>2. n * (q - s) = n * q - n * s
    BY MulSub
  <2> QED BY <1>1, <2>1, <2>2
<1>4. s = q
  BY <1>2, <1>3
<1> QED BY <1>4, <1>1

\* The remainder is whatever fits the equation.
LEMMA ModUnique ==
  ASSUME NEW n \in Nat \ {0}, NEW x \in Int, NEW q \in Int, NEW r \in 0 .. n - 1,
         x = n * q + r
  PROVE  x % n = r
<1> DEFINE d == x \div n
           m == x % n
<1>1. x = n * d + m /\ m \in 0 .. n - 1 /\ d \in Int
  BY Euclid
<1> HIDE DEF d, m
<1>2. n * q + r = n * d + m
  BY <1>1
<1>3. q = d /\ r = m
  BY <1>1, <1>2, EuclidUnique
<1> QED BY <1>3 DEF m

\* An identifier n * s + l gives back its slot l and its sequence number s.
LEMMA BuildLemma ==
  ASSUME NEW n \in Nat \ {0}, NEW s \in Nat, NEW l \in 0 .. n - 1
  PROVE  (n * s + l) % n = l /\ (n * s + l) \div n = s /\ n * s + l \in Nat
<1> DEFINE x == n * s + l
           q == x \div n
           r == x % n
<1>1. x \in Nat
  BY SMTT(30)
<1>2. n * s + l = n * q + r /\ r \in 0 .. n - 1 /\ q \in Int
  <2> HIDE DEF x
  <2>1. x = n * q + r /\ r \in 0 .. n - 1 /\ q \in Int
    BY <1>1, Euclid
  <2> QED BY <2>1 DEF x
<1> HIDE DEF q, r
<1>3. s = q /\ l = r
  BY <1>2, EuclidUnique
<1> QED BY <1>1, <1>3 DEF q, r

\* The greatest sequence number is a natural number.
LEMMA SeqMaxNat == seq_max \in Nat
<1> DEFINE q == INT_MAX \div IPCMNI
<1>1. q \in Int /\ INT_MAX = IPCMNI * q + (INT_MAX % IPCMNI)
      /\ INT_MAX % IPCMNI \in 0 .. IPCMNI - 1
  BY Euclid, SlotAssumption, WidthAssumption
<1> HIDE DEF q
<1>2. q >= 0
  <2> SUFFICES ASSUME q <= -1 PROVE FALSE
    BY <1>1
  <2>1. IPCMNI * (0 - q) >= IPCMNI
    BY MulGe, <1>1, SlotAssumption
  <2>2. IPCMNI * (0 - q) = IPCMNI * 0 - IPCMNI * q /\ IPCMNI * q \in Int
    BY MulSub, <1>1, SlotAssumption
  <2>3. IPCMNI * 0 = 0
    BY SlotAssumption
  <2> QED BY <1>1, <2>1, <2>2, <2>3, SlotAssumption, WidthAssumption
<1> QED BY <1>1, <1>2, WidthAssumption DEF seq_max, q

\* The table has at least one slot and at most IPCMNI (util.c:70).
LEMMA NewSizeType == NewSize \in 1 .. IPCMNI
  BY SlotAssumption DEF NewSize

\* The sequence counter stays in its range.
LEMMA NextSeqType ==
  ASSUME seq \in 0 .. seq_max
  PROVE  NextSeq \in 0 .. seq_max
<1>1. (seq + 1) % (USHRT_MAX + 1) \in 0 .. USHRT_MAX
  BY Euclid, SeqMaxNat, WidthAssumption
<1> QED BY <1>1, SeqMaxNat, WidthAssumption DEF NextSeq

\* A used slot is found again from the id built for it, and the id fits an int.
LEMMA IdLeadsBack ==
  ASSUME NEW s \in 0 .. seq_max, NEW lid \in Slots
  PROVE  /\ ipc_buildid(lid, s) \in 0 .. INT_MAX
         /\ lidOf(ipc_buildid(lid, s)) = lid
         /\ ipc_buildid(lid, s) \div IPCMNI = s
<1>1. s \in Nat /\ lid \in 0 .. IPCMNI - 1 /\ IPCMNI \in Nat \ {0}
  BY SeqMaxNat, SlotAssumption DEF Slots
<1>2. /\ ipc_buildid(lid, s) % IPCMNI = lid
      /\ ipc_buildid(lid, s) \div IPCMNI = s
      /\ ipc_buildid(lid, s) \in Nat
  BY <1>1, BuildLemma DEF ipc_buildid
<1>3. ipc_buildid(lid, s) <= INT_MAX
  <2> DEFINE n == (INT_MAX + 1) \div IPCMNI
             q == INT_MAX \div IPCMNI
  <2>1. /\ n \in Int /\ q \in Int
        /\ INT_MAX = IPCMNI * q + (INT_MAX % IPCMNI)
        /\ INT_MAX % IPCMNI \in 0 .. IPCMNI - 1
    BY Euclid, <1>1, WidthAssumption
  <2>2. INT_MAX + 1 = IPCMNI * n
    BY RangeAssumption
  <2>3. s <= q
    BY SeqMaxNat, WidthAssumption, <2>1 DEF seq_max
  <2> HIDE DEF n, q
  <2>4. q < n
    <3> SUFFICES ASSUME q - n >= 0 PROVE FALSE
      BY <2>1
    <3>1. IPCMNI * (q - n) = IPCMNI * q - IPCMNI * n
          /\ IPCMNI * q \in Int /\ IPCMNI * n \in Int
      BY MulSub, <1>1, <2>1
    <3>2. IPCMNI * (q - n) >= 0
      <4>1. CASE q - n = 0 BY <4>1, <1>1
      <4>2. CASE q - n >= 1 BY <4>2, MulGe, <1>1, <2>1
      <4> QED BY <4>1, <4>2, <2>1
    <3> QED BY <3>1, <3>2, <2>1, <2>2, <1>1, WidthAssumption
  <2>5. IPCMNI * (n - s) >= IPCMNI
    BY MulGe, <1>1, <2>1, <2>3, <2>4
  <2>6. IPCMNI * (n - s) = IPCMNI * n - IPCMNI * s
        /\ IPCMNI * n \in Int /\ IPCMNI * s \in Int
    BY MulSub, <1>1, <2>1
  <2> QED BY <2>2, <2>5, <2>6, <1>1, WidthAssumption DEF ipc_buildid
<1> QED BY <1>2, <1>3, WidthAssumption DEF lidOf

\* ipc_init_ids establishes the invariant, whether or not it got its array.
LEMMA InitTable == IdsInit => IdsInv
<1> SUFFICES ASSUME IdsInit PROVE IdsInv
  OBVIOUS
<1>1. Used = {}
  BY DEF IdsInit, Used
<1>3. IdsTypeOK
  <2>1. perm \in [Obj -> [key : Key, seq : 0 .. seq_max]]
    BY SeqMaxNat, KeyAssumption DEF IdsInit
  <2>2. seq \in 0 .. seq_max /\ max_id \in -1 .. IPCMNI - 1
    BY SeqMaxNat, SlotAssumption DEF IdsInit
  <2>3. entries \in [Slots -> Obj \cup {NULL}] /\ in_use \in Int
    BY DEF IdsInit
  <2> QED BY <2>1, <2>2, <2>3, Zenon DEF IdsInit, IdsTypeOK
<1> QED BY <1>1, <1>3 DEF IdsInit, IdsInv, TableInv, TableShape,
                                KeysUnique, NoBug

\* ipc_addid keeps the table coherent, if its caller gives it an object that is
\* not in the table and a key that is private or unused.
LEMMA AddIdTable ==
  ASSUME TableInv, NEW o \in Obj, NEW k \in Key, NEW lid \in Slots,
         \A j \in Slots : entries[j] # o,
         k = IPC_PRIVATE \/ WithKey(k) = {},
         ipc_addid(o, k, lid)
  PROVE  /\ TableInv'
         /\ Used' = Used \cup {lid} /\ lid \notin Used
<1> USE SlotAssumption, NullAssumption
<1>1. /\ entries[lid] = NULL /\ lid < size' /\ size' \in {0, NewSize}
      /\ size' >= size /\ lid \in 0 .. IPCMNI - 1
  BY NewSizeType DEF ipc_addid, grow_ary, FirstFree, TableInv, IdsTypeOK, Slots
<1>2. Used' = Used \cup {lid} /\ lid \notin Used
  BY <1>1 DEF Used, ipc_addid, TableInv, IdsTypeOK
<1>3. IdsTypeOK'
  BY <1>1, NextSeqType DEF ipc_addid, TableInv, IdsTypeOK, Slots
<1>4. TableShape'
  <2>2. \A l \in Used' : l <= max_id' /\ l < size'
    BY <1>1, <1>2, NewSizeType DEF ipc_addid, TableInv, TableShape, IdsTypeOK,
                                   Used, Slots
  <2>3. max_id' # -1 => max_id' \in Used'
    BY <1>1, <1>2 DEF ipc_addid, TableInv, TableShape
  <2>4. \A i, j \in Used' : entries'[i] = entries'[j] => i = j
    BY <1>2 DEF ipc_addid, TableInv, TableShape, IdsTypeOK, Used
  <2> QED BY <2>2, <2>3, <2>4 DEF TableShape
<1>5. KeysUnique'
  <2>1. CASE k = IPC_PRIVATE
    BY <2>1, <1>2 DEF ipc_addid, TableInv, KeysUnique, IdsTypeOK, Used
  <2>2. CASE WithKey(k) = {}
    <3>1. ASSUME NEW i \in Used, perm[entries[i]].key = k PROVE FALSE
      <4>1. i \in 0 .. max_id /\ entries[i] # NULL
        BY DEF TableInv, TableShape, IdsTypeOK, Used, Slots
      <4> QED BY <4>1, <3>1, <2>2 DEF WithKey
    <3> QED BY <3>1, <1>2 DEF ipc_addid, TableInv, KeysUnique, IdsTypeOK, Used
  <2> QED BY <2>1, <2>2
<1> QED BY <1>2, <1>3, <1>4, <1>5 DEF TableInv

\* An ipc_addid that finds no slot may still have grown the array.
LEMMA AddFullTable ==
  ASSUME TableInv, ipc_addid_full
  PROVE  TableInv' /\ Used' = Used
<1>1. Used' = Used /\ size' \in {0, NewSize} /\ size' >= size
  BY NewSizeType, SlotAssumption DEF ipc_addid_full, grow_ary, Used, TableInv, IdsTypeOK
<1>2. IdsTypeOK'
  BY <1>1 DEF ipc_addid_full, TableInv, IdsTypeOK
<1>3. TableShape'
  BY <1>1, NewSizeType, SlotAssumption
     DEF ipc_addid_full, TableInv, TableShape, IdsTypeOK, Used, Slots
<1>4. KeysUnique'
  BY <1>1 DEF ipc_addid_full, TableInv, KeysUnique
<1> QED BY <1>2, <1>3, <1>4, <1>1 DEF TableInv

\* ipc_rmid of an id whose slot is used keeps the table coherent and does not
\* reach a BUG().
LEMMA RmIdTable ==
  ASSUME TableInv, NEW id \in 0 .. INT_MAX, ipc_lock(id) # NULL, ipc_rmid(id)
  PROVE  /\ TableInv'
         /\ bug' = bug
         /\ lidOf(id) \in Used
         /\ Used' = Used \ {lidOf(id)}
         /\ entries[lidOf(id)] = ipc_lock(id)
<1> USE SlotAssumption
<1> DEFINE lid == lidOf(id)
<1>1. lid \in Slots /\ lid < size /\ entries[lid] # NULL
  <2>1. lid \in 0 .. IPCMNI - 1
    BY Euclid, WidthAssumption DEF lidOf
  <2>2. size \in Nat
    BY NewSizeType DEF TableInv, IdsTypeOK
  <2> QED BY <2>1, <2>2 DEF ipc_lock, Slots
<1>2. /\ entries' = [entries EXCEPT ![lid] = NULL]
      /\ in_use' = in_use - 1
      /\ max_id' \in (IF lid = max_id THEN UsedBelow(lid) ELSE {max_id})
      /\ UNCHANGED <<size, seq, perm>>
      /\ bug' = (bug \/ lid >= size \/ entries[lid] = NULL)
  BY DEF ipc_rmid
<1> HIDE DEF lid
<1>3. bug' = bug
  <2>1. size \in Nat /\ lid \in Nat
    BY <1>1, NewSizeType DEF TableInv, IdsTypeOK, Slots
  <2>2. ~ (lid >= size)
    BY <1>1, <2>1
  <2> QED BY <1>1, <1>2, <2>2, Zenon DEF TableInv, IdsTypeOK
<1>4. lid \in Used /\ Used' = Used \ {lid}
  BY <1>1, <1>2 DEF Used, TableInv, IdsTypeOK
<1>5. ASSUME lid = max_id
      PROVE  /\ max_id' \in -1 .. lid - 1
             /\ max_id' # -1 => entries[max_id'] # NULL
             /\ \A j \in max_id' + 1 .. lid - 1 : entries[j] = NULL
  BY <1>2, <1>5 DEF UsedBelow
<1>5b. lid # max_id => max_id' = max_id
  BY <1>2
<1>6. IdsTypeOK'
  <2>1. max_id' \in -1 .. IPCMNI - 1
    BY <1>1, <1>5, <1>5b DEF TableInv, IdsTypeOK, Slots
  <2>2. in_use' \in Int
    BY <1>2 DEF TableInv, IdsTypeOK
  <2>3. bug' \in BOOLEAN
    BY <1>3 DEF TableInv, IdsTypeOK
  <2> QED BY <1>1, <1>2, <2>1, <2>2, <2>3 DEF TableInv, IdsTypeOK
<1>7. TableShape'
  <2>2. \A l \in Used' : l <= max_id' /\ l < size'
    <3> SUFFICES ASSUME NEW l \in Used' PROVE l <= max_id' /\ l < size'
      OBVIOUS
    <3>1. l \in Used /\ l # lid /\ l <= max_id /\ l < size
      BY <1>4 DEF TableInv, TableShape
    <3>2. l \in Nat /\ lid \in Nat /\ max_id \in Int
      BY <3>1, <1>1 DEF Used, Slots, TableInv, IdsTypeOK
    <3>3. CASE lid = max_id
      <4>1. l \in 0 .. lid - 1 /\ entries[l] # NULL
        BY <3>1, <3>2, <3>3 DEF Used
      <4>2. ~ (l \in max_id' + 1 .. lid - 1)
        BY <4>1, <1>5, <3>3
      <4> QED BY <4>1, <4>2, <1>2, <1>5, <3>1, <3>2, <3>3
    <3> QED BY <3>1, <3>3, <1>2, <1>5b
  <2>3. max_id' # -1 => max_id' \in Used'
    <3>1. CASE lid = max_id
      <4>1. max_id' # -1 => max_id' \in Used /\ max_id' # lid
        BY <1>1, <1>5, <3>1 DEF Used, Slots
      <4> QED BY <4>1, <1>4
    <3>2. CASE lid # max_id
      BY <3>2, <1>5b, <1>4 DEF TableInv, TableShape
    <3> QED BY <3>1, <3>2
  <2>4. \A i, j \in Used' : entries'[i] = entries'[j] => i = j
    BY <1>2, <1>4 DEF TableInv, TableShape, IdsTypeOK, Used
  <2> QED BY <2>2, <2>3, <2>4 DEF TableShape
<1>8. KeysUnique'
  BY <1>2, <1>4 DEF TableInv, KeysUnique, IdsTypeOK, Used
<1>9. entries[lid] = ipc_lock(id)
  <2>1. size \in Nat /\ lid \in Nat
    BY <1>1, NewSizeType DEF TableInv, IdsTypeOK, Slots
  <2> QED BY <2>1, <1>1 DEF ipc_lock, lid
<1> QED BY <1>3, <1>4, <1>6, <1>7, <1>8, <1>9 DEF TableInv, lid

-----------------------------------------------------------------------------
(* The steps of the table.                                                 *)

\* Creating and removing queues preserves the invariant of the table.
LEMMA NextTable == IdsInv /\ [IdsNext]_idsVars => IdsInv'
<1> SUFFICES ASSUME IdsInv, [IdsNext]_idsVars PROVE IdsInv'
  OBVIOUS
<1>1. ASSUME NEW o \in Obj, NEW k \in Key, Create(o, k) PROVE IdsInv'
  <2>1. PICK lid \in Slots : ipc_addid(o, k, lid)
    BY <1>1 DEF Create
  <2>2. TableInv'
    BY <1>1, <2>1, AddIdTable DEF Create, IdsInv
  <2> QED BY <2>1, <2>2 DEF ipc_addid, IdsInv, NoBug
<1>2. ASSUME NEW k \in Key, CreateFull(k) PROVE IdsInv'
  BY <1>2, AddFullTable DEF CreateFull, ipc_addid_full, IdsInv, NoBug
<1>3. ASSUME NEW id \in 0 .. INT_MAX, Remove(id) PROVE IdsInv'
  BY <1>3, RmIdTable DEF Remove, IdsInv, NoBug
<1>4. CASE UNCHANGED idsVars
  BY <1>4 DEF idsVars, IdsInv, TableInv, IdsTypeOK, TableShape, KeysUnique,
              NoBug, Used
<1> QED BY <1>1, <1>2, <1>3, <1>4 DEF IdsNext

\* The used slots can be counted.
LEMMA UsedFinite == IsFiniteSet(Used) /\ Cardinality(Used) \in Nat
<1>1. IsFiniteSet(Slots)
  BY FS_Interval, SlotAssumption DEF Slots
<1> QED BY <1>1, FS_Subset, FS_CardinalityType DEF Used

\* ipc_addid and ipc_rmid keep in_use the number of used slots.
LEMMA NextInUse ==
  ASSUME IdsInv, in_use = Cardinality(Used), [IdsNext]_idsVars
  PROVE  in_use' = Cardinality(Used')
<1>1. ASSUME NEW o \in Obj, NEW k \in Key, Create(o, k)
      PROVE  in_use' = Cardinality(Used')
  <2>1. PICK lid \in Slots : ipc_addid(o, k, lid)
    BY <1>1 DEF Create
  <2>2. Used' = Used \cup {lid} /\ lid \notin Used
    BY <1>1, <2>1, AddIdTable DEF Create, IdsInv
  <2>3. in_use' = in_use + 1
    BY <2>1 DEF ipc_addid
  <2> QED BY <2>2, <2>3, UsedFinite, FS_AddElement
<1>2. ASSUME NEW k \in Key, CreateFull(k) PROVE in_use' = Cardinality(Used')
  BY <1>2, AddFullTable DEF CreateFull, ipc_addid_full, IdsInv
<1>3. ASSUME NEW id \in 0 .. INT_MAX, Remove(id) PROVE in_use' = Cardinality(Used')
  <2>1. lidOf(id) \in Used /\ Used' = Used \ {lidOf(id)}
    BY <1>3, RmIdTable DEF Remove, IdsInv
  <2>2. in_use' = in_use - 1
    BY <1>3 DEF Remove, ipc_rmid
  <2> QED BY <2>1, <2>2, UsedFinite, FS_RemoveElement
<1>4. CASE UNCHANGED idsVars
  BY <1>4 DEF idsVars, Used
<1> QED BY <1>1, <1>2, <1>3, <1>4 DEF IdsNext

\* The array, in_use, max_id and the keys agree in every reachable state, and
\* no BUG() of ipc_rmid is executed.
LEMMA TableAlways ==
  IdsSpec => [](IdsTypeOK /\ TableCoherent /\ KeysUnique /\ NoBug)
<1> DEFINE I == IdsInv /\ in_use = Cardinality(Used)
<1>1. IdsInit => I
  <2>1. IdsInit => Used = {} /\ in_use = 0
    BY DEF IdsInit, Used
  <2> QED BY <2>1, InitTable, FS_EmptySet
<1>2. I /\ [IdsNext]_idsVars => I'
  BY NextTable, NextInUse
<1>3. I => IdsTypeOK /\ TableCoherent /\ KeysUnique /\ NoBug
  BY DEF IdsInv, TableInv, TableCoherent
<1> HIDE DEF I
<1> QED BY <1>1, <1>2, <1>3, PTL DEF IdsSpec

\* in_use counts the used slots and max_id is the highest of them, as ipc_findkey,
\* MSG_INFO and the proc file take for granted.
THEOREM TableCorrect == IdsSpec => []TableCoherent
BY TableAlways, PTL

\* Two queues never share a key (rt_msgget looks a key up with ipc_findkey before it
\* creates a queue, and the search sees every used slot).
THEOREM KeysStayUnique == IdsSpec => []KeysUnique
BY TableAlways, PTL

\* The table keeps its types: size, in_use, max_id and the slots stay in range through
\* every grow_ary, ipc_addid and ipc_rmid (util.c:121-219).
THEOREM TableTypes == IdsSpec => []IdsTypeOK
BY TableAlways, PTL

\* Every id rt_msgget can return fits an int and leads back to its queue, in
\* every reachable state and for all widths of the counters.
THEOREM IdsLeadBackAlways == IdsSpec => []IdsLeadBack
<1>1. IdsInv => IdsLeadBack
  <2> SUFFICES ASSUME IdsInv, NEW lid \in Used
               PROVE  /\ IdOf(lid) \in 0 .. INT_MAX
                      /\ ipc_lock(IdOf(lid)) = entries[lid]
                      /\ ~ ipc_checkid(entries[lid], IdOf(lid))
    BY DEF IdsLeadBack
  <2>1. /\ lid \in Slots /\ entries[lid] \in Obj /\ lid < size
        /\ perm[entries[lid]].seq \in 0 .. seq_max
        /\ size \in Nat /\ lid \in Nat
    BY NewSizeType, SlotAssumption
       DEF IdsInv, TableInv, TableShape, IdsTypeOK, Used, Slots
  <2>2. /\ IdOf(lid) \in 0 .. INT_MAX
        /\ lidOf(IdOf(lid)) = lid
        /\ IdOf(lid) \div IPCMNI = perm[entries[lid]].seq
    BY <2>1, IdLeadsBack DEF IdOf
  <2> QED BY <2>1, <2>2 DEF ipc_lock, ipc_checkid
<1> QED BY <1>1, InitTable, NextTable, PTL DEF IdsSpec

-----------------------------------------------------------------------------
(***************************************************************************)
(* The distance between two uses of one identifier.                         *)
(***************************************************************************)
Wrap == seq_max + 1

\* The sequence number of a queue is its creation number modulo Wrap, and a
\* removed queue is older than the present user of its slot.
HistInv ==
  /\ IdsInv
  /\ created \in Nat /\ birth \in [Obj -> Nat]
  /\ seq = created % Wrap
  /\ \A lid \in Used : /\ birth[entries[lid]] < created
                       /\ perm[entries[lid]].seq = birth[entries[lid]] % Wrap
  /\ \A r \in retired :
       /\ r.birth \in Nat /\ r.birth < created
       /\ r.id \in 0 .. INT_MAX /\ r.id \div IPCMNI = r.birth % Wrap
       /\ \A lid \in Used : lid = lidOf(r.id) => r.birth < birth[entries[lid]]

\* Division by the period of seq, as quotient and remainder.
LEMMA WrapDivision ==
  ASSUME NEW n \in Nat
  PROVE  /\ n = Wrap * (n \div Wrap) + (n % Wrap)
         /\ n % Wrap \in 0 .. Wrap - 1
         /\ n \div Wrap \in Int
<1>1. Wrap \in Nat \ {0} /\ n \in Int
  BY SeqMaxNat DEF Wrap
<1> QED BY <1>1, Euclid

\* Counting modulo Wrap, as ids->seq does it.
LEMMA NextSeqMod ==
  ASSUME NEW n \in Nat, seq = n % Wrap
  PROVE  NextSeq = (n + 1) % Wrap
<1> DEFINE q == n \div Wrap
<1>1. /\ Wrap \in Nat \ {0} /\ Wrap = seq_max + 1
      /\ seq_max \in Nat /\ seq_max <= USHRT_MAX /\ USHRT_MAX \in Nat
  BY SeqMaxNat, WidthAssumption DEF Wrap, seq_max
<1>2. n = Wrap * q + seq /\ seq \in 0 .. Wrap - 1 /\ q \in Int
  BY WrapDivision
<1> HIDE DEF q
<1>3. Wrap * q \in Int /\ Wrap * (q + 1) \in Int
  BY <1>1, <1>2, MulSub
<1>4. ASSUME seq + 1 <= USHRT_MAX PROVE (seq + 1) % (USHRT_MAX + 1) = seq + 1
  <2>1. seq + 1 = (USHRT_MAX + 1) * 0 + (seq + 1)
    BY <1>1, <1>2
  <2>2. /\ USHRT_MAX + 1 \in Nat \ {0} /\ seq + 1 \in Int /\ 0 \in Int
        /\ seq + 1 \in 0 .. (USHRT_MAX + 1) - 1
    BY <1>1, <1>2, <1>4
  <2> HIDE DEF Wrap
  <2> QED BY <2>1, <2>2, ModUnique
<1>5. CASE seq < seq_max
  <2>1. NextSeq = seq + 1
    BY <1>1, <1>2, <1>4, <1>5 DEF NextSeq
  <2>2. /\ n + 1 = Wrap * q + (seq + 1) /\ seq + 1 \in 0 .. Wrap - 1
        /\ n + 1 \in Int
    BY <1>1, <1>2, <1>3, <1>5
  <2>3. (n + 1) % Wrap = seq + 1
    BY <2>2, <1>1, <1>2, ModUnique
  <2> QED BY <2>1, <2>3
<1>6. CASE seq = seq_max
  <2>1. NextSeq = 0
    <3>1. CASE seq_max < USHRT_MAX
      BY <1>1, <1>4, <1>6, <3>1 DEF NextSeq
    <3>2. CASE seq_max = USHRT_MAX
      <4>1. /\ seq + 1 = (USHRT_MAX + 1) * 1 + 0 /\ 0 \in 0 .. (USHRT_MAX + 1) - 1
            /\ USHRT_MAX + 1 \in Nat \ {0} /\ seq + 1 \in Int /\ 1 \in Int
        BY <1>1, <1>6, <3>2
      <4>2. (seq + 1) % (USHRT_MAX + 1) = 0
        BY <4>1, ModUnique
      <4> QED BY <4>2, <1>1 DEF NextSeq
    <3> QED BY <3>1, <3>2, <1>1
  <2>2. n + 1 = Wrap * (q + 1) + 0
    <3>1. Wrap * ((q + 1) - q) = Wrap * (q + 1) - Wrap * q
      BY MulSub, <1>1, <1>2
    <3>2. Wrap * ((q + 1) - q) = Wrap
      BY <1>1, <1>2
    <3> QED BY <3>1, <3>2, <1>1, <1>2, <1>3, <1>6
  <2>3. (n + 1) % Wrap = 0
    <3>1. n + 1 \in Int /\ q + 1 \in Int /\ 0 \in 0 .. Wrap - 1
      BY <1>1, <1>2
    <3> QED BY <2>2, <3>1, <1>1, ModUnique
  <2> QED BY <2>1, <2>3
<1> QED BY <1>1, <1>2, <1>5, <1>6

\* Two creation numbers with the same sequence number are Wrap apart.
LEMMA SameSeqFar ==
  ASSUME NEW a \in Nat, NEW b \in Nat, a < b, a % Wrap = b % Wrap
  PROVE  b - a > seq_max
<1> DEFINE p == a \div Wrap
           q == b \div Wrap
           r == a % Wrap
<1>1. Wrap \in Nat \ {0} /\ seq_max \in Nat /\ Wrap = seq_max + 1
  BY SeqMaxNat DEF Wrap
<1>2. a = Wrap * p + r /\ b = Wrap * q + r /\ r \in 0 .. Wrap - 1
      /\ p \in Int /\ q \in Int
  <2>1. a = Wrap * p + r /\ r \in 0 .. Wrap - 1 /\ p \in Int
    BY WrapDivision
  <2>2. b = Wrap * q + (b % Wrap) /\ q \in Int
    BY WrapDivision
  <2> HIDE DEF Wrap, p, q
  <2> QED BY <2>1, <2>2
<1> HIDE DEF p, q, r
<1>3. Wrap * (q - p) = Wrap * q - Wrap * p /\ Wrap * q \in Int /\ Wrap * p \in Int
  BY <1>1, <1>2, MulSub
<1>4. q - p >= 1
  <2> SUFFICES ASSUME p - q >= 0 PROVE FALSE
    BY <1>2
  <2>1. Wrap * (p - q) = Wrap * p - Wrap * q
    BY <1>1, <1>2, MulSub
  <2>2. Wrap * (p - q) >= 0
    <3>1. CASE p - q = 0 BY <3>1, <1>1
    <3>2. CASE p - q >= 1 BY <3>2, MulGe, <1>1, <1>2
    <3> QED BY <3>1, <3>2, <1>2
  <2> QED BY <2>1, <2>2, <1>2, <1>3
<1>5. Wrap * (q - p) >= Wrap
  BY <1>1, <1>2, <1>4, MulGe
<1> QED BY <1>1, <1>2, <1>3, <1>5

\* The history starts in its invariant.
LEMMA HistInitInv == HistInit => HistInv
<1> SUFFICES ASSUME HistInit PROVE HistInv
  OBVIOUS
<1>1. Used = {}
  BY DEF HistInit, IdsInit, Used
<1>2. 0 % Wrap = 0
  <2>1. Wrap \in Nat \ {0} /\ 0 = Wrap * 0 + 0 /\ 0 \in 0 .. Wrap - 1 /\ 0 \in Int
    BY SeqMaxNat DEF Wrap
  <2> QED BY <2>1, ModUnique
<1> QED BY <1>1, <1>2, InitTable DEF HistInit, IdsInit, HistInv

\* The history keeps its invariant: seq is the creation number modulo its range.
LEMMA HistNextInv ==
  HistInv /\ [HistNext]_<<idsVars, histVars>> => HistInv'
<1> SUFFICES ASSUME HistInv, [HistNext]_<<idsVars, histVars>> PROVE HistInv'
  OBVIOUS
<1> USE DEF HistInv
<1>1. ASSUME NEW o \in Obj, NEW k \in Key, HistCreate(o, k) PROVE HistInv'
  <2>1. PICK lid \in Slots : ipc_addid(o, k, lid)
    BY <1>1 DEF HistCreate, Create
  <2>2. \A j \in Slots : entries[j] # o
    BY <1>1 DEF HistCreate, Create
  <2>3. TableInv' /\ Used' = Used \cup {lid} /\ lid \notin Used /\ Used \subseteq Slots
    BY <1>1, <2>1, <2>2, AddIdTable DEF HistCreate, Create, IdsInv, Used
  <2>4. IdsInv'
    BY <2>1, <2>3 DEF ipc_addid, IdsInv, NoBug
  <2>5. /\ created' = created + 1 /\ birth' = [birth EXCEPT ![o] = created]
        /\ retired' = retired
    BY <1>1 DEF HistCreate
  <2>6. /\ entries' = [entries EXCEPT ![lid] = o] /\ seq' = NextSeq
        /\ perm' = [perm EXCEPT ![o] = [key |-> k, seq |-> seq]]
    BY <2>1 DEF ipc_addid
  <2>7. entries \in [Slots -> Obj \cup {NULL}] /\ perm \in [Obj -> [key : Key, seq : 0 .. seq_max]]
    BY DEF IdsInv, TableInv, IdsTypeOK
  <2>8. seq' = created' % Wrap
    BY <2>5, <2>6, NextSeqMod
  <2>9. ASSUME NEW l \in Used'
        PROVE  /\ birth'[entries'[l]] < created'
               /\ perm'[entries'[l]].seq = birth'[entries'[l]] % Wrap
    <3>1. CASE l = lid
      BY <3>1, <2>5, <2>6, <2>7
    <3>2. CASE l \in Used /\ l # lid
      <4>1. entries'[l] = entries[l] /\ entries[l] # o /\ entries[l] \in Obj
        BY <3>2, <2>2, <2>3, <2>6, <2>7 DEF Used
      <4>2. birth'[entries[l]] = birth[entries[l]] /\ perm'[entries[l]] = perm[entries[l]]
        BY <4>1, <2>5, <2>6, <2>7
      <4> QED BY <4>1, <4>2, <3>2, <2>5
    <3> QED BY <3>1, <3>2, <2>3
  <2>10. ASSUME NEW r \in retired', NEW l \in Used', l = lidOf(r.id)
         PROVE  r.birth < birth'[entries'[l]]
    <3>1. CASE l = lid
      BY <3>1, <2>5, <2>6, <2>7
    <3>2. CASE l \in Used /\ l # lid
      <4>1. entries'[l] = entries[l] /\ entries[l] # o /\ entries[l] \in Obj
        BY <3>2, <2>2, <2>3, <2>6, <2>7 DEF Used
      <4>2. birth'[entries[l]] = birth[entries[l]]
        BY <4>1, <2>5
      <4> QED BY <4>1, <4>2, <3>2, <2>5, <2>10
    <3> QED BY <3>1, <3>2, <2>3
  <2> QED BY <2>4, <2>5, <2>8, <2>9, <2>10
<1>2. ASSUME NEW k \in Key, HistCreateFull(k) PROVE HistInv'
  <2>1. TableInv' /\ Used' = Used
    BY <1>2, AddFullTable DEF HistCreateFull, CreateFull, IdsInv
  <2> QED BY <1>2, <2>1 DEF HistCreateFull, CreateFull, ipc_addid_full, histVars,
                            IdsInv, NoBug
<1>3. ASSUME NEW id \in 0 .. INT_MAX, HistRemove(id) PROVE HistInv'
  <2>1. ipc_lock(id) # NULL /\ ~ ipc_checkid(ipc_lock(id), id) /\ ipc_rmid(id)
    BY <1>3 DEF HistRemove, Remove
  <2>2. /\ TableInv' /\ bug' = bug /\ lidOf(id) \in Used
        /\ Used' = Used \ {lidOf(id)} /\ entries[lidOf(id)] = ipc_lock(id)
    BY <2>1, RmIdTable DEF IdsInv
  <2>3. /\ entries' = [entries EXCEPT ![lidOf(id)] = NULL]
        /\ perm' = perm /\ seq' = seq
    BY <2>1 DEF ipc_rmid
  <2>4. /\ created' = created /\ birth' = birth
        /\ retired' = retired \cup {[id |-> id, birth |-> birth[ipc_lock(id)]]}
    BY <1>3 DEF HistRemove
  <2>5. \A l \in Used' : l \in Used /\ l # lidOf(id) /\ entries'[l] = entries[l]
    BY <2>2, <2>3 DEF Used, IdsInv, TableInv, IdsTypeOK
  <2>6. ipc_lock(id) \in Obj
    BY <2>1, <2>2 DEF Used, IdsInv, TableInv, IdsTypeOK
  <2>7. id \div IPCMNI = birth[ipc_lock(id)] % Wrap
    BY <2>1, <2>2 DEF ipc_checkid
  <2>8. ASSUME NEW r \in retired'
        PROVE  /\ r.birth \in Nat /\ r.birth < created'
               /\ r.id \in 0 .. INT_MAX /\ r.id \div IPCMNI = r.birth % Wrap
               /\ \A l \in Used' : l = lidOf(r.id) => r.birth < birth'[entries'[l]]
    <3>1. CASE r \in retired
      BY <3>1, <2>4, <2>5
    <3>2. CASE r = [id |-> id, birth |-> birth[ipc_lock(id)]]
      BY <3>2, <2>2, <2>4, <2>5, <2>6, <2>7
    <3> QED BY <3>1, <3>2, <2>4
  <2> QED BY <2>2, <2>3, <2>4, <2>5, <2>8 DEF IdsInv, NoBug
<1>4. CASE UNCHANGED <<idsVars, histVars>>
  BY <1>4 DEF idsVars, histVars, IdsInv, TableInv, IdsTypeOK, TableShape,
              KeysUnique, NoBug, Used
<1> QED BY <1>1, <1>2, <1>3, <1>4 DEF HistNext

\* An id of a removed queue is not accepted again before the sequence counter
\* has gone all the way round: StaleIdDistance, for every table size and every
\* width of the counter.
THEOREM StaleIdsRejected == HistSpec => []StaleIdDistance
<1>1. HistInv => StaleIdDistance
  <2> SUFFICES ASSUME HistInv, NEW r \in retired, NEW lid \in Used, IdOf(lid) = r.id
               PROVE  birth[entries[lid]] - r.birth > seq_max
    BY DEF StaleIdDistance
  <2>1. /\ lid \in Slots /\ entries[lid] \in Obj
        /\ perm[entries[lid]].seq \in 0 .. seq_max
    BY DEF HistInv, IdsInv, TableInv, IdsTypeOK, Used
  <2>2. lidOf(r.id) = lid /\ r.id \div IPCMNI = perm[entries[lid]].seq
    BY <2>1, IdLeadsBack DEF IdOf
  <2>3. /\ r.birth \in Nat /\ birth[entries[lid]] \in Nat
        /\ r.birth < birth[entries[lid]]
        /\ r.birth % Wrap = birth[entries[lid]] % Wrap
    BY <2>1, <2>2 DEF HistInv
  <2> QED BY <2>3, SameSeqFar
<1> QED BY <1>1, HistInitInv, HistNextInv, PTL DEF HistSpec
=============================================================================
