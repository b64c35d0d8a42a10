\* Three slots of a table of at most four; seq counts 0, 1, 2 (USHRT_MAX wins
\* over INT_MAX / IPCMNI), so five creations pass the wrap-around.
CONSTANTS
  Obj = {o1, o2, o3}
  NULL = NULL
  Key = {private, k1, k2}
  IPC_PRIVATE = private
  IPCMNI = 4
  INT_MAX = 15
  USHRT_MAX = 2
  MsgMni = 3
  MaxCreate = 6
SPECIFICATION HistSpec
INVARIANTS
  TableCoherent
  KeysUnique
  IdsLeadBack
  StaleIdDistance
CHECK_DEADLOCK FALSE
