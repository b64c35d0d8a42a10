\* ipc_init_ids may fail here: does "ipc service disabled." hold?
CONSTANTS
  Obj = {o1, o2}
  NULL = NULL
  Key = {private, k1}
  IPC_PRIVATE = private
  IPCMNI = 4
  INT_MAX = 15
  USHRT_MAX = 2
  MsgMni = 2
  MaxCreate = 3
SPECIFICATION HistSpec
PROPERTY DisabledStaysDisabled
CHECK_DEADLOCK FALSE
