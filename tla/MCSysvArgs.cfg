\* Every flag, every refused argument and different rights; also ids that name no
\* slot and stale ones.
CONSTANTS
  Obj = {o1, o2}
  NULL = NULL
  Key = {"private", "k"}
  IPC_PRIVATE = "private"
  IPCMNI = 1
  INT_MAX = 1
  USHRT_MAX = 3
  MsgMni = 1
  Task = {"ann", "adm"}
  NoTask = NoTask
  Cred <- ArgCred
  Msg = {m1, m2}
  MsgMax = 2
  MsgMnb = 2
  GetReqs <- ArgGet
  SetReqs <- ArgSet
  SndReqs <- ArgSnd
  RcvReqs <- ArgRcv
  CallIds <- ArgIds
  MaxWake = 1
SPECIFICATION Spec
SYMMETRY DataSymmetry
INVARIANTS
  NoBug
  Accounting
PROPERTY QueuesTyped
CHECK_DEADLOCK FALSE
