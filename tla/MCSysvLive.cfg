\* Progress of sleepers and of ids->sem.
CONSTANTS
  Obj = {o1, o2}
  NULL = NULL
  Key = {private}
  IPC_PRIVATE = private
  IPCMNI = 1
  INT_MAX = 1
  USHRT_MAX = 3
  MsgMni = 1
  Task = {t1, t2}
  NoTask = NoTask
  Cred <- PeerCred
  Msg = {m1, m2}
  MsgMax = 2
  MsgMnb = 1
  GetReqs <- PrivateGet
  SetReqs = {}
  SndReqs <- LiveSnd
  RcvReqs <- LiveRcv
  CallIds = {0, 1}
  MaxWake = 1
SPECIFICATION FairSpec
PROPERTY CallsEnd
CHECK_DEADLOCK FALSE
