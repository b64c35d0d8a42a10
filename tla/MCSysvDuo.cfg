\* One slot that two queue objects use in turn; seq is 0 or 1 and wraps.
CONSTANTS
  Obj = {o1, o2}
  NULL = NULL
  Key = {private}
  IPC_PRIVATE = private
  IPCMNI = 1
  INT_MAX = 1
  USHRT_MAX = 3
  MsgMni = 1
  Task = {t1, t2}
  NoTask = NoTask
  Cred <- PeerCred
  Msg = {m1, m2}
  MsgMax = 2
  MsgMnb = 2
  GetReqs <- PrivateGet
  SetReqs <- DuoSet
  SndReqs <- DuoSnd
  RcvReqs <- DuoRcv
  CallIds = {0, 1}
  MaxWake = 2
SPECIFICATION Spec
SYMMETRY Symmetry
INVARIANTS
  SysvTypeOK
  ReceiversListed
  SendersListed
  RcvSleepJustified
  SndSleepJustified
  MessagesOwned
  SemHeld
PROPERTY ReturnedRight
CHECK_DEADLOCK FALSE
