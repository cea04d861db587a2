SPECIFICATION Spec
CONSTANTS
  Requests <- MCRequests
  Op <- MCOp
  Existing <- MCExisting
  Waves <- MCWaves
  InScope <- MCInScope
  None <- MCNone
INVARIANT KeysUnique
INVARIANT OneAccountPerEmail
INVARIANT SentCodeWorksOnce
INVARIANT MfaHasSecret
PROPERTY RemovedStays
CHECK_DEADLOCK FALSE
