CONSTANTS
  VMs = {v1, v2}
  NoVM = NoVM
  Names <- OneName
  PrintName <- NamePrint
  Data = {unit}
  Unit = unit
  ErrorText = error
  AllocMayFail = FALSE
  MaxEnvs = 4
  MaxFrames = 3
  MaxPrints = 1
SPECIFICATION Spec
INVARIANTS SinkFollowsCall NoEscape Isolation
PROPERTIES EarlierMeaningIsStable ImplementsSession
\* The bound MaxEnvs stops the machine, nothing else does.
CHECK_DEADLOCK FALSE
