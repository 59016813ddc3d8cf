CONSTANTS
  VMs = {v1}
  NoVM = NoVM
  Names <- MCNames
  PrintName <- NamePrint
  Data = {unit}
  Unit = unit
  ErrorText = error
  AllocMayFail = TRUE
  MaxEnvs = 3
  MaxFrames = 3
  MaxPrints = 1
SPECIFICATION Spec
INVARIANT TypeOK
PROPERTY ImplementsSession
\* The bound MaxEnvs stops the machine, nothing else does.
CHECK_DEADLOCK FALSE
