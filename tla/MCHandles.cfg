CONSTANTS
  Objects <- Places
  KindOf <- PlaceKind
  MaxHandles = 3
  Signatures <- Declared
  Arguments <- Passed
SPECIFICATION Spec
INVARIANT TypeOK OwnedOnce ExportsFollowHandle CallVMReleased
PROPERTY EnteredAsDeclared
