SPECIFICATION Spec
CONSTANTS
  Names = {"x", "y"}
  Numbers = {"1", "2", "huge"}
  Huge = {"huge"}
  Value <- MCValue
  Sources <- MCSources
INVARIANTS TypeOK RoundTrip NothingLost NoNull
PROPERTIES Progress
