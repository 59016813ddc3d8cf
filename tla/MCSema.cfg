CONSTANTS
  Globals = {"x", "y"}
  Declared <- MCDeclared
  Programs <- MCPrograms
  Repeated <- MCRepeated
SPECIFICATION Spec
INVARIANTS TypeOK Reported Sound AssignmentsCompose TermsComeBack
PROPERTIES AcceptedStays
CHECK_DEADLOCK FALSE
