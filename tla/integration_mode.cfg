\* Every period over, everything blocked or done: the team waits for new work.
SPECIFICATION Spec
CONSTANTS
  c1 = c1
  c2 = c2
  Children = {c1, c2}
  MaxPeriods = 2
  MaxTroubles = 1
SYMMETRY Symmetric
INVARIANTS
  TypeOK
  DoneIsOnMain
  WorkSurvives
  RecordsMatchBranches
  LandedIsDone
PROPERTY
  MainIsTheOwnersUnlessTurned
CHECK_DEADLOCK FALSE
