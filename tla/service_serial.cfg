\* One client at a time, over crashes.
SPECIFICATION Spec
CONSTANTS
  Requests = {r1, r2, r3}
  None = None
  InFlight = 1
  MaxWet = 2
  MaxCrashes = 2
  Endpoints <- Operations
SYMMETRY Symmetry
INVARIANTS
  AppliedOnce
  RowsExceedOnlyByCountEdit
  VersionsAreExplained
PROPERTY
  KeepsHistory
