SPECIFICATION Spec
CONSTANTS
  Requests = {r1, r2, r3}
  None = None
  InFlight = 2
  MaxWet = 1
  MaxCrashes = 1
  Endpoints <- Operations
SYMMETRY Symmetry
INVARIANTS
  TypeOK
  HistoryIsSound
  MirrorsUnlessDirect
  ConsumedBeforeApplied
  LogExplainsPreferences
  RefusedLeavesNoTrace
