\* One client: parse the brief, then change the count in Settings.
SPECIFICATION Spec
CONSTANTS
  Requests = {r1, r2, r3}
  None = None
  InFlight = 1
  MaxWet = 2
  MaxCrashes = 0
  Endpoints <- CountEndpoints
SYMMETRY Symmetry
INVARIANT
  RowsWithinCount
