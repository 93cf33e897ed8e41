\* Two confirmations of one proposal at the same time.
SPECIFICATION Spec
CONSTANTS
  Requests = {r1, r2, r3}
  None = None
  InFlight = 2
  MaxWet = 1
  MaxCrashes = 0
  Endpoints <- ChatEndpoints
SYMMETRY Symmetry
INVARIANT
  AppliedOnce
