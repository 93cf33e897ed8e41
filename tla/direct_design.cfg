\* One client: parse the brief, then generate a design.
SPECIFICATION Spec
CONSTANTS
  Requests = {r1, r2, r3}
  None = None
  InFlight = 1
  MaxWet = 2
  MaxCrashes = 0
  Endpoints <- DesignEndpoints
SYMMETRY Symmetry
INVARIANT
  EveryGenerationIsAVersion
