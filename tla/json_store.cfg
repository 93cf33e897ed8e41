\* Four calls on two projects, three at once, one crash.
SPECIFICATION Spec
CONSTANTS
  Calls = {c1, c2, c3, c4}
  Keys = {p1, p2}
  Torn = Torn
  Mixed = Mixed
  InFlight = 3
  MaxCrashes = 1
SYMMETRY Symmetry
INVARIANTS
  TypeOK
  LostOnlyByOverlap
PROPERTY
  TornForGood
  AtomicUntilOverlap
