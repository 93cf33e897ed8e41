\* A pull request turned to main between the look at its base and the merge.
SPECIFICATION Spec
CONSTANTS
  c1 = c1
  c2 = c2
  Children = {c1, c2}
  MaxPeriods = 2
  MaxTroubles = 1
SYMMETRY Symmetric
PROPERTY
  MainIsTheOwners
CHECK_DEADLOCK FALSE
