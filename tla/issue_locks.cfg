\* Everything blocked or done and every bound reached: the system waits for a person.
SPECIFICATION Spec
CONSTANTS
  i1 = i1
  i2 = i2
  core = core
  docs = docs
  Issues = {i1, i2}
  Locks = {core, docs}
  Contracts <- MCContracts
  MaxRepairAttempts = 0
  MaxWorkers = 2
  MaxReviewers = 1
  MaxStops = 0
  MaxInterventions = 1
PROPERTY
  LocksAreGranted
CHECK_DEADLOCK FALSE
