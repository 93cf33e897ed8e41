\* Everything blocked or done and every bound reached: the system waits for a person.
SPECIFICATION FairSpec
CONSTANTS
  i1 = i1
  i2 = i2
  core = core
  docs = docs
  Issues = {i1}
  Locks = {core, docs}
  Contracts <- MCContracts
  MaxRepairAttempts = 1
  MaxWorkers = 1
  MaxReviewers = 1
  MaxStops = 1
  MaxInterventions = 1
INVARIANTS
  TypeOK
  BudgetHolds
  BlockStands
  LocksCoverWork
PROPERTY
  ClaimsAreSettled
  LocksComeFree
CHECK_DEADLOCK FALSE
