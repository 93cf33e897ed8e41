\* The owner may stop pressing and everything be merged, done or blocked.
SPECIFICATION FairSpec
CONSTANTS
  t1 = t1
  t2 = t2
  Threads = {t1, t2}
  First = t1
  MaxHeads = 2
  MaxOffers = 1
  MaxEvents = 1
  MaxOutside = 3
INVARIANTS
  TypeOK
  MergedAsConfirmed
  OneAttempt
  UpdatesHandledOnce
PROPERTY
  MergeIsRecorded
  ReadinessIsHonest
CHECK_DEADLOCK FALSE
