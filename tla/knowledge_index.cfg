\* Two agents with two embedding configurations, two documents, one edit, one kill.
SPECIFICATION FairSpec
CONSTANTS
  Agents = {a1, a2}
  NDocs = 2
  Headings = {h1}
  Texts = {t1, t2}
  Configs = {e1, e2}
  None = None
  MaxEdits = 1
  MaxCrashes = 1
INVARIANTS
  TypeOK
  OneWriter
  ChunksAreOfTheChecksum
  RefreshCatchesUp
  RebuildIsUniform
PROPERTIES
  OnlyHolderWrites
  EveryoneEnds
