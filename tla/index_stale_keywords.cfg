\* One embedding configuration, one document, edited once; nobody is killed.
SPECIFICATION Spec
CONSTANTS
  Agents = {a1, a2}
  NDocs = 1
  Headings = {h1}
  Texts = {t1, t2}
  Configs = {e1}
  None = None
  MaxEdits = 1
  MaxCrashes = 0
INVARIANT
  KeywordRowsAreChunks
