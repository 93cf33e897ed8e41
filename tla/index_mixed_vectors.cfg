\* Two agents with different embedding configurations; nobody edits or is killed.
SPECIFICATION Spec
CONSTANTS
  Agents = {a1, a2}
  NDocs = 2
  Headings = {h1}
  Texts = {t1}
  Configs = {e1, e2}
  None = None
  MaxEdits = 0
  MaxCrashes = 0
INVARIANT
  VectorsMatchMeta
