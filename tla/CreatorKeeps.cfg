SPECIFICATION Spec
CONSTANTS
  None = None
  Posts = {p1}
  Txs = {t1}
  Prunes = {r1}
  Root = p1
  Cap = 3
  Limit = 2
  PruneLimit = 1
  ScanLimit = 2
  Expiry = 1
  MaxHeight = 3
  Target <- MCTarget
  Verdicts <- MCVerdicts
INVARIANTS
  TemplateSound
PROPERTIES
  EntriesKept
  RejectionsEnd
  TemplateComes
CHECK_DEADLOCK FALSE
