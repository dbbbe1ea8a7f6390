\* Two completions whose feedback is written at the same time.
SPECIFICATION Spec
CONSTANTS
  Tasks = {t1, t2}
  Viewers = {v}
  Contexts = {1}
  Bytes = {1}
  MaxRestarts = 1
  HistoryLimit = 1
  None = None
CHECK_DEADLOCK FALSE
INVARIANTS
  PersistedIsReloaded
