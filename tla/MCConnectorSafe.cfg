\* Two workers on one source, through crashes, changes and a new period.
SPECIFICATION Spec
CONSTANTS
  Sources = {s1}
  Collected = {s1}
  Workers = {w1, w2}
  Configs = {c1, c2}
  NoOne = NoOne
  MaxPeriod = 0
  MaxCrashes = 1
  Prompt = FALSE
SYMMETRY Symmetry
INVARIANTS JobsAgree OneReader
PROPERTIES SyncedByHolder
