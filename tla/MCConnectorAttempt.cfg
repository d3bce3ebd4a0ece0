\* One worker, a crash anywhere, a new billing period: every due source is attempted.
SPECIFICATION FairSpec
CONSTANTS
  Sources = {s1}
  Collected = {s1}
  Workers = {w1}
  Configs = {c1, c2}
  NoOne = NoOne
  MaxPeriod = 1
  MaxCrashes = 1
  Prompt = TRUE
PROPERTIES DueIsAttempted
