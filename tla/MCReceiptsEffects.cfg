\* One receipt, of a plain target or of a store whose settings change: the
\* contract, the settings a commit lands under, and the end of a dead run.
SPECIFICATION FairSpec
CONSTANTS
  Receipts = {r1}
  Targets = {plain, store}
  ConnectorTargets = {store}
  StoreTargets = {store}
  Requests = {q1}
  Callers = {a1}
  Configs = {c1, c2}
  Workers = {w1, w2}
  n1 = n1
  Names = {n1}
  NameOf <- SharedName
  NoOne = NoOne
  LeaseLength = 1
  MaxStale = 1
  MaxGeneration = 2
  MaxPeriod = 0
CHECK_DEADLOCK FALSE
INVARIANTS LandsUnderLoadedConfig
PROPERTIES ImplementsProviderEffects OrphanReleased
