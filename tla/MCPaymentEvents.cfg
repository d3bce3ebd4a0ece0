\* Two attempts, an older session, two deliveries at once.
SPECIFICATION Spec
CONSTANTS
  a1 = 1
  a2 = 2
  legacy = 0
  h1 = h1
  h2 = h2
  NoSession = NoSession
  Attempts = {1, 2}
  Legacies = {0}
  Renewing = {2}
  MaxVersion <- Versions
  MaxPending = 2
  MaxAttempts = 2
  MaxUses = 1
  Handlers = {h1, h2}
SYMMETRY Symmetry
CHECK_DEADLOCK FALSE
INVARIANTS TypeOK OnePurchase DiscountsWithinCap AssignmentFollows Reconciled
PROPERTIES RecordNeverOlder
