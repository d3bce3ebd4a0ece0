\* Two workers that share a message, as many faults as attempts, a crash and
\* a lost message.
SPECIFICATION CrawlFairSpec
CONSTANTS
  Receipts = {r1}
  Producers = {p1}
  Workers = {w1, w2}
  Messages = {m1}
  None = None
  MaxAttempts = 2
  MaxFaults = 2
  MaxCrashes = 1
  MaxLosses = 1
  Prompt = TRUE
INVARIANTS AckedIsSettled QueuedHasSignal
PROPERTIES KeepsTheContract RequestedIsSettled
