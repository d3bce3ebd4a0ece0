\* Three requests for two reports, two batches over two reviews, two periods.
SPECIFICATION Spec
CONSTANTS
  q1 = q1
  q2 = q2
  q3 = q3
  k1 = k1
  k2 = k2
  x = x
  y = y
  NoRequest = NoRequest
  Requests = {q1, q2, q3}
  Keys = {k1, k2}
  KeyOf <- OneKey
  ReportOf <- Asked
  Limit <- Limits
  MaxPeriod = 1
  Reviews = {1, 2}
  Rated = {1}
  BatchSize = 2
  Batches = {b1, b2}
SYMMETRY Symmetry
CHECK_DEADLOCK FALSE
INVARIANTS CountersAgree PaidOnce
