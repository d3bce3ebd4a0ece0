\* Three calls of two accounts under two caps, two of them with one key: crashes
\* and stalls anywhere, expiry, reconciliation and a debit; upkeep is fair.
SPECIFICATION FairSpec
CONSTANTS
  c1 = c1
  c2 = c2
  c3 = c3
  k1 = k1
  k2 = k2
  k3 = k3
  ai = ai
  data = data
  star = star
  provider = provider
  NoCall = NoCall
  Calls = {c1, c2, c3}
  Keys = {k1, k2, k3}
  Accounts = {ai, data}
  AccountOf <- Budgets
  AIAccounts = {ai}
  Margin = 9
  Grain = 4
  KeyOf <- SharedKey
  Controls = {star, provider}
  ControlsOf <- CappedControls
  Cap <- TightCaps
  Limit = 54
  MaxConcurrency = 1
  Estimate = 18
  Costs = {9}
  Recovery = {c3}
  BilledFailures = {c1, c3}
  FinalPrices = {c1}
  References = {r1}
  r1 = r1
  r2 = r2
  AdminDeltas <- Debit
CHECK_DEADLOCK FALSE
INVARIANTS TypeOK BalanceIsLedger InFlightBound SentIsCharged WithinCaps KeySentOnce
PROPERTIES AdmittedWithinLimit ReservationsEnd
