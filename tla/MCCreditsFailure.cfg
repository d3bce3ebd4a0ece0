\* ReachedFailureCharged against what the code does.
SPECIFICATION Spec
CONSTANTS
  c1 = c1
  c2 = c2
  c3 = c3
  k1 = k1
  k2 = k2
  k3 = k3
  ai = ai
  data = data
  star = star
  provider = provider
  NoCall = NoCall
  Calls = {c1}
  Keys = {k1, k2, k3}
  Accounts = {ai, data}
  AccountOf <- Budgets
  AIAccounts = {ai}
  Margin = 9
  Grain = 4
  KeyOf <- OwnKeys
  Controls = {}
  ControlsOf <- NoControls
  Cap <- NoCaps
  Limit = 54
  MaxConcurrency = 1
  Estimate = 18
  Costs = {0, 27}
  Recovery = {}
  BilledFailures = {c1}
  FinalPrices = {}
  References = {r1, r2}
  r1 = r1
  r2 = r2
  AdminDeltas = {}
CHECK_DEADLOCK FALSE
INVARIANT ReachedFailureCharged
