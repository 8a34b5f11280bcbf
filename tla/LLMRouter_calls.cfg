SPECIFICATION Spec
CONSTANTS
  freeA = freeA
  freeB = freeB
  strong = strong
  c1 = c1
  c2 = c2
  Callers = {c1, c2}
  Weights <- MCWeights
  GpuAvailable = FALSE
  Provider = {freeA, freeB, strong}
  Paid = {strong}
  Providers <- MCProviders
  Cap = 1
  MaxCost = 1
  MaxRows = 3
  MaxDays = 1
INVARIANTS
  LedgerIsSound
  PauseOnlyOnQuota
PROPERTIES
  PanelAccountsForTotal
  CallsEnd
