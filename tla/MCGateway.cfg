SPECIFICATION FairSpec
CONSTANTS
  Requests = {q1, q2, q3}
  Tokens = {t1}
  Providers = {"copilot", "anthropic"}
  Group <- MCGroup
  OAuth = {"copilot"}
  Count = 1
  Window = 1
  MaxTime = 2
  MaxGen = 2
  NoOne = NoOne
INVARIANTS QuotaPerReload IInv
PROPERTY OthersGoOn
\* Every request is answered once and the clock and the reloads are bounded.
CHECK_DEADLOCK FALSE
