SPECIFICATION Spec
CONSTANTS
  v1 = v1
  v2 = v2
  v3 = v3
  bad = bad
  t1 = t1
  t2 = t2
  a = a
  b = b
  Reloaders = {h1}
  Requests = {}
  Monitors = {}
  Providers = {a, b}
  Tokens = {t1, t2}
  Configs <- MCConfigs
  Broken = {bad}
  Limits <- MCLimits
  Members <- MCMembers
  Interval <- MCInterval
  Initial = v1
  MaxGen = 2
  NoOne = NoOne
INVARIANTS ReloadNeverKills
CHECK_DEADLOCK FALSE
