SPECIFICATION FairSpec
CONSTANTS
  v1 = v1
  v2 = v2
  v3 = v3
  bad = bad
  t1 = t1
  t2 = t2
  a = a
  b = b
  Reloaders = {h1, h2}
  Requests = {}
  Monitors = {m1}
  Providers = {a}
  Tokens = {t1, t2}
  Configs <- MCConfigs
  Broken = {bad}
  Limits <- MCLimits
  Members <- MCFewMembers
  Interval <- MCInterval
  Initial = v1
  MaxGen = 3
  NoOne = NoOne
INVARIANTS NewestWins LiveWatched NoOrphanChecker HealthTruthful
PROPERTIES NeverBack SupersededLoopsEnd
CHECK_DEADLOCK FALSE
