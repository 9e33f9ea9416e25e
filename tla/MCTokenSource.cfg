SPECIFICATION FairSpec
CONSTANTS
  Callers = {c1, c2}
  NoCaller = NoCaller
  Lifetimes <- MCLifetimes
  Second = 2
  MaxInt = 7
  Margin = 2
  Timeout = 1
  StampAtResponse = TRUE
  MaxTime = 5
INVARIANTS CachedTokenLives IInv
PROPERTIES ImplementsCache EveryCallReturns
