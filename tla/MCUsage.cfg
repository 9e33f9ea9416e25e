SPECIFICATION FairSpec
CONSTANTS
  o1 = o1
  a1 = a1
  w1 = w1
  Streams = {o1, a1}
  Provider <- MCProvider
  Script <- MCScript
  Writers = {w1}
  Names <- MCNames
  Letters = {"g", "o", "m", "c"}
  Defaults <- MCDefaults
  Updates <- MCUpdates
  NoPrice = 0
INVARIANTS WholeEventsCount IInv
PROPERTIES LookupIsAtomic LockServesAll
