SPECIFICATION FairSpec
CONSTANTS
  p1 = p1
  p2 = p2
  p3 = p3
  p4 = p4
  p5 = p5
  p6 = p6
  Requests = {r1}
  Providers <- MCProviders
  Groups <- MCGroups
  Built <- MCBuilt
  Keyed = {p1, p4}
  OAuth = {p2}
  Signing = {p5, p6}
  Statuses <- MCStatuses
  MaxChunks = 2
  Unknown = Unknown
  Yai = Yai
  Client = Client
  NoCred = NoCred
INVARIANTS InOrderAfterFailure IInv
PROPERTIES ImplementsFailover LeavingEnds HeadersInTime
CHECK_DEADLOCK FALSE
