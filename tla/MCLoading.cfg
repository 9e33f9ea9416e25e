SPECIFICATION Spec
CONSTANTS
  t1 = t1
  t2 = t2
  a = a
  b = b
  k1 = k1
  k2 = k2
  prod = prod
  work = work
  Values = {k1, k2}
  None = None
  Profiles = {prod, work}
  Default = prod
  Disks <- MCDisks
  NoFile = NoFile
  Environments <- MCEnvironments
  Settings <- MCSettings
  Requests <- MCRequests
  Tokens = {t1, t2}
  Names = {a, b}
  Files <- MCFiles
  MaxInt = 31
  Length <- MCLength
  Unlimited = Unlimited
INVARIANTS TokensAsWritten ProvidersAsWritten CredentialsRight SignaturesVerify
CHECK_DEADLOCK FALSE
