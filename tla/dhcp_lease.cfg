SPECIFICATION FairSpec
CONSTANTS
  Word = 16
  Second = 2
  Timeout = 1
  ResponseTimeout = 0
  Gap = 2
  DEFAULT_LEASE = 5
  None = None
  s1 = s1
  s2 = s2
  Networks <- MCNetworks
INVARIANTS AddressGranted LeaseHeld
PROPERTIES KeepsAsking
