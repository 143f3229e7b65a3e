SPECIFICATION FairSpec
CONSTANTS
  TOP = 4
  TickUs = 4
  MS = 10
  FractUnit = 2
  LongSize = 64
  IntSize = 32
  Latency = 2
  Delays = {0, 2}
INVARIANTS MillisTrue MicrosTrue
PROPERTIES DelayTrue
