SPECIFICATION FairSpec
CONSTANTS
  d1 = d1
  d2 = d2
  Data = {d1, d2}
  CDC_TXRX_EPSIZE = 2
  Uses <- MCUses
INVARIANTS  InConserved SuspendOrWake
PROPERTIES CallReturns Flushed
