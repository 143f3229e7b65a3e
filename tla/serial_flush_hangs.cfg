\* flush() after write(), the simplest sketch.
CONSTANTS
  SERIAL_BUFFER_SIZE = 3
  b1 = b1
  Byte = {b1}
  NoByte = NoByte
  Pins = {0}
  RxDepth = 2
  MaxTx = 2
  MaxRx = 0
  Sketches = {{"flush"}}
SPECIFICATION FairSpec
PROPERTIES FlushReturns
CHECK_DEADLOCK FALSE
