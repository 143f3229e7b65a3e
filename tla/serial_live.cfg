\* Progress for a sketch that does not reopen the port, with its interrupts
\* delayed; the RS-485 driver for one that does, with none delayed.
CONSTANTS
  SERIAL_BUFFER_SIZE = 3
  b1 = b1
  Byte = {b1}
  NoByte = NoByte
  Pins = {0, 4, 5}
  RxDepth = 2
  MaxTx = 4
  MaxRx = 1
  Sketches = {{"late"}, {"rebegin"}}
SPECIFICATION FairSpec
INVARIANTS NoLostWakeup DriverCoversFrame
PROPERTIES AllSent
