\* Both rings with every liberty of the sketch.
CONSTANTS
  SERIAL_BUFFER_SIZE = 3
  b1 = b1
  b2 = b2
  Byte = {b1, b2}
  NoByte = NoByte
  Pins = {0, 4}
  RxDepth = 2
  MaxTx = 4
  MaxRx = 4
  Sketches = {{"late", "mask", "rebegin", "writeClosed", "flush"}}
SPECIFICATION Spec
CONSTRAINT OneWay
SYMMETRY ByteSymmetry
INVARIANTS DriverReleased ReceiveView
PROPERTIES TxIsFifo RxIsFifo
CHECK_DEADLOCK FALSE
