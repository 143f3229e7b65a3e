SPECIFICATION Spec
CONSTANTS
  o1 = o1
  o2 = o2
  d1 = d1
  d2 = d2
  Objects = {o1, o2}
  Data = {d1, d2}
  Garbage = Garbage
  None = None
  _SS_MAX_RX_BUFF = 3
SYMMETRY PortSymmetry
INVARIANTS BufferIsQueue OverflowTold FramesWhole
