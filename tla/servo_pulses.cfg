SPECIFICATION ServoFairSpec
CONSTANTS
  ServoPins = {p1, p2}
  SERVOS_PER_TIMER = 2
  Pulses = {0, 9}
  MIN_PULSE_WIDTH = 2
  DEFAULT_PULSE_WIDTH = 2
  MAX_PULSE_WIDTH = 3
  REFRESH_INTERVAL = 6
  Margin = 2
  TimerSize = 32
  ServoLatency = 1
  Sketches <- MCSketches
INVARIANTS OneAtATime
PROPERTIES PulsesTrue Pulsed
