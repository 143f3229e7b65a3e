SPECIFICATION ToneFairSpec
CONSTANTS
  Pins = {p1, p2}
  Half = 4
  None = None
  Counts = {0, 1, 3, 4, 6}
INVARIANTS SilentPins OwnerSounds
PROPERTIES DurationTrue
