SPECIFICATION FairSpec
CONSTANTS
  d1 = d1
  TWI_BUFFER_LENGTH = 2
  BUFFER_LENGTH = 2
  Data = {d1}
  Null = Null
  Buses <- MCBuses
INVARIANTS TypeOK BusTenure 
PROPERTIES ResultTrue MessageHanded 
CHECK_DEADLOCK FALSE
