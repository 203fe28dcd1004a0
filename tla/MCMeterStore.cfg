SPECIFICATION Spec
CONSTANTS
  ct1 = ct1
  ct2 = ct2
  gas = gas
  Sensors <- MCSensors
  CtSensors <- MCCtSensors
  Channels <- MCChannels
  MaxChannels = 2
  MaxTime = 1
INVARIANTS TypeOK References SameSensor NoOrphan
PROPERTY RowsKept
