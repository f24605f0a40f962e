SPECIFICATION Spec
CONSTANTS
  None = None
  aws = aws
  ssh = ssh
  p1 = p1
  Tripwires = {aws, ssh}
  Paths = {p1}
  PathOf <- SamePath
  SensorOf <- Sensor
  Install = {aws}
  ReplantMax = 1
  MaxIds = 2
  MaxFaults = 2
CHECK_DEADLOCK FALSE
INVARIANTS
  BaitVouched
PROPERTIES
  KeepsUserFiles
  AssignedIsPlanted
  WithdrawnIsRemoved
  LossIsReported
  HealingEnds
  
