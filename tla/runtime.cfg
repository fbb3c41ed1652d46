SPECIFICATION Spec
CONSTANTS
  Clients = {alice, bob}
  Devices = {press}
  Nobody = Nobody
  MaxStarts = 2
INVARIANTS TypeOK NoOrphans RunningIsComplete OnlyLeftoversCross
PROPERTY StoppedGoesQuiet
CHECK_DEADLOCK FALSE
