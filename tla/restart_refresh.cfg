SPECIFICATION Spec
CONSTANTS
  Clients = {alice, bob}
  Devices = {press}
  Nobody = Nobody
  MaxStarts = 2
INVARIANT OneRefreshLoop
SYMMETRY CallersAreAlike
CHECK_DEADLOCK FALSE
