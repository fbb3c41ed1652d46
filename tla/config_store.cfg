SPECIFICATION Spec
CONSTANTS
  Names = {n1}
  Groups = {g1, g2}
  TagNames = {t1}
  Drivers = {modbus, opcua}
  Requests = {r1}
  Loop = Loop
  None = None
  MaxDevices = 2
  MaxTags = 2
  MaxRows = 2
  MaxRequests = 5
SYMMETRY Symmetry
INVARIANTS TypeOK ImportedRowsStand
PROPERTIES NamesClashOnlyInRaces TagsFitTheirDriver
CHECK_DEADLOCK FALSE
