SPECIFICATION Spec
CONSTANTS
  Keys = {k1, k2}
  Tags = {k1}
  Pages = {p1}
  Requesters = {p1}
  Loop = Loop
  Gone = Gone
  None = None
  MaxPuts = 2
  MaxLines = 1
  MaxStarts = 1
INVARIANTS TypeOK RowsAreNewest ViewsMissOnlyTheDrained
PROPERTY DrainsEnd
CHECK_DEADLOCK FALSE
