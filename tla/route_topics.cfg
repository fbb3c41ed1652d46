CONSTANTS
  d1 = d1
  m1 = m1
  m2 = m2
  Macs = {m1, m2}
  Places = {"line"}
  UnknownMac = "Unknown MAC"
  MaxMoves = 1
  Devices = {d1}
  AllDevices = AllDevices
  NoMac = NoMac
  NoTopic = NoTopic
  NoRow = NoRow
  NoForm = NoForm
  Loop = Loop
  Button = Button
  Choices <- MCChoices
  MaxRoutes = 1
  MaxEdits = 2
SPECIFICATION MCSpec
INVARIANTS TypeOK EditsAreLostOnlyToOverlap LoopDiesOnlyOfEditsOrErrors ForeignTopicsComeFromForms
PROPERTIES DeletedStaysDeleted TopicsConverge
CHECK_DEADLOCK FALSE
