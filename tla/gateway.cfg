SPECIFICATION Spec
CONSTANTS
  Press = Press
  Temp = Temp
  Speed = Speed
  Devices = {Press}
  Tags = {Temp, Speed}
  DeviceTags <- MCDeviceTags
  GroupOf <- MCGroupOf
  Result = Result
  StaleTimeout = 2
  StatusInterval = 1
INVARIANTS TypeOK SettledStatusIsLatest OnlyLiveDataIsPublished OfflineIsAnnounced RuntimeTagsShowOffline
PROPERTIES SilenceIsNoticed OfflineIsEventuallyHeard
