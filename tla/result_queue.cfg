SPECIFICATION QueueSpec
CONSTANTS
  Press = Press
  Spare = Spare
  Temp = Temp
  Speed = Speed
  Devices = {Press, Spare}
  Tags = {Temp, Speed}
  DeviceTags <- MCDeviceTags
  Consumers = {publisher, lingering}
  Result = Result
  Vacant = Vacant
PROPERTIES ImplementsLatestQueue EntriesAreTaken
