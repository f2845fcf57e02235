CONSTANTS
  Client = {c1}
  Room = {r1}
  NoRoom = NoRoom
  NoSid = NoSid
  NoPicture = NoPicture
  MaxGen = 1
  MaxTicks = 1
  EventCap = 4
  MainCap = 7
  QueueCap = 1
  NetCap = 1
  MaxKicks = 1
  Paced = TRUE
SPECIFICATION FairSpec
PROPERTIES JoinCompletes QuitterLeaves RestartShown
