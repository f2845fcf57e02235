CONSTANTS
  Client = {c1, c2}
  Room = {r1, r2}
  NoRoom = NoRoom
  NoSid = NoSid
  NoPicture = NoPicture
  MaxGen = 1
  MaxTicks = 0
  EventCap = 1
  MainCap = 1
  QueueCap = 1
  NetCap = 1
  MaxKicks = 0
  Paced = FALSE
SPECIFICATION Spec
INVARIANT OwnRoomOnly
PROPERTY PictureForward
SYMMETRY Symmetry
