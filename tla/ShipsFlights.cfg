CONSTANTS
  Player = {p1, p2}
  Ships = 3
  NoShip = NoShip
  Locations = 2
  DockTime = 1
  JumpTime = 2
  RespawnTime = 2
  GameTime = 2
  PauseTime = 2
  MaxActs = 1
SPECIFICATION FairSpec
INVARIANTS TypeOK OneCopy OwnedShipFlies
PROPERTIES StaysDocked KeepsItsShip ShipComesBack
