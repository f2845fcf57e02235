CONSTANTS
  Tag = {t1}
  Frames = {2, 4, 10}
  AheadMax = 2
  Overcompensation = 2
  LongUpdate = 2
  CriticalUpdate = 4
  PendingLife = 1
  ShareLife = 2
  Hop = 3
  Tolerated = 2
  MaxJump = 1
  NetCap = 1
  Lag = 1
  Lead = 0
  MaxGames = 1
SPECIFICATION FairSpec
INVARIANTS TypeOK CacheFresh NothingInvented
PROPERTIES ToldIsShown Settles Converges
