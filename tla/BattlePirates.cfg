CONSTANTS
  Player = {p1, p2}
  ShipId = {s1, s2}
  RocketId = {r1}
  Mineral = {m1}
  Turret = {rack}
  Rack = rack
  None = None
  PlayerHp = 1
  PirateHp = 2
  HomeHp = 1
  Shot = 1
  StarHit = 1
  Heal = 2
  WreckBlast = 1
  RocketBlast = 2
  Cooldown = 2
  Lifetime = 1
  DecayTime = 1
  BlastTime = 2
  MaxMinerals = 1
  Penalty = 1
  MaxMoney = 1
SPECIFICATION Spec
SYMMETRY Symmetry
INVARIANTS TypeOK OwnerKnows GoodsOnce TurretInStep
PROPERTIES EachPirateOnce DeadDoNotShoot
