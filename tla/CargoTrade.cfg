CONSTANTS
  Player = {p1}
  Planet = {a, b}
  NoPlanet = NoPlanet
  Goods = {"ore"}
  NoQuest = NoQuest
  Sells = 2
  Buys = 1
  CargoSells = 2
  Reward = 1
  Fine = 1
  Stock = 1
  MaxSlot = 1
  MaxGoods = 2
  MaxCount = 2
  MaxMoney = 1
  MaxQuests = 2
SPECIFICATION Spec
SYMMETRY Symm
INVARIANT TypeOK
INVARIANT StacksApart
INVARIANT OneCargoPerQuest
PROPERTY GoodsKept
PROPERTY TradesBalance
