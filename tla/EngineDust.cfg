CONSTANTS
  u1 = u1
  u2 = u2
  u3 = u3
  bot = bot
  SOL = SOL
  BTC = BTC
  USD = USD
  Users = {u1, u2}
  Markets = {SOL}
  Quote = USD
  Number <- NoNumbers
  DemoUsers = {u1, u2}
  BotUsers = {}
  Seed <- FineSeed
  Prices = {20}
  Quantities <- FineQuantities
  Deposits = {}
  PriceTick = 20
  QtyTick = 10
  Dust <- BaseDust
  MaxOrders = 3
  MaxHeld = 0
SPECIFICATION Spec
SYMMETRY TwoTraders
INVARIANTS
  NothingStranded
