CONSTANTS
  u1 = u1
  u2 = u2
  u3 = u3
  bot = bot
  SOL = SOL
  BTC = BTC
  USD = USD
  Users = {u1, u2}
  Markets = {SOL}
  Quote = USD
  Number <- NoNumbers
  DemoUsers = {u1, u2}
  BotUsers = {}
  Seed <- TradingSeed
  Prices <- ExactPrices
  Quantities = {1, 2}
  Deposits = {}
  PriceTick = 20
  QtyTick = 1
  Dust <- NoDust
  MaxOrders = 3
  MaxHeld = 0
SPECIFICATION Spec
SYMMETRY TwoTraders
PROPERTIES
  CancelReportsRealQuantities
