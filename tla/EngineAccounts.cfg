CONSTANTS
  u1 = u1
  u2 = u2
  u3 = u3
  bot = bot
  SOL = SOL
  BTC = BTC
  USD = USD
  Users = {u1, u2}
  Markets = {SOL, BTC}
  Quote = USD
  Number <- DemoNumbers
  DemoUsers = {u1}
  BotUsers = {}
  Seed <- AccountSeed
  Prices = {20}
  Quantities = {1}
  Deposits = {20}
  PriceTick = 20
  QtyTick = 1
  Dust <- NoDust
  MaxOrders = 2
  MaxHeld = 21
SPECIFICATION Spec
SYMMETRY TwoMarkets
INVARIANTS
  LocksCoverBook
PROPERTIES
  NewAccountsAreFresh
