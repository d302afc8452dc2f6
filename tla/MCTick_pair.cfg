SPECIFICATION Spec
CONSTANTS
  Coins = {btc, eth}
  Ids = {1, 2}
  MaxOrders = 4
  EntrySize = 1
  Signals = {s1, s2, s3}
  CoinOf <- TwoAndOne
  Sides = {"short"}
  HoldChoices = {FALSE}
  StopChoices = {FALSE}
  CondChoices = {"none"}
  UnpricedChoices <- AllPriced
  AnswersLost = TRUE
  UserSizes = {}
  UserOrders = FALSE
  MaxFaults = 1
INVARIANTS OneLiveIntentPerCoin
