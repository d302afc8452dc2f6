SPECIFICATION LiveSpec
CONSTANTS
  Coins = {btc}
  Ids = {1}
  MaxOrders = 4
  EntrySize = 2
  Signals = {s1}
  CoinOf <- OneCoin
  Sides = {"long"}
  HoldChoices = {TRUE, FALSE}
  StopChoices = {TRUE}
  CondChoices = {"none"}
  UnpricedChoices <- AllPriced
  AnswersLost = FALSE
  UserSizes = {}
  UserOrders = FALSE
  MaxFaults = 1
  Comers <- ThoseWhoCome
  MaxMishaps = 1
PROPERTIES NothingLingers EverybodyGetsThrough
CHECK_DEADLOCK FALSE
