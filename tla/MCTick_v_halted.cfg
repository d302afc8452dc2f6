SPECIFICATION Spec
CONSTANTS
  Coins = {btc}
  Ids = {1}
  MaxOrders = 4
  EntrySize = 1
  Signals = {s1}
  CoinOf <- OneCoin
  Sides = {"long"}
  HoldChoices = {FALSE}
  StopChoices = {TRUE}
  CondChoices = {"none", "daily-loss"}
  UnpricedChoices <- AllPriced
  AnswersLost = FALSE
  UserSizes = {}
  UserOrders = FALSE
  MaxFaults = 0
PROPERTIES HaltedNeverEnters
