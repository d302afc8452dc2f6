SPECIFICATION Spec
CONSTANTS
  Coins = {btc}
  Ids = {1}
  MaxOrders = 4
  EntrySize = 2
  Signals = {s1}
  CoinOf <- OneCoin
  Sides = {"long"}
  HoldChoices = {FALSE}
  StopChoices = {TRUE}
  CondChoices = {"none", "daily-loss", "operator"}
  UnpricedChoices <- AllPriced
  AnswersLost = FALSE
  UserSizes <- HandSizes
  UserOrders = TRUE
  MaxFaults = 0
INVARIANTS StrangersStopTheAccount BookIsWhatTheRowsAsk
PROPERTIES HandOrdersStay
