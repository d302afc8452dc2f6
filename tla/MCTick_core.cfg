SPECIFICATION Spec
CONSTANTS
  Coins = {btc}
  Ids = {1, 2}
  MaxOrders = 4
  EntrySize = 2
  Signals = {s1}
  CoinOf <- OneCoin
  Sides = {"long"}
  HoldChoices = {FALSE}
  StopChoices = {TRUE}
  CondChoices = {"none"}
  UnpricedChoices <- AllPriced
  AnswersLost = FALSE
  UserSizes = {}
  UserOrders = FALSE
  MaxFaults = 1
INVARIANTS TypeOK EveryPositionIsAccountedFor OpenIsProtected LedgerAgrees
PROPERTIES NoReentryAfterStop ImplementsCoinClaims
