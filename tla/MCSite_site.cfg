SPECIFICATION Spec
CONSTANTS
  Wallets = {w1, w2}
  Browsers = {b1, b2}
  XUsers = {x1, x2}
  ChallengeTTL = 1
  SessionTTL = 2
  PkceTTL = 2
  DayTicks = 2
  LooksPerDay = 1
  MaxTick = 3
  MaxNonces = 2
  MaxWaiting = 2
  Tabs = {t1, t2}
  PlanTTL = 0
  Valid = 2
  LastHour = 2
  MaxPlans = 2
  MaxMishaps = 1
  Ledgers <- TheLedgers
  Columns <- Twice
  Outlooks <- Feed
  Owners = {"w1"}
  MaxNow = 6
  MaxDeaths = 2
  Connected = {"w1", "w2"}
  Offers = {"wide", "tight", "tiny"}
  Unaffordable = {"tiny"}
  DayLasts = 2
  LastInstant = 3
  MaxHands = 2
  Readers = {"w1", "w2"}
  TradeIds = {1, 2, 3}
  PageSize = 1
  MaxCalls = 4
  MaxInstant = 3
  MaxTurns = 1
  Markets = {"btc"}
  DeskTTL = 1
  LastSecond = 1
  MaxBuilds = 2
  MaxMoves = 3
INVARIANTS LimitsAreAsAsked DeskIsTheReaders HistoryIsWhole ServedIsTrue OpenedSaysTheSame NothingIsSpentTwice TabsAreRight
CHECK_DEADLOCK FALSE
