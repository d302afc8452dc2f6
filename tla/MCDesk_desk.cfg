SPECIFICATION Spec
CONSTANTS
  Endpoints <- TwoEndpoints
  PollTicks <- PollEvery
  MaxBackoff = 2
  Payloads = {"x", "y"}
  Cap = 2
  DayLength = 2
  MonthLength = 2
  DiskFills = FALSE
  MaxNow = 3
  MaxMishaps = 1
  Accounts = {"a"}
  StaleAfter = 1
  ExecStaleAfter = 1
  Repeat = 2
  HaltWindow = 1
  HaltCount = 1
  DayTicks = 2
  Changes <- Shapes
  Readings <- Quiet
  MaxHour = 3
  MaxKills = 1
  ErrorAlertAfter = 2
  ExpiryCheck = 1
  WarnBefore = 2
  Lasts = 3
  LastTick = 5
  MaxRestarts = 1
  Leaves = {"stop", "gate"}
  Settings = {1, 2}
  SampleFloor = 1
  Legacy = TRUE
  MaxBoots = 4
  MaxLosses = 1
  Outlooks <- TheOutlooks
  Candles <- TheCandles
  Reports <- TheReports
  StopAt = 1
  BarsInDay = 2
  LastEntry = 3
  LastBar = 4
  Pairs = {"p", "q", "r"}
  Estimates <- TheEstimates
  BaselineTo = 1
  MinBaselineDays = 1
  SustainedDays = 2
  Low = 90
  High = 110
  LastDay = 5
  PollsOn <- ThePolls
  Followed = {"o1", "o2"}
  Published <- ThePublished
  RegimeStarts = {0, 6}
  EnoughEvents = 2
  LastInstant = 7
  MaxPolls = 3
  MaxTrips = 3
  Addresses = {"op", "heir"}
  Zero = "zero"
  Hashes = {"h1", "h2"}
  EmptyHash = "none"
  LastBlock = 3
  MaxRules = 3
  Listed = {"btc", "eth", "sol"}
  SideOf <- TheSides
  CapOf <- TheCaps
  Offered <- TheChoices
  Marks = {1000, 1100}
  FirstMark = 1000
  FirstMandate = 100
  Flows = {10}
  Results <- TheResults
  EntryFee = 4500
  LastPass = 2
  MaxDeeds = 1
INVARIANTS BudgetIsKept AlarmIsAMajority ReadingIsOneFeed SimulatorIsTheDesk RecorderKeepsFaith OwnersHearInTime
PROPERTIES NothingFiresUnheard BootsAnswerForTheDesk AnswersAreFinal
CHECK_DEADLOCK FALSE
