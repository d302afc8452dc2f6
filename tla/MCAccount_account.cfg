SPECIFICATION Spec
CONSTANTS
  DayLength = 10
  FirstNow = 7
  LossNum = 1
  LossDen = 2
  NoAmount = NoAmount
  MaxNow = 39
  Legacy = {FALSE, TRUE}
  Page = 3
  Slack = 1
  FillSorts = {"liquidation"}
  MaxFills = 0
  TradesUnlinked = FALSE
  MaxFaults = 1
  FirstEquity = 2
  Unrealised <- WinsAndLosses
  Deposits = {1}
  Strange = {"none", "foreign-order"}
  Buttons = {"link", "clear", "mandate"}
  MaxAhead = 0
  Between = {"admit", "mandate"}
  MaxMoves = 3
PROPERTIES StrictHaltsNeedAnOperator ClearsAreEarned OneBaselineADay RebaseKeepsTheDay
