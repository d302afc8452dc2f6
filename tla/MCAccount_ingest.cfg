SPECIFICATION Spec
CONSTANTS
  DayLength = 9
  FirstNow = 15
  LossNum = 1
  LossDen = 2
  NoAmount = NoAmount
  MaxNow = 31
  Legacy = {FALSE}
  Page = 3
  Slack = 1
  FillSorts = {"cloid", "foreign", "liquidation"}
  MaxFills = 3
  TradesUnlinked = FALSE
  MaxFaults = 1
  FirstEquity = 2
  Unrealised <- Flat
  Deposits <- NoDeposits
  Strange = {"none"}
  Buttons = {"link"}
  MaxAhead = 0
  Between = {"admit", "ingest"}
  MaxMoves = 5
INVARIANTS NothingSkipped NewsIsHeard
