SPECIFICATION BudgetSpec
CONSTANTS
  Listed = {"btc"}
  SideOf <- Longs
  CapOf <- Forty
  Offered <- TheDefault
  Marks = {1000, 1100}
  FirstMark = 1000
  FirstMandate = 100
  Flows = {10}
  Results <- NoResult
  EntryFee = 450
  LastPass = 2
  MaxDeeds = 1
INVARIANTS StopsFireFirst
CHECK_DEADLOCK FALSE
