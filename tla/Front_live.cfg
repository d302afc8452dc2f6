SPECIFICATION Spec
CONSTANTS
  Accounts = {1, 2}
  Members = {2}
  MaxLive = 1
  HoldTime = 1
  Allowlist = {1}
  Limits = {1, 2}
  FileLimits = 2
  Deeds = {"limits", "pin"}
  Failures = {"crash", "venue", "ledger"}
  MaxClock = 1
  MaxMoves = 4
  MaxFailures = 1
PROPERTIES IncumbentsComeBack ReleasedForGood
