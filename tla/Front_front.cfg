SPECIFICATION Spec
CONSTANTS
  Accounts = {1, 2}
  Members = {}
  MaxLive = 1
  HoldTime = 1
  Allowlist = {}
  Limits = {2}
  FileLimits = 2
  Deeds = {"join", "link", "post", "invite", "admit"}
  Failures = {"crash", "venue"}
  MaxClock = 2
  MaxMoves = 5
  MaxFailures = 1
INVARIANTS AgentIsTheSealedKey
PROPERTIES TurnsAreKept QueueNeverOverbooks
