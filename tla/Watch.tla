-------------------------------- MODULE Watch -------------------------------
(***************************************************************************)
(* The watchdog.  A timer runs it: it loads its state file, makes its      *)
(* checks in order on the heartbeats the recorder and the executor leave   *)
(* and on the feed's archive, sends what they decide and saves the file    *)
(* once, at the end.  It may be killed between a message and the save.     *)
(***************************************************************************)
EXTENDS Alerts, Sequences, FiniteSets

CONSTANTS
  Accounts,
  StaleAfter, ExecStaleAfter,   \* when a heartbeat counts as silent
  HaltWindow, HaltCount,        \* DESK_WATCH
  Changes,                      \* the kinds of contract change the feed may make, once
  Readings,                     \* what a run may read of the balance and the feed
  DayTicks,
  MaxHour, MaxKills             \* bounds: the clock, runs killed

ASSUME WatchReadings ==
  Readings \subseteq [creditsLow : BOOLEAN, archiveReads : BOOLEAN, refused : BOOLEAN, outside : BOOLEAN]

VARIABLES
  hour,       \* the time
  recBeat,    \* when the recorder last wrote its heartbeat
  execBeat,   \* exec-heartbeat.json
  halts,      \* each account: whether it is halted, and when it last was
  shape,      \* the feed's last change of contract
  alarms,     \* watchdog-state.json
  heard,      \* what the channel was last sent under each key
  ranAt,      \* when a watchdog run last ended
  kills

watchVars == <<hour, recBeat, execBeat, halts, shape, alarms, heard, ranAt, kills>>

DailyKeys == {"feed-line", "feed-unscored", "feed-sigma", "feed-contract-breaking"}
WatchKeys == {"stale", "credits", "exec-stale", "halt-burst", "exec-halted"} \cup DailyKeys
UTCDay(t) == t \div DayTicks

WatchInit ==
  /\ hour = 1 /\ recBeat = 1
  /\ execBeat = [at |-> Never, halted |-> FALSE, recentHalts |-> 0]
  /\ halts = [a \in Accounts |-> [on |-> FALSE, at |-> Never]]
  /\ shape = [at |-> Never, kind |-> "additive"]
  /\ alarms = [k \in WatchKeys |-> NoRecord]
  /\ heard = [k \in WatchKeys |-> NoRecord]
  /\ ranAt = Never /\ kills = 0

-----------------------------------------------------------------------------
(* The watchdog. *)

\* Never is a day of its own.
Today(t) == t # Never /\ UTCDay(t) = UTCDay(hour)
SpokeToday == Today(alarms["feed-line"].sent)
BreakToday == Today(shape.at) /\ shape.kind = "breaking"

Check(k, firing) == <<[key |-> k, firing |-> firing]>>
When(cond, checks) == IF cond THEN checks ELSE <<>>

\* The checks of one run, in order; the feed's are made once a day, and only if
\* the archive can be read.
Checks(r) ==
  Check("stale", hour - recBeat > StaleAfter)
  \o Check("credits", r.creditsLow)
  \o When(execBeat.at # Never,
          Check("exec-stale", hour - execBeat.at > ExecStaleAfter)
          \o Check("halt-burst", execBeat.recentHalts >= HaltCount)
          \o Check("exec-halted", execBeat.halted))
  \o When(~SpokeToday /\ r.archiveReads,
          Check("feed-line", FALSE)
          \o Check("feed-unscored", r.refused)
          \o When(~r.refused, Check("feed-sigma", r.outside))
          \o Check("feed-contract-breaking", BreakToday))

\* The daily line is sent whatever it says, and its record is the flag.
Applied(k, prev, firing) ==
  IF k = "feed-line" THEN [firing |-> FALSE, sent |-> hour] ELSE ApplyDecision(prev, firing, hour)

\* What the channel has heard once the first n checks are made.
Heard(checks, n) ==
  LET made == [i \in 1..n |-> checks[i].key]
  IN  [k \in WatchKeys |->
         LET at == {i \in 1..n : made[i] = k}
         IN  IF at = {} THEN heard[k] ELSE Told(heard[k], alarms[k], checks[CHOOSE i \in at : TRUE].firing, hour)]

RunEnds(checks) ==
  LET keys == {checks[i].key : i \in DOMAIN checks}
      fired == {checks[i].key : i \in {j \in DOMAIN checks : checks[j].firing}}
  IN  alarms' = [k \in WatchKeys |-> IF k \in keys THEN Applied(k, alarms[k], k \in fired) ELSE alarms[k]]

WatchdogRuns ==
  /\ \E r \in Readings :
       LET checks == Checks(r)
       IN  \/ /\ heard' = Heard(checks, Len(checks)) /\ RunEnds(checks)
              /\ ranAt' = hour /\ UNCHANGED kills
           \* killed after n checks: their messages are out, the file is not written
           \/ /\ kills < MaxKills /\ kills' = kills + 1
              /\ \E n \in 1..Len(checks) : heard' = Heard(checks, n) /\ heard' # heard
              /\ UNCHANGED <<alarms, ranAt>>
  /\ UNCHANGED <<hour, recBeat, execBeat, halts, shape>>

-----------------------------------------------------------------------------
(* What it watches. *)

HourPasses ==
  /\ hour < MaxHour /\ hour' = hour + 1
  /\ UNCHANGED <<recBeat, execBeat, halts, shape, alarms, heard, ranAt, kills>>

RecorderBeats ==
  /\ recBeat' = hour
  /\ UNCHANGED <<hour, execBeat, halts, shape, alarms, heard, ranAt, kills>>

FeedChangesShape ==
  /\ shape.at = Never
  /\ \E kind \in Changes : shape' = [at |-> hour, kind |-> kind]
  /\ UNCHANGED <<hour, recBeat, execBeat, halts, alarms, heard, ranAt, kills>>

OperatorClears ==
  /\ \E a \in Accounts : halts[a].on /\ halts' = [halts EXCEPT ![a].on = FALSE]
  /\ UNCHANGED <<hour, recBeat, execBeat, shape, alarms, heard, ranAt, kills>>

\* distinct accounts whose halt falls inside the window
HaltsInWindow(hs) == Cardinality({a \in Accounts : hs[a].at # Never /\ hs[a].at + HaltWindow >= hour})

\* One loop: an account's tick ends well or halts it; then the heartbeat.
ExecutorLoops ==
  /\ \/ UNCHANGED halts
     \/ \E a \in Accounts : ~halts[a].on /\ halts' = [halts EXCEPT ![a] = [on |-> TRUE, at |-> hour]]
  /\ execBeat' = [at |-> hour, halted |-> \E a \in Accounts : halts'[a].on, recentHalts |-> HaltsInWindow(halts')]
  /\ UNCHANGED <<hour, recBeat, shape, alarms, heard, ranAt, kills>>

WatchNext ==
  \/ WatchdogRuns \/ HourPasses \/ RecorderBeats \/ FeedChangesShape
  \/ OperatorClears \/ ExecutorLoops

WatchSpec == WatchInit /\ [][WatchNext]_watchVars

-----------------------------------------------------------------------------
(* When a watchdog run ends, the channel has heard within the repeat interval
   of whatever it found wrong; and as long as no process was killed between a
   message and its save, what the channel last heard of each key is what the
   run found: an alarm for what is wrong, its end for what is not. *)
NothingFiresUnheard ==
  [][ranAt' # ranAt =>
       \A k \in WatchKeys \ DailyKeys :
          /\ alarms'[k].firing => hour - heard'[k].sent < Repeat
          /\ kills = 0 => heard'[k].firing = alarms'[k].firing]_watchVars

(* A change of the feed's contract that can move the gate is alarmed by the
   end of the first watchdog run of a later day. *)
EveryBreakIsAlarmed ==
  (ranAt # Never /\ shape.kind = "breaking" /\ UTCDay(ranAt) > UTCDay(shape.at) /\ kills = 0) =>
    heard["feed-contract-breaking"].sent >= shape.at
=============================================================================
