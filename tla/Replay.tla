------------------------------- MODULE Replay -------------------------------
(***************************************************************************)
(* The simulator the desk's constants are chosen by.  It reads a finished  *)
(* archive of polls and candles in two passes: first every moment an       *)
(* outlook was tradeable and every moment it left the feed, then one walk  *)
(* over those moments, each replayed forward to its exit.  Beside it the   *)
(* desk lives through the same archive one bar at a time, knowing only     *)
(* what has happened, and the two must have done the same trades, but for  *)
(* two rules of the desk's the passes do not have: it refuses a forecast   *)
(* older than its own exit, and of a coin's outlooks it takes the          *)
(* strongest where the passes take the one the feed names first.           *)
(*                                                                         *)
(* A bar is its candle, then the anchors of the outlooks that end in it,   *)
(* then its poll: what happens inside one bar happens in that order.       *)
(***************************************************************************)
EXTENDS Integers, Sequences, FiniteSets, FiniteSetsExt

CONSTANTS
  Outlooks,  \* a sequence of [coin, side, target, anchor]: the feed's order within a poll;
             \* anchor is the bar an outlook's own horizon falls in, whoever entered when
  Candles,    \* candles from their open: [lo, hi, close], all moves
  Reports,  \* what a poll may say of the outlooks, and how strongly: "absent", "live", "tradeable",
             \* or "repeated": tradeable still, by the forecast the poll before it had
  StopAt,    \* the stop's distance from the price it is planned on
  BarsInDay, LastEntry, LastBar \* bounds; no entry after LastEntry (--until)

Words == {"absent", "live", "tradeable", "repeated"}
ASSUME OutlooksAssumption ==
  Outlooks \in Seq([coin : STRING, side : {"long", "short"}, target : Int, anchor : Nat])
ASSUME ArchiveAssumption ==
  /\ Candles \subseteq [lo : Int, hi : Int, close : Int]
  /\ Reports \subseteq [1..Len(Outlooks) -> [says : Words, sigma : Nat]]
ASSUME WalkAssumption == StopAt \in Nat /\ BarsInDay \in Nat \ {0} /\ LastEntry \in Nat /\ LastBar \in Nat

VARIABLES
  start,  \* the hour of the day the archive begins at
  bars,   \* the candles: bar k opens where bar k - 1 closed
  feed,   \* the polls: poll k is taken while bar k is open
  book,   \* what the desk holds, by coin
  did,    \* the trades the desk has finished
  spent,  \* <<coin, side, day>> a stop has spent
  waited, \* the desk once refused a forecast older than its own exit
  ranked  \* and once took a stronger outlook than the one of its coin the feed named first

replayVars == <<start, bars, feed, book, did, spent, waited, ranked>>

Opening == 10 \* the first price
Nothing == [outlook |-> 0]
Ids == 1..Len(Outlooks)
Coins == {Outlooks[i].coin : i \in Ids}
OpenOf(candles, k) == IF k = 1 THEN Opening ELSE candles[k - 1].close
DayOfBar(k) == (k + start) \div BarsInDay

-----------------------------------------------------------------------------
(* One trade, from its plan to its exit. *)

\* Planned on the close of the bar the poll was taken in, filled at the next
\* bar's open; refused when the fill is at or past the target already.
MarkPx(candles, k) == candles[k].close
FillPx(candles, k) == OpenOf(candles, k + 1)
IsAhead(i, px) == IF Outlooks[i].side = "long" THEN Outlooks[i].target > px ELSE Outlooks[i].target < px
StopFrom(i, px) == IF Outlooks[i].side = "long" THEN px - StopAt ELSE px + StopAt
Plan(i, k, mark, fill) == [outlook |-> i, at |-> k, fill |-> fill, stop |-> StopFrom(i, mark)]

HitsTarget(i, b) == IF Outlooks[i].side = "long" THEN b.hi >= Outlooks[i].target ELSE b.lo <= Outlooks[i].target
HitsStop(i, stop, b) == IF Outlooks[i].side = "long" THEN b.lo <= stop ELSE b.hi >= stop

\* The first bar of a path that touches a level; a tie goes to the stop.
Touch(i, stop, b) == IF HitsStop(i, stop, b) THEN "stop" ELSE IF HitsTarget(i, b) THEN "target" ELSE "none"
ReplayPath(i, stop, path) ==
  LET touched == {n \in DOMAIN path : Touch(i, stop, path[n]) # "none"}
      first == CHOOSE n \in touched : \A m \in touched : n <= m
  IN  IF touched = {} THEN [reason |-> "horizon", after |-> Len(path)]
      ELSE [reason |-> Touch(i, stop, path[first]), after |-> first]

\* The stored summary: the worst price of the path, up to and including the
\* first bar that touches the target.
Worse(i, a, b) == IF (IF Outlooks[i].side = "long" THEN a < b ELSE a > b) THEN a ELSE b
Adverse(i, b) == IF Outlooks[i].side = "long" THEN b.lo ELSE b.hi
ToTarget(i, path) ==
  LET hits == {n \in DOMAIN path : HitsTarget(i, path[n])}
  IN  {n \in DOMAIN path : \A m \in hits : n <= m}
MaeToTarget(i, path) ==
  LET mae[n \in DOMAIN path] == IF n = 1 THEN Adverse(i, path[1]) ELSE Worse(i, mae[n - 1], Adverse(i, path[n]))
  IN  mae[Max(ToTarget(i, path))]
StopWouldFire(i, stop, mae) == IF Outlooks[i].side = "long" THEN mae <= stop ELSE mae >= stop

-----------------------------------------------------------------------------
(* The simulator. *)

\* An outlook is offered for as long as it is tradeable and its anchor is ahead.
IsTradeable(report) == report.says \in {"tradeable", "repeated"}
IsOffered(poll, i, k) == IsTradeable(poll[i]) /\ k < Outlooks[i].anchor
IsLive(polls, k, i) == polls[k][i].says # "absent"

\* First pass: when each outlook left the feed, and every chance to enter.
Retirements(polls, i) == {k \in 2..Len(polls) : IsLive(polls, k - 1, i) /\ ~IsLive(polls, k, i)}
IsChance(polls, i, k) == k <= LastEntry /\ IsOffered(polls[k], i, k)

Earliest(S) == CHOOSE k \in S : \A j \in S : k <= j

\* The replay of a chance, or Nothing when there is no bar to fill it in or the
\* price has already walked to the target.
Simulate(candles, polls, i, k) ==
  IF k >= Len(candles) \/ ~IsAhead(i, FillPx(candles, k)) THEN Nothing
  ELSE LET retired == {r \in Retirements(polls, i) : r > k}
           anchor == Outlooks[i].anchor
           left == retired # {} /\ Earliest(retired) < anchor
           ends == IF left THEN Earliest(retired) ELSE anchor
           plan == Plan(i, k, MarkPx(candles, k), FillPx(candles, k))
           path == SubSeq(candles, k + 1, IF ends < Len(candles) THEN ends ELSE Len(candles))
           exit == ReplayPath(i, plan.stop, path)
       IN  [plan |-> plan, outlook |-> i, closes |-> k + exit.after,
            reason |-> IF exit.reason # "horizon" THEN exit.reason
                       ELSE IF left THEN "retired" ELSE "horizon",
            resolved |-> exit.reason # "horizon" \/ ends <= Len(candles)]

\* Second pass: a coin is held until its trade closes, and a stop spends the
\* coin and side until the day rolls.
EndOfDay(k) == (DayOfBar(k) + 1) * BarsInDay - 1 - start
Refused_SameOutlook(trades, i, k) ==
  \/ \E t \in trades : t.outlook = i /\ k <= t.closes
  \/ \E t \in trades :
       t.reason = "stop" /\ Outlooks[t.outlook] = Outlooks[i] /\ k <= EndOfDay(t.closes)
Refused(trades, i, k) ==
  \/ \E t \in trades : Outlooks[t.outlook].coin = Outlooks[i].coin /\ k <= t.closes
  \/ \E t \in trades :
       /\ t.reason = "stop" /\ k <= EndOfDay(t.closes)
       /\ Outlooks[t.outlook].coin = Outlooks[i].coin /\ Outlooks[t.outlook].side = Outlooks[i].side

\* Chances are walked poll by poll, and within a poll in the feed's order.
Considers(candles, polls, trades, i, k) ==
  LET trade == Simulate(candles, polls, i, k)
  IN  IF ~IsChance(polls, i, k) \/ Refused(trades, i, k) \/ trade = Nothing THEN trades ELSE trades \cup {trade}
AtPoll(candles, polls, trades, k) ==
  LET upTo[i \in 0..Len(Outlooks)] == IF i = 0 THEN trades ELSE Considers(candles, polls, upTo[i - 1], i, k)
  IN  upTo[Len(Outlooks)]
Walked(candles, polls, last) ==
  LET walked[k \in 0..last] == IF k = 0 THEN {} ELSE AtPoll(candles, polls, walked[k - 1], k)
  IN  walked[last]
Simulated == Walked(bars, feed, Len(feed))

-----------------------------------------------------------------------------
(* What is reported of the trades found.  A trade is open from the poll it was
   taken on until the bar it exits in. *)

ExitPx(t) == CASE t.reason = "stop" -> t.plan.stop
               [] t.reason = "target" -> Outlooks[t.outlook].target
               [] OTHER -> bars[t.closes].close
PriceRet(t) == IF Outlooks[t.outlook].side = "long" THEN ExitPx(t) - t.plan.fill ELSE t.plan.fill - ExitPx(t)
PriceOf(trades) == MapThenSumSet(PriceRet, trades)
OpenAt(trades, k) == {t \in trades : t.plan.at <= k /\ k < t.closes}

\* How many are open at once, at most: closes count before opens.
Occupancy(trades) == Max({0} \cup {Cardinality(OpenAt(trades, k)) : k \in DOMAIN bars})

\* The budget: a trade that finds the book full is lost.  Trades of one poll are
\* taken in the feed's order.
Earlier(t, u) == t.plan.at < u.plan.at \/ (t.plan.at = u.plan.at /\ t.outlook < u.outlook)
LastOpened(trades) == CHOOSE t \in trades : \A u \in trades \ {t} : Earlier(u, t)
TakesRoom(maxOpen, run, t) ==
  LET running == {c \in run.kept : c.closes > t.plan.at}
  IN  IF Cardinality(running) >= maxOpen THEN [run EXCEPT !.refused = @ + 1] ELSE [run EXCEPT !.kept = @ \cup {t}]
CapConcurrency(trades, maxOpen) ==
  LET run[S \in SUBSET trades] ==
        IF S = {} THEN [kept |-> {}, refused |-> 0]
        ELSE TakesRoom(maxOpen, run[S \ {LastOpened(S)}], LastOpened(S))
  IN  run[trades]

\* The daily loss cap, walked over the bars: a day opens on the equity it finds,
\* entries are refused once it has lost the cap, and exits go on.  Equity counts
\* open trades at the worst price of their bar.
Stake == 20    \* the mandate, in ticks of price
CapShare == 10 \* a day may lose a tenth
MarkAt(t, k) == IF k <= t.plan.at THEN 0
                ELSE IF Outlooks[t.outlook].side = "long" THEN bars[k].lo - t.plan.fill ELSE t.plan.fill - bars[k].hi
MarksOf(trades, k) == MapThenSumSet(LAMBDA t : MarkAt(t, k), trades)
OverTheCap(equity, openEquity) == openEquity > 0 /\ CapShare * (openEquity - equity) >= openEquity
HaltStep(trades, run, k) ==
  LET rolls == k = 1 \/ DayOfBar(k) # DayOfBar(k - 1)
      opened == IF rolls THEN run.equity ELSE run.openEquity
      halted == ~rolls /\ run.halted
      arriving == {t \in trades : t.plan.at = k}
      kept == IF halted THEN run.kept ELSE run.kept \cup arriving
      closing == {t \in kept : t.closes = k}
      closed == run.closed + PriceOf(closing)
      marked == closed + MarksOf(OpenAt(kept, k), k)
  IN  [equity |-> Stake + marked, closed |-> closed, openEquity |-> opened, kept |-> kept,
       halted |-> halted \/ OverTheCap(Stake + marked, opened)]
HaltWalk(trades) ==
  LET run[k \in 0..Len(bars)] ==
        IF k = 0 THEN [equity |-> Stake, closed |-> 0, openEquity |-> Stake, kept |-> {}, halted |-> FALSE]
        ELSE HaltStep(trades, run[k - 1], k)
  IN  run[Len(bars)]

\* The check on the simulator itself: what it made per outlook beside what the
\* ledger made per signal, over resolved trades and settled trips.  A mean is
\* its sum and its count.
ModelledSide(trades) ==
  LET legs == {t \in trades : t.resolved}
  IN  [n |-> Cardinality({t.outlook : t \in legs}), sum |-> PriceOf(legs)]
Trips == did
Collapse(trips) == {[ref |-> i, price |-> PriceOf({t \in trips : t.outlook = i})] : i \in {t.outlook : t \in trips}}
LedgerSide(trips) ==
  LET events == Collapse(trips)
  IN  [n |-> Cardinality(events), sum |-> MapThenSumSet(LAMBDA e : e.price, events)]
Gap(modelled, ledger) == modelled.sum * ledger.n - ledger.sum * modelled.n
Replicates(modelled, ledger) == modelled.n > 0 /\ ledger.n > 0 /\ Gap(modelled, ledger) = 0

-----------------------------------------------------------------------------
(* The desk, bar by bar. *)

Closing(t, k, reason) == [plan |-> t, outlook |-> t.outlook, closes |-> k, reason |-> reason, resolved |-> TRUE]

\* What becomes of a holding over the bar that has just closed: a resting exit
\* fills, or its anchor passed, or the outlook left the feed.
Becomes(t, k, candle, poll) ==
  LET i == t.outlook
  IN  IF Touch(i, t.stop, candle) # "none" THEN Touch(i, t.stop, candle)
      ELSE IF k >= Outlooks[i].anchor THEN "horizon"
      ELSE IF poll[i].says = "absent" THEN "retired" ELSE "held"

\* Who may be let in on the poll: nothing is held on its coin and no stop has
\* spent its side today.  The strongest of them enters whose forecast was
\* observed since the desk's last exit on it, of equals the one the feed names
\* first; it is filled by the next open.
Wants(c, k) ==
  {i \in Ids : /\ Outlooks[i].coin = c /\ book[c] = Nothing /\ k <= LastEntry
               /\ IsOffered(feed'[k], i, k) /\ <<c, Outlooks[i].side, DayOfBar(k)>> \notin spent
               /\ IsAhead(i, bars'[k].close)}
ObservedAt(i, k) == Max({j \in 1..k : feed'[j][i].says = "tradeable"})
PredatesClose(i, k) == \E t \in did : t.outlook = i /\ ObservedAt(i, k) <= t.closes
Enters(c, k) == {i \in Wants(c, k) : ~PredatesClose(i, k)}
GoesBefore(poll, i, j) == poll[i].sigma > poll[j].sigma \/ (poll[i].sigma = poll[j].sigma /\ i < j)
Strongest(poll, S) == CHOOSE i \in S : \A j \in S \ {i} : GoesBefore(poll, i, j)

BarCloses ==
  /\ Len(bars) < LastBar /\ UNCHANGED start
  /\ LET k == Len(bars) + 1
     IN  /\ \E shape \in Candles : LET from == OpenOf(bars, k)
                                  IN  bars' = Append(bars, [lo |-> from + shape.lo, hi |-> from + shape.hi, close |-> from + shape.close])
         /\ \E reading \in Reports :
              /\ \A i \in Ids : reading[i].says = "repeated" =>
                   k > 1 /\ IsTradeable(feed[k - 1][i]) /\ reading[i].sigma = feed[k - 1][i].sigma
              /\ feed' = Append(feed, reading)
         /\ LET fate(c) == Becomes(book[c], k, bars'[k], feed'[k])
                ended == {c \in Coins : book[c] # Nothing /\ fate(c) # "held"}
                stopped == {c \in ended : fate(c) = "stop"}
            IN  /\ did' = did \cup {Closing(book[c], k, fate(c)) : c \in ended}
                /\ spent' = spent \cup {<<c, Outlooks[book[c].outlook].side, DayOfBar(k)>> : c \in stopped}
                /\ waited' = (waited \/ \E c \in Coins : \E i \in Wants(c, k) : PredatesClose(i, k))
                /\ ranked' = (ranked \/ \E c \in Coins :
                     Enters(c, k) # {} /\ Strongest(feed'[k], Enters(c, k)) # Earliest(Enters(c, k)))
                /\ book' = [c \in Coins |->
                     IF c \in ended THEN Nothing
                     ELSE IF Enters(c, k) # {} THEN Plan(Strongest(feed'[k], Enters(c, k)), k, bars'[k].close, bars'[k].close)
                     ELSE book[c]]

ReplayInit ==
  /\ start \in 0..BarsInDay - 1 /\ bars = <<>> /\ feed = <<>>
  /\ book = [c \in Coins |-> Nothing] /\ did = {} /\ spent = {} /\ waited = FALSE /\ ranked = FALSE

ReplayNext == BarCloses
ReplaySpec == ReplayInit /\ [][ReplayNext]_replayVars

-----------------------------------------------------------------------------
(* "Since 2026-09-13 the model re-enters as the desk does": whatever the archive,
   the trades the two passes find resolved are those the desk finished, entered
   on the same poll at the same price and ended alike, and the ones they find
   running are those it holds.  A trade of the last bar has no fill yet.  The desk
   refuses a forecast older than its own exit and takes a coin's strongest outlook
   first (considerSignals); the passes do neither.  Where neither rule decided,
   nothing else differs. *)
WalkIsTheDesk ==
  LET found == Simulated
  IN  ~waited /\ ~ranked =>
      /\ {t \in found : t.resolved} = did
      /\ {t.plan : t \in {t \in found : ~t.resolved}} = {book[c] : c \in {c \in Coins : book[c] # Nothing /\ book[c].at < Len(bars)}}

(* The check that grades the simulator reads no gap on an archive it walked as the
   desk did: "both sides are per outlook: an outlook's legs are summed and the sum
   is what enters the mean". *)
ReplicationReadsZero == did # {} /\ ~waited /\ ~ranked => Replicates(ModelledSide(Simulated), LedgerSide(Trips))

(* Three readings of one book agree: a budget refuses somebody exactly when the
   uncapped book was once fuller than it, and the capped book never is; and the
   halt walk took every entry that no earlier bar of its day barred, counted from
   the trades it took and not from the walk's own running totals.  (What the passes
   find and keep is bound, not defined, so that it is computed once a state.) *)
BudgetAndHaltsAddUp ==
  \A found \in {Simulated} : \A kept \in {HaltWalk(found).kept} :
  LET EquityAt(k) == Stake + PriceOf({t \in kept : t.closes <= k}) + MarksOf(OpenAt(kept, k), k)
      DayOpen(k) == LET before == {b \in DOMAIN bars : DayOfBar(b) < DayOfBar(k)}
                    IN  IF before = {} THEN Stake ELSE EquityAt(Max(before))
      Barred(k) == \E b \in DOMAIN bars : b < k /\ DayOfBar(b) = DayOfBar(k) /\ OverTheCap(EquityAt(b), DayOpen(b))
  IN  /\ \A n \in 1..Cardinality(Coins) :
           LET capped == CapConcurrency(found, n)
           IN  /\ Occupancy(capped.kept) <= n
               /\ capped.refused > 0 <=> Occupancy(found) > n
      /\ kept = {t \in found : ~Barred(t.plan.at)}

(* The stored summary answers for every stop what a replay of the candles would
   have: "storing the adverse extreme over that prefix reproduces the rule for
   every stop level from one pass". *)
SummaryAnswersEveryStop ==
  bars # <<>> => \A i \in Ids : \A mae \in {MaeToTarget(i, bars)} : \A level \in Opening - 2..Opening + 2 :
    StopWouldFire(i, level, mae) <=> ReplayPath(i, level, bars).reason = "stop"

(* The simulator answers for the desk: its walk is the desk's, the check that
   grades it reads no gap, and what it derives - budgets, halts, the stop of a
   stored summary - is what the book itself says (scripts/backtest.ts). *)
SimulatorIsTheDesk == WalkIsTheDesk /\ ReplicationReadsZero /\ BudgetAndHaltsAddUp /\ SummaryAnswersEveryStop
=============================================================================
