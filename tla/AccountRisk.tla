---------------------------- MODULE AccountRisk ----------------------------
(***************************************************************************)
(* One account through the runner's loop (exec/runner.ts): every pass      *)
(* lets it go or connects it, decides the owner's press of Clear, re-reads *)
(* the mandate, ticks the account and reads its fills back, in this order  *)
(* and one instant each.  Between any two of them the market moves, a stop *)
(* fires, the owner presses a button, deposits or trades, an operator      *)
(* clears a halt from a process of their own, or the executor dies.        *)
(*                                                                         *)
(* What a tick does to intents and orders is Tick's subject; here a tick   *)
(* is what it does to the account row: it rolls the day, measures the      *)
(* loss, halts, and opens or settles the one trip the account may hold.    *)
(* The account is live: a paper account ingests no fills.                  *)
(***************************************************************************)
EXTENDS FillIngest

CONSTANTS
  FirstEquity,      \* what the account holds when the model begins
  Unrealised,       \* the results an open trip may show
  Deposits,         \* the amounts the owner may pay in
  Strange,          \* what the owner may leave on the venue for a tick to find
  Buttons,          \* what the owner may ask for
  MaxAhead,         \* bound: how far the web tier's clock may run ahead
  Between,          \* bound: the steps others may act in front of
  MaxMoves          \* bound: how often they may, and calls may fail

ASSUME MoneyAssumption   == FirstEquity \in Nat /\ Unrealised \subseteq Int /\ Deposits \subseteq Nat
ASSUME StrangeAssumption == Strange \subseteq {"none", "foreign-position", "foreign-order"}
ASSUME BetweenAssumption == MaxMoves \in Nat /\ Between \subseteq {"admit", "clear", "mandate", "tick", "ingest"}
ASSUME AskAssumption     == /\ Buttons \subseteq {"link", "clear", "mandate"}
                            /\ MaxAhead \in Nat

VARIABLES
  \* The web tier's requests, one row for each kind.
  wanted,       \* the newer of the connect and the unlink request is a connect
  clearAsk,     \* unhalt_requests.requested_at
  mandateAsk,   \* mandate_requests.requested_at
  \* The account on the venue, and the ledger's intent for it.
  cash, result, \* realised money, and the result of the trip not in it yet
  held,         \* the venue holds a position
  intent,       \* the ledger holds a live intent
  booked,       \* [day -> realised_pnl of the intents closed on it]
  \* The process.
  managed,      \* the account is one of the runner's states
  lastBeat,     \* lastBeat.equityUsd, lost with the process
  heartbeat,    \* equityUsd in exec-heartbeat.json
  \* History.
  firedOn,      \* the day the halt in force fired on
  breachedOn,   \* the last day a tick measured the cap breached
  refused,      \* presses of Clear that were refused
  traded,       \* trading result since the day's baseline was taken
  whole,        \* no result crossed into the day, and none was let go of in it
  moves

requestVars == <<wanted, clearAsk, mandateAsk>>
venueVars   == <<cash, result, held, intent, booked>>
processVars == <<managed, lastBeat, heartbeat>>
historyVars == <<firedOn, breachedOn, refused, traded, whole>>
vars == <<rowVars, ingestVars, requestVars, venueVars, processVars, historyVars, moves>>

-----------------------------------------------------------------------------
Days   == 0..Day(MaxNow + MaxAhead)
Equity == cash + result

Steps == <<"admit", "clear", "mandate", "tick", "ingest">>
Step  == Steps[((now - FirstNow) % 5) + 1]
NextPass == now + 5 - ((now - FirstNow) % 5)

(* An instant the web tier may stamp a request with.                       *)
Stamps == now .. (now + MaxAhead)
Later(s, t) == IF s > t THEN s ELSE t

TypeOK ==
  /\ RowTypeOK
  /\ IngestTypeOK
  /\ wanted \in BOOLEAN /\ clearAsk \in Optional(Nat) /\ mandateAsk \in Optional(Nat)
  /\ cash \in Int /\ result \in Int /\ held \in BOOLEAN /\ intent \in BOOLEAN
  /\ booked \in [Days -> Int]
  /\ managed \in BOOLEAN /\ lastBeat \in Amounts /\ heartbeat \in Amounts
  /\ firedOn \in Optional(Nat) /\ breachedOn \in Optional(Nat)
  /\ refused \subseteq Nat /\ traded \in Int /\ whole \in BOOLEAN /\ moves \in 0..MaxMoves

Init ==
  /\ RowInit
  /\ IngestInit
  /\ wanted = TRUE /\ clearAsk = None /\ mandateAsk = None
  /\ cash = FirstEquity /\ result = 0 /\ held = FALSE /\ intent = FALSE
  /\ booked = [d \in Days |-> 0]
  /\ managed = FALSE /\ lastBeat = NoAmount /\ heartbeat = NoAmount
  /\ firedOn = None /\ breachedOn = None /\ refused = {}
  /\ traded = 0 /\ whole = TRUE /\ moves = 0

-----------------------------------------------------------------------------
(* The market, the venue and the owner's money.                            *)
MarkMoves ==
  /\ held
  /\ \E r \in Unrealised \ {result} :
       /\ result' = r
       /\ traded' = traded + r - result
  /\ UNCHANGED <<rowVars, ingestVars, requestVars, cash, held, intent, booked,
                 processVars, firedOn, breachedOn, refused, whole>>

(* The stop takes the position out, or its owner closes one let go of: the *)
(* intent, if there is one, learns of it in the next tick.                 *)
PositionCloses ==
  /\ held
  /\ held' = FALSE
  /\ cash' = IF intent THEN cash ELSE cash + result
  /\ result' = IF intent THEN result ELSE 0
  /\ UNCHANGED <<rowVars, ingestVars, requestVars, intent, booked, processVars, historyVars>>

Deposit(d) ==
  /\ cash < FirstEquity
  /\ cash' = cash + d
  /\ UNCHANGED <<rowVars, ingestVars, requestVars, result, held, intent, booked,
                 processVars, historyVars>>

-----------------------------------------------------------------------------
(* The web tier.  It offers Clear under the executor's own rule, with the  *)
(* equity of the heartbeat file, and its clock may run ahead.              *)
AskConnection ==
  /\ wanted' = ~wanted
  /\ UNCHANGED <<rowVars, ingestVars, clearAsk, mandateAsk, venueVars, processVars, historyVars>>

PressClear(at) ==
  /\ row.linked /\ row.halted /\ MayClear("owner", at, heartbeat)
  /\ clearAsk' = at
  /\ UNCHANGED <<rowVars, ingestVars, wanted, mandateAsk, venueVars, processVars, historyVars>>

PressMandate(at) ==
  /\ row.linked
  /\ mandateAsk' = at
  /\ UNCHANGED <<rowVars, ingestVars, wanted, clearAsk, venueVars, processVars, historyVars>>

(* scripts/unhalt.ts, a process of its own.                                *)
OperatorClears ==
  /\ row.linked /\ row.halted /\ MayClear("operator", now, heartbeat)
  /\ ClearHalt("operator", now)
  /\ firedOn' = None
  /\ UNCHANGED <<now, saved, ingestVars, requestVars, venueVars, processVars,
                 breachedOn, refused, traded, whole>>

-----------------------------------------------------------------------------
(* admit: releaseUnlinked, then admitNewAccounts.  Each of the two may     *)
(* throw at the venue and is then tried again in the next pass.            *)
Release ==
  /\ ~wanted /\ row.linked
  /\ DisconnectAccount
  /\ managed' = FALSE /\ lastBeat' = NoAmount /\ heartbeat' = NoAmount
  /\ intent' = FALSE
  /\ cash' = IF intent /\ ~held THEN cash + result ELSE cash
  /\ result' = IF intent /\ ~held THEN 0 ELSE result
  /\ whole' = (whole /\ ~intent)
  /\ UNCHANGED <<events, held, booked, firedOn, breachedOn, refused, traded>>

Connect ==
  /\ wanted /\ ~managed
  /\ ConnectAccount
  /\ managed' = TRUE
  /\ UNCHANGED <<saved, lastBeat, heartbeat, venueVars, historyVars>>

Fails == faults < MaxFaults /\ faults' = faults + 1

Admit ==
  /\ Step = "admit"
  /\ now' = now + 1
  /\ \/ Release
     \/ Connect
     \/ UNCHANGED <<row, saved, events, processVars, venueVars, historyVars>>
  /\ IF (~wanted /\ row.linked /\ row'.linked) \/ (wanted /\ ~managed /\ ~managed')
     THEN Fails ELSE UNCHANGED faults
  /\ UNCHANGED <<fillVars, walk, answered, requestVars>>

-----------------------------------------------------------------------------
(* clear and mandate: serviceChangeRequests.  A request is live while it   *)
(* is newer than what it asks for, and is spent at an instant never        *)
(* earlier than its own.                                                   *)
ClearPending == row.linked /\ managed /\ row.halted /\ clearAsk > LastDecision

DecideClear ==
  /\ Step = "clear"
  /\ now' = now + 1
  /\ IF ~ClearPending
     THEN UNCHANGED <<row, events, firedOn, refused>>
     ELSE LET at == Later(now, clearAsk)
          IN  \/ /\ MayClear("owner", at, lastBeat)
                 /\ ClearHalt("owner", at)
                 /\ firedOn' = None
                 /\ UNCHANGED refused
              \/ /\ ~MayClear("owner", at, lastBeat)
                 /\ events' = events \cup {Event("unhalt-refused", at)}
                 /\ refused' = refused \cup {clearAsk}
                 /\ UNCHANGED <<row, firedOn>>
  /\ UNCHANGED <<saved, ingestVars, requestVars, venueVars, processVars,
                 breachedOn, traded, whole>>

(* realisedToday: what closed since the day began.                         *)
RealisedToday(at) == MapThenSumSet(LAMBDA d : booked[d], {d \in Days : d >= Day(at)})

(* Nothing of a trip is carried into the day, and nothing runs in it that *)
(* no intent will book.                                                    *)
Whole == result = 0 /\ (held => intent)

MandatePending == row.linked /\ managed /\ ~intent /\ mandateAsk > row.mandateAt

ReadMandate ==
  /\ Step = "mandate"
  /\ now' = now + 1
  /\ \/ /\ MandatePending
        /\ LET at == Later(now, mandateAsk)
           IN  /\ ApplyMandate(Equity, RealisedToday(at), at)
               /\ traded' = IF row.day = Day(now) THEN traded ELSE 0
               /\ whole'  = IF row.day = Day(now) THEN whole ELSE Whole
        /\ UNCHANGED faults
     \/ /\ IF MandatePending THEN Fails ELSE UNCHANGED faults
        /\ UNCHANGED <<row, traded, whole>>
  /\ UNCHANGED <<saved, events, fillVars, walk, answered, requestVars, venueVars, processVars,
                 firedOn, breachedOn, refused>>

-----------------------------------------------------------------------------
(* tick: the day rolls, haltCheck looks, a sticky halt is persisted once,  *)
(* and a row halted before kinds were recorded gets one.                   *)
Found(rolled, strange) ==
  IF held /\ ~intent THEN "foreign-position"
  ELSE IF strange # "none" THEN strange
  ELSE IF Breached(rolled, Equity) THEN "daily-loss" ELSE "none"

HaltOn_Overwrites(rolled, found) ==
  IF found # "none"
  THEN /\ row' = SetHalt(rolled, found)
       /\ events' = events \cup {Event("halt", now)}
       /\ firedOn' = Day(now)
  ELSE row' = rolled /\ UNCHANGED <<events, firedOn>>

HaltOn(rolled, found) ==
  /\ \/ /\ found # "none" /\ ~rolled.halted
        /\ row' = SetHalt(rolled, found)
        /\ events' = events \cup {Event("halt", now)}
        /\ firedOn' = Day(now)
     \/ /\ found # "none" /\ rolled.halted /\ rolled.kind = "untyped"
        /\ row' = SetHalt(rolled, found)
        /\ UNCHANGED <<events, firedOn>>
     \/ /\ found = "none" \/ (rolled.halted /\ rolled.kind # "untyped")
        /\ row' = rolled
        /\ UNCHANGED <<events, firedOn>>

(* settleLedger closes the intent of a position that is gone, an exit may  *)
(* take it out first, and a signal may open one on an account in order.    *)
Trades(rolled, found) ==
  \/ UNCHANGED venueVars
  \/ /\ intent
     /\ intent' = FALSE /\ held' = FALSE
     /\ cash' = cash + result /\ result' = 0
     /\ booked' = [booked EXCEPT ![Day(now)] = @ + result]
  \/ /\ ~intent /\ ~held /\ ~rolled.halted /\ found = "none"
     /\ intent' = TRUE /\ held' = TRUE
     /\ UNCHANGED <<cash, result, booked>>

Rolls == row.day # Day(now) \/ row.dayStart = NoAmount

Tick ==
  /\ Step = "tick" /\ managed
  /\ now' = now + 1
  /\ LET rolled == RollDay(row, Equity)
     IN  \E strange \in Strange :
           LET found == Found(rolled, strange)
           IN  /\ HaltOn(rolled, found)
               /\ Trades(rolled, found)
               /\ breachedOn' = IF Breached(rolled, Equity) THEN Day(now) ELSE breachedOn
  /\ intent /\ ~held => ~intent'
  /\ traded' = IF Rolls THEN 0 ELSE traded
  /\ whole' = IF Rolls THEN Whole ELSE whole
  /\ lastBeat' = Equity /\ heartbeat' = Equity
  /\ UNCHANGED <<saved, ingestVars, requestVars, managed, refused>>

(* The tick throws, at its first read or after it persisted what it found; *)
(* the beat it reports is the last one it had, or nothing at all.          *)
TickThrows ==
  /\ Step = "tick" /\ managed /\ Fails
  /\ now' = now + 1
  /\ \/ UNCHANGED <<row, events, firedOn, breachedOn, traded, whole>>
     \/ LET rolled == RollDay(row, Equity)
        IN  \E strange \in Strange :
              /\ HaltOn(rolled, Found(rolled, strange))
              /\ breachedOn' = IF Breached(rolled, Equity) THEN Day(now) ELSE breachedOn
              /\ traded' = IF Rolls THEN 0 ELSE traded
              /\ whole' = IF Rolls THEN Whole ELSE whole
  /\ heartbeat' = IF lastBeat = NoAmount THEN 0 ELSE lastBeat
  /\ UNCHANGED <<saved, fillVars, walk, answered, requestVars, venueVars,
                 managed, lastBeat, refused>>

NothingToTick ==
  /\ Step = "tick" /\ ~managed
  /\ now' = now + 1
  /\ UNCHANGED <<row, saved, events, ingestVars, requestVars, venueVars, processVars, historyVars>>

-----------------------------------------------------------------------------
(* ingest: due on its slow cycle and after every close.                    *)
Ingest ==
  /\ Step = "ingest"
  /\ \/ managed /\ BeginWalk /\ UNCHANGED firedOn
     \/ ReadPage /\ UNCHANGED firedOn
     \/ Conclude /\ firedOn' = IF row'.halted /\ ~row.halted THEN Day(now) ELSE firedOn
     \/ WalkThrows /\ UNCHANGED firedOn
     \/ /\ walk.at = "idle"
        /\ now' = now + 1
        /\ UNCHANGED <<row, saved, events, ingestVars, firedOn>>
  /\ UNCHANGED <<requestVars, venueVars, processVars, breachedOn, refused, traded, whole>>

(* The executor dies and is started again: its locals go.                  *)
Crash ==
  /\ managed /\ Fails
  /\ now' = NextPass
  /\ managed' = FALSE /\ lastBeat' = NoAmount /\ walk' = NoWalk
  /\ UNCHANGED <<row, saved, events, fillVars, answered, requestVars, venueVars,
                 heartbeat, historyVars>>

-----------------------------------------------------------------------------
Moves ==
  \/ MarkMoves \/ PositionCloses \/ \E d \in Deposits : Deposit(d)
  \/ "link" \in Buttons /\ AskConnection
  \/ OperatorClears
  \/ \E at \in Stamps : \/ "clear" \in Buttons /\ PressClear(at)
                        \/ "mandate" \in Buttons /\ PressMandate(at)
  \/ \E sort \in FillSorts :
       FillArrives(sort) /\ UNCHANGED <<requestVars, venueVars, processVars, historyVars>>

Pass == Admit \/ DecideClear \/ ReadMandate \/ Tick \/ TickThrows \/ NothingToTick \/ Ingest \/ Crash

(* The bounds: time runs to MaxNow, and MaxMoves of the others' moves and  *)
(* failed calls befall the account until then.                             *)
Next ==
  \/ /\ now < MaxNow /\ Step \in Between /\ moves < MaxMoves
     /\ Moves
     /\ moves' = moves + 1
  \/ /\ now < MaxNow
     /\ Pass
     /\ moves' = moves + faults' - faults
     /\ moves' <= MaxMoves
  \/ /\ now >= MaxNow
     /\ UNCHANGED vars

Spec == Init /\ [][Next]_vars

-----------------------------------------------------------------------------
(* A halt of a kind that is not the owner's - somebody else traded, or the *)
(* venue liquidated - stays on the account through every tick, every fill, *)
(* every press, an unlink and the reconnect after it, until an operator    *)
(* who looked at the account clears it (risk/halt.ts, db.ts                *)
(* disconnectAccount and connectAccount).                                  *)
StrictlyHalted ==
  \/ row.linked /\ row.halted /\ row.kind \in StrictKinds
  \/ ~row.linked /\ saved.halted /\ saved.kind \in StrictKinds

StrictHaltsNeedAnOperator ==
  [][StrictlyHalted => StrictlyHalted' \/ OperatorClears]_vars

(* A daily-loss halt is not cleared on the UTC day it fired on, by anyone, *)
(* whatever the loss has become since and however often the account was    *)
(* unlinked in between.                                                    *)
DailyLossCleared == /\ row.linked /\ row.halted /\ row.kind = "daily-loss"
                    /\ row'.linked /\ ~row'.halted

NoClearOnTheDayItFired == [][DailyLossCleared => firedOn < Day(now)]_vars

(* Nor on a day on which a tick measured the cap breached: an unrealised   *)
(* recovery inside the day leaves the account free to lose another cap's   *)
(* worth (risk/halt.ts, canClearHalt).                                     *)
NoClearOnTheDayOfTheBreach == [][DailyLossCleared => breachedOn < Day(now)]_vars

(* A press of Clear the executor refused is spent: it never clears a halt  *)
(* later, when the day has rolled (db.ts, lastHaltDecisionAt).             *)
ClearedByPress == Step = "clear" /\ row.halted /\ row'.linked /\ ~row'.halted /\ now' # now

RefusedPressesStaySpent == [][ClearedByPress => clearAsk \notin refused]_vars

(* An owner's Clear (risk/halt.ts, db.ts): it takes the end of the day to clear *)
(* a daily-loss halt, and a press made after it, not one refused before.      *)
ClearsAreEarned == NoClearOnTheDayItFired /\ RefusedPressesStaySpent

(* Within one UTC day nothing but a re-read mandate moves the baseline the *)
(* daily loss is measured from: no clear, tick, crash, unlink or reconnect *)
(* (db.ts, rollDay, clearHalt, account_risk_state).                        *)
Baseline == IF row.linked THEN <<row.day, row.dayStart>> ELSE <<saved.day, saved.dayStart>>

OneBaselineADay ==
  [][Baseline[1] = Day(now) /\ Baseline[2] # NoAmount /\ Step # "mandate" => Baseline' = Baseline]_vars

(* Re-reading the mandate keeps the day's losses counted: the loss the new *)
(* baseline shows is the trading result since the day's baseline was       *)
(* taken, deposits left out - as long as no trip was carried into the day  *)
(* and none was let go of in it.                                           *)
RebaseKeepsTheDay ==
  [][/\ row.linked /\ row'.linked /\ row'.mandateAt # row.mandateAt
     /\ whole' /\ Day(row'.mandateAt) = Day(now)
     => row'.dayStart - Equity' >= 0 - traded']_vars

(* A fill strictly behind the watermark that happened since the account is *)
(* watched is in the ledger: what shares the watermark's instant is read   *)
(* again, and a pass that throws between two pages moves no watermark.     *)
NothingSkipped ==
  \A f \in fills : f.fresh /\ f.at < fillMark => f \in stored

(* When no call failed, every fill of a stranger behind the watermark that *)
(* happened while the account was watched has halted it.                   *)
StrangersAreHeard ==
  walk.at = "idle" /\ faults = 0 =>
    \A f \in fills : f.sort \in Strangers /\ f.watched /\ f.fresh /\ f.at < fillMark
                       => f \in answered

(* And also when calls fail: what a stranger did on a watched account      *)
(* halts it, sooner or later in the pass that stored it or in none.        *)
EveryStrangerHalts ==
  walk.at = "idle" => \A f \in fills : f.sort \in Strangers /\ f.watched /\ f.fresh
                                       /\ f.at < fillMark => f \in answered

(* Only what happened while the account was being watched halts it: the    *)
(* first pass reads history, and history is not news.                      *)
OldTradesNeverHalt == \A f \in answered : f.watched /\ f.fresh

(* What halts an account for its trades is the news, all of it and nothing *)
(* else: a fill is stored once and remembered by nothing but its row, so a *)
(* pass that miscounts what was new can never be made up for by a later.   *)
NewsIsHeard == StrangersAreHeard /\ OldTradesNeverHalt

=============================================================================
