-------------------------------- MODULE Budget --------------------------------
(***************************************************************************)
(* The mandate and what is staked of it: how a pass of the loop decides    *)
(* whether one more call fits, at which leverage and behind which stop,    *)
(* and what becomes of the rows it writes when the entry is filled late,   *)
(* at another price, or not at all, while the owner turns the settings,    *)
(* deposits, has the mandate re-read or touches the leverage by hand, and  *)
(* the process dies at an await.                                           *)
(*                                                                         *)
(* Money is counted in ten-thousandths of a cent, the mandate in cents and *)
(* prices in ticks; one mark stands for those of all coins.                *)
(***************************************************************************)
EXTENDS Integers, FiniteSets, FiniteSetsExt

CONSTANTS
  Listed,       \* the coins a call may name
  SideOf,       \* the side of the call on each
  CapOf,        \* the leverage the venue allows on each
  Offered,      \* settings an owner may choose: percent a signal, leverage, stop in thousandths
  Marks,        \* the marks there are; the first one is FirstMark
  FirstMark, FirstMandate,
  Flows,        \* deposits and withdrawals, in cents
  Results,      \* what a position may return, in percent of what it posted
  EntryFee,     \* taken from the cash at an entry
  LastPass, MaxDeeds   \* bounds

(* What exec/settings.ts:143 lets an owner choose, and a venue that allows *)
(* some leverage on every coin it lists.                                   *)
ASSUME BudgetAssumption ==
  /\ FirstMark \in Marks /\ Marks \subseteq Nat \ {0} /\ FirstMandate \in Nat \ {0}
  /\ Offered # {} /\ Offered \subseteq [pct : 1..100, leverage : {5, 10, 18, 20}, stop : 1..499]
  /\ IsFiniteSet(Listed) /\ SideOf \in [Listed -> {"long", "short"}] /\ CapOf \in [Listed -> Nat \ {0}]
  /\ Flows \subseteq Int /\ Results \subseteq Int /\ EntryFee \in Nat

VARIABLES
  mandate, choice,   \* accounts.base_capital and the settings in force
  row,               \* the live intent on each coin
  cash, held,        \* the venue: equity but for the open results, and the position on each coin
  isolated,          \* the venue: the leverage a position on each coin is opened at
  believed,          \* HlBroker.leverageSet, in memory
  mark,
  turn,              \* the pass
  byHand,            \* coins whose leverage the owner has set since the desk last did
  passes, deeds
budgetVars == <<mandate, choice, row, cash, held, isolated, believed, mark, turn, byHand, passes, deeds>>

NoIntent == [status |-> "none", margin |-> 0, leverage |-> 0, ref |-> 0, stop |-> 0]
Flat == [posted |-> 0, at |-> 0]
NobodysCoin == "no coin"
Between == [at |-> "idle", calls |-> {}, deployed |-> 0, count |-> 0, free |-> 0,
            coin |-> NobodysCoin, whole |-> FALSE, veto |-> "none"]

-----------------------------------------------------------------------------
(* risk/ledger.ts, risk/governor.ts                                        *)

Cent == 10000
Cents(money) == (money + Cent \div 2) \div Cent
ReserveFor == 100 * mandate
TradeableBudget == 9900 * mandate
PerSignalBudget == 99 * mandate * choice.pct
MaxConcurrent == 100 \div choice.pct

Live == {c \in Listed : row[c].status # "none"}
Margins(coins) == MapThenSumSet(LAMBDA c : row[c].margin, coins)
Deployed == Margins(Live)
Posted == MapThenSumSet(LAMBDA c : held[c].posted, Listed)

(* The veto a call meets, when the book is deep enough to leave by.        *)
Veto(c) ==
  IF c \in Live THEN "already-open"
  ELSE IF turn.count >= MaxConcurrent THEN "max-concurrent"
  ELSE IF Cents(PerSignalBudget) > Cents(TradeableBudget - turn.deployed) THEN "no-budget"
  ELSE IF Cents(turn.free - PerSignalBudget) < Cents(ReserveFor) THEN "insufficient-collateral"
  ELSE "none"

-----------------------------------------------------------------------------
(* risk/sizing.ts: fractions are pairs                                     *)

Under(a, b) == a[1] * b[2] < b[1] * a[2]
Leverage(c) == Min({choice.leverage, CapOf[c]})
LiqDistance(leverage, cap) == <<2 * cap - leverage, 2 * cap * leverage>>
MaxStop(leverage, cap) == LET d == LiqDistance(leverage, cap) IN <<7 * d[1], 10 * d[2]>>
ClampedStop(c) ==
  LET asked == <<choice.stop, 1000>> IN
  LET most == MaxStop(Leverage(c), CapOf[c]) IN IF Under(asked, most) THEN asked ELSE most

(* An exit price is rounded towards the entry.                             *)
StopPrice(c) ==
  LET s == ClampedStop(c) IN
  IF SideOf[c] = "long" THEN -((-(mark * (s[2] - s[1]))) \div s[2]) ELSE (mark * (s[2] + s[1])) \div s[2]

(* How far a price is from another, against a position's side.             *)
Distance(c, from, to) == IF SideOf[c] = "long" THEN <<from - to, from>> ELSE <<to - from, from>>
InsideLiqBuffer(c) == ~Under(MaxStop(Leverage(c), CapOf[c]), Distance(c, mark, StopPrice(c)))

-----------------------------------------------------------------------------
(* A pass: exec/loop.ts tick and considerSignals                           *)

PassBegins ==
  /\ turn.at = "idle" /\ passes < LastPass /\ passes' = passes + 1
  /\ \E calls \in SUBSET Listed :
       turn' = [Between EXCEPT !.at = "consider", !.calls = calls, !.deployed = Deployed,
                               !.count = Cardinality(Live), !.free = Max({0, cash - Posted}),
                               !.whole = cash >= mandate * Cent /\ \A c \in Listed : held[c].posted <= row[c].margin]
  /\ UNCHANGED <<mandate, choice, row, cash, held, isolated, believed, mark, byHand, deeds>>

Considering(c) == turn.at = "consider" /\ c \in turn.calls
NextCall(c, veto) == [turn EXCEPT !.calls = @ \ {c}, !.veto = veto]

CallIsVetoed(c) ==
  /\ Considering(c) /\ Veto(c) # "none"
  /\ turn' = NextCall(c, Veto(c))
  /\ UNCHANGED <<mandate, choice, row, cash, held, isolated, believed, mark, byHand, passes, deeds>>

(* The book cannot be read or left by, or the size or the stop comes to    *)
(* nothing legal.                                                          *)
CallIsUnfit(c) ==
  /\ Considering(c) /\ Veto(c) \in {"none", "insufficient-collateral"}
  /\ turn' = NextCall(c, "none")
  /\ UNCHANGED <<mandate, choice, row, cash, held, isolated, believed, mark, byHand, passes, deeds>>

(* ensureIsolated asks the venue only when this process has not already.   *)
LeverageIsSet(c) ==
  /\ Considering(c) /\ Veto(c) = "none" /\ InsideLiqBuffer(c)
  /\ turn' = [NextCall(c, "none") EXCEPT !.at = "insert", !.coin = c]
  /\ IF believed[c] = Leverage(c)
       THEN UNCHANGED <<isolated, believed, byHand>>
       ELSE /\ believed' = [believed EXCEPT ![c] = Leverage(c)]
            /\ isolated' = [isolated EXCEPT ![c] = Leverage(c)]
            /\ byHand' = byHand \ {c}
  /\ UNCHANGED <<mandate, choice, row, cash, held, mark, passes, deeds>>

Counted_NotDeployed(t) == [t EXCEPT !.count = @ + 1]
(* The allocation the next call of the pass is held to.                    *)
Counted(t) == [t EXCEPT !.count = @ + 1, !.deployed = @ + PerSignalBudget]

IntentIsWritten ==
  /\ turn.at = "insert"
  /\ row' = [row EXCEPT ![turn.coin] = [status |-> "pending", margin |-> PerSignalBudget, leverage |-> Leverage(turn.coin),
                                        ref |-> mark, stop |-> StopPrice(turn.coin)]]
  /\ turn' = [Counted(turn) EXCEPT !.at = "consider", !.coin = NobodysCoin]
  /\ UNCHANGED <<mandate, choice, cash, held, isolated, believed, mark, byHand, passes, deeds>>

CallsAreThrough ==
  /\ turn.at = "consider" /\ turn.calls = {}
  /\ turn' = [turn EXCEPT !.at = "place", !.calls = {c \in Listed : row[c].status = "pending"}]
  /\ UNCHANGED <<mandate, choice, row, cash, held, isolated, believed, mark, byHand, passes, deeds>>

Entering(c) == turn.at = "place" /\ c \in turn.calls /\ turn' = [turn EXCEPT !.calls = @ \ {c}]

(* A marketable limit reaches thirty basis points past the mark.           *)
Slip == (3 * mark) \div 1000
FillPrices(c) == IF SideOf[c] = "long" THEN {mark, mark + Slip} ELSE {mark, mark - Slip}

EntryFills(c) ==
  /\ Entering(c)
  /\ \E px \in FillPrices(c) :
       held' = [held EXCEPT ![c] = [posted |-> (((row[c].margin * row[c].leverage) \div isolated[c]) \div row[c].ref) * px, at |-> px]]
  /\ row' = [row EXCEPT ![c].status = "open"]
  /\ cash' = cash - EntryFee
  /\ UNCHANGED <<mandate, choice, isolated, believed, mark, byHand, passes, deeds>>

(* The order finds nothing, or the pass is halted: the row waits.          *)
EntryWaits(c) ==
  /\ Entering(c)
  /\ UNCHANGED <<mandate, choice, row, cash, held, isolated, believed, mark, byHand, passes, deeds>>

EntryIsRejected(c) ==
  /\ Entering(c)
  /\ row' = [row EXCEPT ![c] = NoIntent]
  /\ UNCHANGED <<mandate, choice, cash, held, isolated, believed, mark, byHand, passes, deeds>>

PassSettles ==
  /\ turn.at = "place" /\ turn.calls = {}
  /\ turn' = Between
  /\ row' = [c \in Listed |-> IF row[c].status = "open" /\ held[c] = Flat THEN NoIntent ELSE row[c]]
  /\ UNCHANGED <<mandate, choice, cash, held, isolated, believed, mark, byHand, passes, deeds>>

-----------------------------------------------------------------------------
(* Between two passes, and around them                                     *)

Deed == deeds < MaxDeeds /\ deeds' = deeds + 1

ProcessDies ==
  /\ Deed /\ turn' = Between /\ believed' = [c \in Listed |-> 0]
  /\ UNCHANGED <<mandate, choice, row, cash, held, isolated, mark, byHand, passes>>

SettingsAreServed ==
  /\ Deed /\ turn.at = "idle" /\ choice' \in Offered \ {choice}
  /\ UNCHANGED <<mandate, row, cash, held, isolated, believed, mark, turn, byHand, passes>>

(* Re-read, never typed, and only with nothing open.                       *)
MandateIsServed ==
  /\ Deed /\ turn.at = "idle" /\ Live = {} /\ cash >= Cent
  /\ mandate' = cash \div Cent
  /\ UNCHANGED <<choice, row, cash, held, isolated, believed, mark, turn, byHand, passes>>

CashMoves ==
  /\ Deed
  /\ \E f \in Flows : cash' = cash + f * Cent /\ cash' >= Posted
  /\ UNCHANGED <<mandate, choice, row, held, isolated, believed, mark, turn, byHand, passes>>

OwnerSetsLeverage(c) ==
  /\ Deed /\ held[c] = Flat /\ isolated[c] # CapOf[c]
  /\ isolated' = [isolated EXCEPT ![c] = CapOf[c]] /\ byHand' = byHand \cup {c}
  /\ UNCHANGED <<mandate, choice, row, cash, held, believed, mark, turn, passes>>

PositionCloses(c) ==
  /\ held[c] # Flat /\ held' = [held EXCEPT ![c] = Flat]
  /\ \E r \in Results : cash' = cash + (held[c].posted \div 100) * r
  /\ UNCHANGED <<mandate, choice, row, isolated, believed, mark, turn, byHand, passes, deeds>>

MarkMoves ==
  /\ Deed /\ turn.at = "idle" /\ mark' \in Marks \ {mark}
  /\ UNCHANGED <<mandate, choice, row, cash, held, isolated, believed, turn, byHand, passes>>

BudgetInit ==
  /\ mandate = FirstMandate /\ choice \in Offered /\ cash = FirstMandate * Cent /\ mark = FirstMark
  /\ row = [c \in Listed |-> NoIntent] /\ held = [c \in Listed |-> Flat]
  /\ isolated = CapOf /\ believed = [c \in Listed |-> 0]
  /\ turn = Between /\ byHand = {} /\ passes = 0 /\ deeds = 0

BudgetNext ==
  \/ PassBegins \/ IntentIsWritten \/ CallsAreThrough \/ PassSettles
  \/ \E c \in Listed : \/ CallIsVetoed(c) \/ CallIsUnfit(c) \/ LeverageIsSet(c)
                       \/ EntryFills(c) \/ EntryWaits(c) \/ EntryIsRejected(c)
                       \/ PositionCloses(c) \/ OwnerSetsLeverage(c)
  \/ ProcessDies \/ SettingsAreServed \/ MandateIsServed \/ CashMoves \/ MarkMoves

BudgetSpec == BudgetInit /\ [][BudgetNext]_budgetVars

-----------------------------------------------------------------------------
(* "Sum of margins must never be able to exceed the budget": however many  *)
(* calls one pass takes, whatever the settings were when the rows before   *)
(* were written, what is staked stays inside the mandate less the reserve, *)
(* to the cent the code compares to.                                       *)
MarginsFit == Deployed < TradeableBudget + Cent

(* An account whose equity still covers its mandate, with every row at the *)
(* present size and every position at its row's price, is refused for      *)
(* money only by the count: the caps bind at the same point.               *)
FullBookIsReached ==
  turn.at = "consider" /\ turn.whole /\ (\A c \in Live : row[c].margin = PerSignalBudget)
    => turn.veto \notin {"no-budget", "insufficient-collateral"}

(* A position the desk has the leverage of, filled within the slippage it  *)
(* allows of the price its row was planned at, has its stop this side of   *)
(* its liquidation: clamp, rounding, slippage and the venue's leverage     *)
(* leave room.                                                             *)
AtItsPrice(c) == ~Under(<<3, 1000>>, Distance(c, held[c].at, row[c].ref))
StopComesFirst(c) ==
  row[c].status = "open" /\ held[c] # Flat =>
    Under(Distance(c, held[c].at, row[c].stop), LiqDistance(isolated[c], CapOf[c]))
StopsHoldAtTheirPrice == \A c \in Listed \ byHand : AtItsPrice(c) => StopComesFirst(c)

(* What is staked fits the mandate, a full book can be reached, and a stop *)
(* fires before the venue liquidates.                                      *)
BudgetIsKept == MarginsFit /\ FullBookIsReached /\ StopsHoldAtTheirPrice

(* "The stop must fire at most this far toward liquidation"                *)
(* (risk/params.ts:452): no position is ever opened with its stop past its *)
(* liquidation.                                                            *)
StopsFireFirst == \A c \in Listed \ byHand : StopComesFirst(c)

(* "Never post the last of the collateral" (risk/governor.ts:125): what    *)
(* the rows of one pass stake leaves the reserve of what it found free.    *)
Unentered == {c \in Listed : row[c].status = "pending"}
TheReserveIsLeft ==
  turn.at = "insert" => Cents(turn.free - Margins(Unentered) - PerSignalBudget) >= Cents(ReserveFor)
=============================================================================
