-------------------------------- MODULE Limits --------------------------------
(***************************************************************************)
(* The limits an account is traded on, kept in four places: the row the    *)
(* desk shows, the connection's row that holds what its owner last chose,  *)
(* the operator's file that outranks both, and the executor's memory.  The *)
(* owner presses on the page, the executor serves the presses it reads and *)
(* loads limits when it starts, and an operator writes rows and files.     *)
(***************************************************************************)
EXTENDS Naturals, FiniteSets, FiniteSetsExt

CONSTANTS
  Connected, Offers,  \* accounts, and limits one may choose
  Unaffordable,     \* the offers whose smallest order the mandate cannot carry
  DayLasts,         \* instants in a day
  LastInstant, MaxHands \* bounds

ASSUME OffersAssumption == Unaffordable \subseteq Offers /\ Unaffordable # Offers
ASSUME ConnectedAssumption == IsFiniteSet(Connected)

VARIABLES
  instant,
  row,        \* accounts: [limits, at, by]; by names the event that wrote it
  chosen,     \* connections: what the owner last chose
  file,       \* accounts/<address>.json, or NoLimits
  pressed,    \* the owner's request, or NoPress
  traded,     \* the limits in the executor's memory, or NoLimits
  inHand,     \* the requests the executor has read and not yet served
  overtaken,  \* accounts whose owner pressed while an older press was in hand (history)
  console,    \* the change an operator has had approved and not yet written
  moved,      \* the operator's changes in the events table
  hands       \* acts of the operator, stopping the executor among them

limitsVars == <<instant, row, chosen, file, pressed, traded, inHand, overtaken, console, moved, hands>>

NoLimits == "none"
NoPress == [at |-> 0, limits |-> NoLimits]
Date(t) == t \div DayLasts
First == CHOOSE l \in Offers : l \notin Unaffordable

LimitsInit ==
  /\ instant = 0
  /\ row = [w \in Connected |-> [limits |-> First, at |-> 0, by |-> "connect"]]
  /\ chosen = [w \in Connected |-> First] /\ traded = chosen
  /\ file \in [Connected -> {NoLimits, First}]
  /\ pressed = [w \in Connected |-> NoPress] /\ inHand = pressed
  /\ overtaken = {} /\ console = {} /\ moved = {} /\ hands = 0

Pinned(w) == file[w] # NoLimits
IsNewer(at, applied) == at > applied
Unspent(w) == pressed[w] # NoPress /\ IsNewer(pressed[w].at, row[w].at)

\* A row and the connection's row are written together.
Applied(l, by) == [limits |-> l, at |-> instant, by |-> by]

-----------------------------------------------------------------------------
(* The page. *)

OwnerPresses(w) ==
  /\ instant < LastInstant /\ ~Pinned(w)
  /\ instant' = instant + 1
  /\ \E l \in Offers : pressed' = [pressed EXCEPT ![w] = [at |-> instant', limits |-> l]]
  /\ overtaken' = IF inHand[w] # NoPress THEN overtaken \cup {w} ELSE overtaken
  /\ UNCHANGED <<row, chosen, file, traded, inHand, console, moved, hands>>

\* What the page says of a press: that it waits, or nothing once it is spent.
ChangeStatus(w) == [waits |-> Unspent(w), shown |-> row[w].limits, pinned |-> Pinned(w)]

-----------------------------------------------------------------------------
(* The executor. *)

OneMoreHand == hands < MaxHands /\ hands' = hands + 1

Running == \A w \in Connected : traded[w] # NoLimits

ExecutorReads ==
  /\ Running /\ \A w \in Connected : inHand[w] = NoPress
  /\ inHand' = pressed
  /\ UNCHANGED <<instant, row, chosen, file, pressed, traded, overtaken, console, moved, hands>>

\* A press in hand is refused, and left as it is, when a file pins the account
\* or its mandate is too small; a spent one is passed over.
Serves(w) ==
  /\ inHand[w] # NoPress /\ IsNewer(inHand[w].at, row[w].at)
  /\ ~Pinned(w) /\ inHand[w].limits \notin Unaffordable

ServedRow(w) == IF Serves(w) THEN Applied(inHand[w].limits, "owner") ELSE row[w]
\* Mutant: a press is served to the executor's memory and one row only.
ServedChoice_Forgotten(w) == chosen[w]
ServedChoice(w) == IF Serves(w) THEN inHand[w].limits ELSE chosen[w]
ServedMemory(w) == IF Serves(w) THEN inHand[w].limits ELSE traded[w]

ExecutorServes ==
  /\ \E w \in Connected : inHand[w] # NoPress
  /\ row' = [w \in Connected |-> ServedRow(w)]
  /\ chosen' = [w \in Connected |-> ServedChoice(w)]
  /\ traded' = [w \in Connected |-> ServedMemory(w)]
  /\ inHand' = [w \in Connected |-> NoPress]
  /\ UNCHANGED <<instant, file, pressed, overtaken, console, moved, hands>>

ExecutorStops ==
  /\ Running /\ OneMoreHand
  /\ traded' = [w \in Connected |-> NoLimits] /\ inHand' = [w \in Connected |-> NoPress]
  /\ UNCHANGED <<instant, row, chosen, file, pressed, overtaken, console, moved>>

LoadSettings(w) == IF Pinned(w) THEN file[w] ELSE chosen[w]

\* A row that does not say what is in force is corrected when the account connects.
Synced(w) == IF LoadSettings(w) = row[w].limits THEN row[w] ELSE Applied(LoadSettings(w), "start")

ExecutorStarts ==
  /\ ~Running
  /\ traded' = [w \in Connected |-> LoadSettings(w)]
  /\ row' = [w \in Connected |-> Synced(w)]
  /\ UNCHANGED <<instant, chosen, file, pressed, inHand, overtaken, console, moved, hands>>

-----------------------------------------------------------------------------
(* The operator. *)

ChangedOn(day) == {m.account : m \in {m \in moved : m.day = day}}
Budget == Max({1, Cardinality({w \in Connected : Pinned(w)})})

\* An account changed today may be changed again; another needs room in the
\* day's budget, or the word that passes it.
SettingsScope(w, everyone) ==
  \/ everyone
  \/ w \in ChangedOn(Date(instant))
  \/ Cardinality(ChangedOn(Date(instant))) < Budget

OperatorLooks(w) ==
  /\ console = {} /\ ~Pinned(w) /\ OneMoreHand
  /\ \E l \in Offers \ (Unaffordable \cup {row[w].limits}), everyone \in BOOLEAN :
       /\ SettingsScope(w, everyone)
       /\ console' = {[account |-> w, limits |-> l, day |-> Date(instant), everyone |-> everyone, budget |-> Budget]}
  /\ UNCHANGED <<instant, row, chosen, file, pressed, traded, inHand, overtaken, moved>>

\* The row is written beside a running executor, which goes on with the limits it has.
OperatorWrites ==
  /\ \E c \in console :
       /\ row' = [row EXCEPT ![c.account] = Applied(c.limits, "operator")]
       /\ chosen' = [chosen EXCEPT ![c.account] = c.limits]
       /\ moved' = moved \cup {[account |-> c.account, day |-> c.day, everyone |-> c.everyone, budget |-> c.budget]}
  /\ console' = {}
  /\ UNCHANGED <<instant, file, pressed, traded, inHand, overtaken, hands>>

OperatorPins(w) ==
  /\ OneMoreHand
  /\ \E l \in (Offers \ Unaffordable) \cup {NoLimits} : l # file[w] /\ file' = [file EXCEPT ![w] = l]
  /\ UNCHANGED <<instant, row, chosen, pressed, traded, inHand, overtaken, console, moved>>

TimePasses ==
  /\ instant < LastInstant /\ console = {} /\ instant' = instant + 1
  /\ UNCHANGED <<row, chosen, file, pressed, traded, inHand, overtaken, console, moved, hands>>

LimitsNext ==
  \/ \E w \in Connected : OwnerPresses(w) \/ OperatorLooks(w) \/ OperatorPins(w)
  \/ ExecutorReads \/ ExecutorServes \/ ExecutorStops \/ ExecutorStarts
  \/ OperatorWrites \/ TimePasses

LimitsSpec == LimitsInit /\ [][LimitsNext]_limitsVars

-----------------------------------------------------------------------------
(* A press is never dropped in silence (exec/change-queue.ts): once the page *)
(* stops saying that it waits, either its limits are on both rows or        *)
(* something later than it wrote them.  A press that lands while the       *)
(* executor holds an older one is the exception: serving the older one     *)
(* stamps the row later than the newer one, which is then spent unserved.  *)
SpentIsServed ==
  \A w \in Connected \ overtaken :
    pressed[w] # NoPress /\ ~ChangeStatus(w).waits =>
      \/ row[w].by = "owner" /\ row[w].limits = pressed[w].limits /\ chosen[w] = pressed[w].limits
      \/ row[w].by \in {"operator", "start"}

(* The desk and the leaderboard show the limits in force (db.ts, the        *)
(* comment of syncAccountSettings): while the executor runs, the row says   *)
(* what it trades on, unless an operator wrote the row under it.           *)
CardIsWhatIsTraded ==
  Running => \A w \in Connected : row[w].limits = traded[w] \/ row[w].by = "operator"

(* An operator's day leaves a control arm (exec/settings.ts settingsScope): *)
(* the accounts moved without the word that passes the budget are never    *)
(* more than the budget was when they were looked at.                      *)
ControlArmIsLeft ==
  \A d \in {m.day : m \in moved} :
    LET today == {m \in moved : m.day = d}
        passed == {m.account : m \in {m \in today : m.everyone}}
        plain == {m \in today : m.account \notin passed}
    IN plain # {} => Cardinality({m.account : m \in plain}) <= Max({m.budget : m \in plain})

(* Limits are those that were asked for (exec/change-queue.ts, exec/settings.ts):
   the owner's press is served, the card shows what is traded, and an operator's
   sweep leaves a control arm. *)
LimitsAreAsAsked == SpentIsServed /\ CardIsWhatIsTraded /\ ControlArmIsLeft
=============================================================================
