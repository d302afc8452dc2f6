-------------------------------- MODULE Tick --------------------------------
(***************************************************************************)
(* One account's execution loop (exec/loop.ts): the pass tick() makes over *)
(* the account once a minute, split at every call it awaits, with the      *)
(* intent ledger it keeps (store/db.ts), the venue it acts on (Venue) and  *)
(* everything that may happen to either between two awaited calls: a       *)
(* trigger fires, the venue liquidates, the owner trades by hand, an       *)
(* answer is lost, the process dies.                                       *)
(*                                                                         *)
(* A pass reads the account (Begin, Assess), turns calls of the forecast   *)
(* snapshot into intents (Consider), plans (PlanPass), places and cancels  *)
(* one order at a time (Send and Record, CancelOne), puts the exits of its *)
(* own fresh fills on (ProtectFreshFills) and settles the ledger (Settle). *)
(***************************************************************************)
EXTENDS Planner

CONSTANTS
  Signals,       \* the stable outlook ids a snapshot may call
  CoinOf,        \* [Signals -> Coins]
  Sides,         \* the sides it may call them on
  HoldChoices,   \* what hold_to_target may be frozen at
  StopChoices,   \* whether an intent may carry a stop price
  CondChoices,   \* what haltCheck may find beside the account
  UnpricedChoices, \* sets of coins the venue's mids may leave out
  AnswersLost,   \* may an order be accepted and its answer lost
  UserSizes,     \* the positions the owner may trade a coin to by hand
  UserOrders,    \* may the owner rest and cancel orders by hand
  MaxFaults      \* bound: refusals, lost answers, failed cancels, crashes

ASSUME CoinOfAssumption    == CoinOf \in [Signals -> Coins]
ASSUME SignalsAssumption   == Signals # {}
ASSUME SidesAssumption     == Sides \subseteq {"long", "short"}
ASSUME ChoicesAssumption   ==
  /\ HoldChoices \subseteq BOOLEAN
  /\ StopChoices \subseteq BOOLEAN
  /\ CondChoices \subseteq Conditions
  /\ UnpricedChoices \subseteq SUBSET Coins
ASSUME HandAssumption      == /\ UserSizes \subseteq Int
                              /\ UserOrders \in BOOLEAN
                              /\ AnswersLost \in BOOLEAN
ASSUME MaxFaultsAssumption == MaxFaults \in Nat

VARIABLES
  \* The ledger: what survives the process.
  status,        \* status[i] of the intent's row, "none" before it exists
  terms,         \* terms[i]: what is frozen on the row when it is written
  filled,        \* filled[i]: its filled_sz
  closeRow,      \* intents that have an order row of role close
  stoppedToday,  \* closed intents with stopped_at whose closed_at is today
  consumed,      \* signals whose forecast in hand predates our last close
  halted,        \* the account row's halted flag
  \* The clock.
  late,          \* intents whose horizon has passed
  \* The locals of the pass: what a crash loses.
  pc,
  seenPos, seenBook,   \* the view the pass opened with
  forced,        \* retired or flipped
  calls,         \* calls of the snapshot not considered yet
  cond, unpriced,
  listed,        \* status of the rows the pass planned from
  closing,       \* the intents the plan is closing
  todo,          \* actions not executed yet
  answer,        \* the venue's answer to the order in flight
  freshFills,    \* intents whose entry filled in this pass
  touched,       \* an order was placed or cancelled in this pass
  holding,       \* haltCheck held this pass
  \* History.
  calm,          \* since the pass began nothing failed and nobody else moved
  entered,       \* intents an entry of which really filled
  left,          \* left[c]: what took c flat last
  stopOuts,      \* intents whose stop took their position out today
  faults

ledgerVars  == <<status, terms, filled, halted>>
dayVars     == <<closeRow, stoppedToday, consumed, late>>
viewVars    == <<seenPos, seenBook, forced, calls, cond, unpriced>>
workVars    == <<listed, closing, todo, answer, freshFills, touched, holding>>
historyVars == <<calm, entered, left, stopOuts, faults>>
vars == <<venueVars, ledgerVars, dayVars, pc, viewVars, workVars, historyVars>>

-----------------------------------------------------------------------------
Statuses == {"none", "pending", "open", "closing", "closed", "failed"}
LiveStatuses == {"pending", "open", "closing"}
Finished == {"closed", "failed"}
Terms == [sig : Signals, side : {"long", "short"}, hold : BOOLEAN, stop : BOOLEAN]

Live(i)   == status[i] \in LiveStatuses
LiveIds   == {i \in Ids : Live(i)}
Coin(i)   == CoinOf[terms[i].sig]
IsLong(i) == terms[i].side = "long"

(* An entry buys a long; every exit of it points the other way.            *)
Buys(i, role) == IF role = "entry" THEN IsLong(i) ELSE ~IsLong(i)

Unanswered == [tag |-> NoTag]
Answer == [tag : Ids, role : Roles, ok : BOOLEAN, k : Nat]

Row(i, isForced) == [id |-> i, coin |-> Coin(i), status |-> status[i],
                     stop |-> terms[i].stop, late |-> i \in late, forced |-> isForced]

TypeOK ==
  /\ VenueTypeOK
  /\ status \in [Ids -> Statuses]
  /\ terms \in [Ids -> Terms]
  /\ filled \in [Ids -> Nat]
  /\ halted \in BOOLEAN
  /\ closeRow \subseteq Ids
  /\ stoppedToday \subseteq Ids
  /\ consumed \subseteq Signals
  /\ late \subseteq Ids
  /\ pc \in {"idle", "view", "consider", "act", "protect"}
  /\ seenPos \in [Coins -> Int]
  /\ seenBook \subseteq Order
  /\ forced \subseteq Ids
  /\ calls \subseteq Signals \X Sides
  /\ cond \in Conditions
  /\ unpriced \subseteq Coins
  /\ listed \in [Ids -> {"none"} \cup LiveStatuses]
  /\ closing \subseteq Ids
  /\ todo \subseteq Action
  /\ answer \in Answer \cup {Unanswered}
  /\ freshFills \subseteq Ids
  /\ touched \in BOOLEAN
  /\ holding \in BOOLEAN
  /\ calm \in BOOLEAN
  /\ entered \subseteq Ids
  /\ left \in [Coins -> {"none", "stop", "target", "other"}]
  /\ stopOuts \subseteq Ids
  /\ faults \in 0..MaxFaults

Forgotten == [i \in Ids |-> "none"]
NoTerms   == CHOOSE t \in Terms : TRUE

Init ==
  /\ VenueInit
  /\ status = Forgotten
  /\ terms = [i \in Ids |-> NoTerms]
  /\ filled = [i \in Ids |-> 0]
  /\ halted = FALSE
  /\ closeRow = {} /\ stoppedToday = {} /\ consumed = {} /\ late = {}
  /\ pc = "idle"
  /\ seenPos = pos /\ seenBook = {}
  /\ forced = {} /\ calls = {} /\ cond = "none" /\ unpriced = {}
  /\ listed = Forgotten
  /\ closing = {} /\ todo = {} /\ answer = Unanswered /\ freshFills = {}
  /\ touched = FALSE /\ holding = FALSE
  /\ calm = FALSE /\ entered = {} /\ stopOuts = {} /\ faults = 0
  /\ left = [c \in Coins |-> "none"]

-----------------------------------------------------------------------------
(***************************************************************************)
(* The pass.                                                               *)
(***************************************************************************)

(* The locals of a pass that has ended, or died.  What haltCheck said last *)
(* is kept for the properties only.                                        *)
ForgetLocals ==
  /\ seenPos' = [c \in Coins |-> 0] /\ seenBook' = {}
  /\ forced' = {} /\ calls' = {} /\ cond' = "none" /\ unpriced' = {}
  /\ listed' = Forgotten
  /\ closing' = {} /\ todo' = {} /\ answer' = Unanswered /\ freshFills' = {}
  /\ touched' = FALSE

(* The account view: positions and orders are read by separate requests,   *)
(* so what the pass opens with may be torn.  Begin reads both, ...         *)
Begin ==
  /\ pc = "idle"
  /\ pc' = "view"
  /\ seenPos' = pos /\ seenBook' = book
  /\ holding' = FALSE
  /\ calm' = TRUE
  /\ UNCHANGED <<venueVars, ledgerVars, dayVars, forced, calls, cond, unpriced,
                 listed, closing, todo, answer, freshFills, touched,
                 entered, left, stopOuts, faults>>

(* ... and Assess one of them again.  A fresh snapshot retires an open     *)
(* intent whose call it no longer carries on that side, unless the row     *)
(* holds to target; its calls are considered unless the account is halted. *)
(* A breached daily loss refuses every call (preTradeCheck).               *)
Assess(fresh, snapshot) ==
  /\ pc = "view"
  /\ fresh \/ snapshot = {}
  /\ pc' = "consider"
  /\ \/ seenPos' = pos /\ seenBook' = seenBook
     \/ seenBook' = book /\ seenPos' = seenPos
  /\ cond' \in CondChoices
  /\ unpriced' \in UnpricedChoices
  /\ forced' = {i \in Ids : /\ fresh
                            /\ status[i] = "open"
                            /\ <<terms[i].sig, terms[i].side>> \notin snapshot
                            /\ ~terms[i].hold}
  /\ calls' = IF fresh /\ ~halted /\ cond' = "none" THEN snapshot ELSE {}
  /\ UNCHANGED <<venueVars, ledgerVars, dayVars, workVars, historyVars>>

(* The slip: one intent per outlook, whatever its coin.                    *)
Admissible_AnyCoin(s, side) ==
  /\ \A i \in LiveIds : terms[i].sig # s
  /\ s \notin consumed
  /\ CoinOf[s] \notin unpriced

(* One call that passes every gate becomes a pending intent.  The gates    *)
(* about price, budget, depth and approval may refuse any call: a refused  *)
(* call is simply not considered.                                          *)
Admissible(s, side) ==
  /\ \A i \in LiveIds : terms[i].sig # s
  /\ \A i \in LiveIds : Coin(i) # CoinOf[s]
  /\ \A i \in stoppedToday : ~(Coin(i) = CoinOf[s] /\ terms[i].side = side)
  /\ s \notin consumed
  /\ CoinOf[s] \notin unpriced

Consider(s, side) ==
  /\ pc = "consider"
  /\ <<s, side>> \in calls
  /\ Admissible(s, side)
  /\ calls' = calls \ {<<s, side>>}
  /\ \E i \in Ids, hold \in HoldChoices, stop \in StopChoices :
       /\ status[i] = "none"
       /\ \A j \in Ids : j < i => status[j] # "none"
       /\ status' = [status EXCEPT ![i] = "pending"]
       /\ terms' = [terms EXCEPT ![i] =
                      [sig |-> s, side |-> side, hold |-> hold, stop |-> stop]]
  /\ UNCHANGED <<venueVars, filled, halted, dayVars, pc, seenPos, seenBook, forced,
                 cond, unpriced, workVars, historyVars>>

(* The desired orders, the difference, and what haltCheck lets through.    *)
(* An intent whose coin has no mid is skipped, but still claims its coin.  *)
PlanPass ==
  /\ pc = "consider"
  /\ LET priced  == {i \in LiveIds : Coin(i) \notin unpriced}
         held(i) == Held(seenPos, Coin(i))
         row(i)  == Row(i, i \in forced)
         wanted  == UNION {Desired(row(i), held(i)) : i \in priced}
         claimed == {Coin(i) : i \in LiveIds}
         halts   == Halts(cond, seenPos, claimed, seenBook)
     IN  /\ closing' = {i \in priced : IsClosing(row(i), held(i))}
         /\ \E lead \in Leads(seenBook) :
              LET actions == Reconcile(wanted, seenBook, lead)
              IN  todo' = IF halts THEN UnderHalt(actions) ELSE actions
         /\ holding' = halts
         /\ halted' = (halted \/ StickyHalt(cond, seenPos, claimed, seenBook))
  /\ listed' = [i \in Ids |-> IF Live(i) THEN status[i] ELSE "none"]
  /\ pc' = "act"
  /\ seenBook' = {} /\ forced' = {} /\ calls' = {} /\ cond' = "none" /\ unpriced' = {}
  /\ UNCHANGED <<venueVars, status, terms, filled, dayVars, seenPos, answer, freshFills,
                 touched, historyVars>>

-----------------------------------------------------------------------------
(***************************************************************************)
(* Executing: one order at a time, the most urgent first.                  *)
(***************************************************************************)

Due(a) ==
  /\ a \in todo
  /\ answer = Unanswered
  /\ \/ pc = "act" /\ \A b \in todo : Rank(a) <= Rank(b)
     \/ pc = "protect" /\ \A b \in todo : b.tag = a.tag => Rank(a) <= Rank(b)

(* What took the coin to flat, or that it is held again.                   *)
LeftBy(c, cause) ==
  left' = [left EXCEPT ![c] = IF pos'[c] # 0 THEN "none"
                              ELSE IF pos[c] = 0 THEN @ ELSE cause]

Cause(role) == IF role = "sl" THEN "stop" ELSE IF role = "tp" THEN "target" ELSE "other"

(* A stop has taken the position of an intent recorded as open to flat.    *)
NoteStopOut(i, role) ==
  stopOuts' = IF role = "sl" /\ status[i] = "open" /\ pos[Coin(i)] # 0 /\ pos'[Coin(i)] = 0
              THEN stopOuts \cup {i} ELSE stopOuts

(* Client order ids are never used twice: a slot is, once neither the book *)
(* nor anything the pass may still cancel has it.                          *)
UsedBy == book \cup seenBook \cup {b \in todo : b.kind = "cancel"}
FreshSlots == {n \in FreeSlots(UsedBy) : \A m \in FreeSlots(UsedBy) : n <= m}

(* The venue accepts the order and fills k lots of it at once: an entry or *)
(* a close is immediate-or-cancel, a target or a stop fills only when it   *)
(* crosses on arrival and rests otherwise.                                 *)
Accepts(a, k) ==
  /\ k \in 0..a.sz
  /\ \/ /\ a.role = "entry"
        /\ pos' = Netted(pos, a.coin, Buys(a.tag, a.role), k)
        /\ UNCHANGED book
     \/ /\ a.role = "close" \/ (a.role \in {"tp", "sl"} /\ k > 0)
        /\ pos' = Reduced(pos, a.coin, Buys(a.tag, a.role), k)
        /\ UNCHANGED book
     \/ /\ a.role \in {"tp", "sl"} /\ k = 0
        /\ \E n \in FreshSlots :
             /\ book' = book \cup {[oid |-> n, tag |-> a.tag, coin |-> a.coin,
                                    role |-> a.role, sz |-> a.sz]}
        /\ UNCHANGED pos
  /\ entered' = IF a.role = "entry" /\ k > 0 THEN entered \cup {a.tag} ELSE entered
  /\ LeftBy(a.coin, Cause(a.role))
  /\ NoteStopOut(a.tag, a.role)

(* A refusal, a lost answer or a crash disturbs the pass, and so does a    *)
(* trigger that fires as it arrives.                                       *)
Fault == faults < MaxFaults /\ faults' = faults + 1 /\ calm' = FALSE
NoFault == UNCHANGED <<faults, calm>>

(* placeOrder: any exception on the way back counts as a refusal.          *)
Send(a, k) ==
  /\ Due(a) /\ a.kind = "place"
  /\ todo' = todo \ {a}
  /\ \/ /\ Accepts(a, k)
        /\ calm' = (calm /\ (k > 0 => a.role \notin {"tp", "sl"})) /\ UNCHANGED faults
        /\ answer' = [tag |-> a.tag, role |-> a.role, ok |-> TRUE, k |-> k]
     \/ /\ AnswersLost /\ Accepts(a, k) /\ Fault
        /\ answer' = [tag |-> a.tag, role |-> a.role, ok |-> FALSE, k |-> 0]
     \/ /\ k = 0 /\ Fault
        /\ answer' = [tag |-> a.tag, role |-> a.role, ok |-> FALSE, k |-> 0]
        /\ UNCHANGED <<venueVars, entered, left, stopOuts>>
  /\ UNCHANGED <<ledgerVars, dayVars, pc, viewVars, listed, closing, freshFills,
                 touched, holding>>

(* placeAndRecord after the await: the order row is written whatever the   *)
(* answer; an entry refused is a failed intent, one that filled is open.   *)
Record ==
  /\ answer # Unanswered
  /\ LET i == answer.tag
         entryFilled == answer.ok /\ answer.role = "entry" /\ answer.k > 0
     IN  /\ closeRow' = IF answer.role = "close" THEN closeRow \cup {i} ELSE closeRow
         /\ status' = IF entryFilled THEN [status EXCEPT ![i] = "open"]
                      ELSE IF ~answer.ok /\ answer.role = "entry"
                           THEN [status EXCEPT ![i] = "failed"] ELSE status
         /\ filled' = IF entryFilled THEN [filled EXCEPT ![i] = answer.k] ELSE filled
         /\ freshFills' = IF entryFilled THEN freshFills \cup {i} ELSE freshFills
         /\ touched' = (touched \/ answer.ok)
  /\ answer' = Unanswered
  /\ UNCHANGED <<venueVars, terms, halted, stoppedToday, consumed, late, pc, viewVars,
                 listed, closing, todo, holding, historyVars>>

(* cancelOrder by client order id: an order that is gone is not an error,  *)
(* and a lost answer reads as gone whether or not the order still rests.   *)
CancelOne(a) ==
  /\ Due(a) /\ a.kind = "cancel"
  /\ todo' = todo \ {a}
  /\ LET hit == {o \in book : o.oid = a.oid}
     IN  \/ book' = book \ hit /\ touched' = (touched \/ hit # {}) /\ NoFault
         \/ hit # {} /\ book' \in {book, book \ hit} /\ Fault /\ UNCHANGED touched
  /\ UNCHANGED <<pos, ledgerVars, dayVars, pc, viewVars, listed, closing, answer,
                 freshFills, holding, entered, left, stopOuts>>

Executed == todo = {} /\ answer = Unanswered

(* protectFreshFills: re-read the account and queue the exits of what this *)
(* pass opened, where the new view has a price.                            *)
ProtectFreshFills ==
  /\ pc = "act" /\ Executed /\ freshFills # {}
  /\ pc' = "protect"
  /\ \E leftOut \in UnpricedChoices :
       todo' = {Place(w) : w \in UNION {
                  {v \in Desired(Row(i, FALSE), Held(pos, Coin(i))) : v.role # "entry"} :
                  i \in {j \in freshFills :
                           Live(j) /\ pos[Coin(j)] # 0 /\ Coin(j) \notin leftOut}}}
  /\ UNCHANGED <<venueVars, ledgerVars, dayVars, viewVars, listed, closing, answer,
                 freshFills, touched, holding, historyVars>>

-----------------------------------------------------------------------------
(***************************************************************************)
(* Settling: the ledger is made to agree with the venue, as read again if  *)
(* the pass touched it, for the rows the pass planned from.                *)
(***************************************************************************)
Unplanned_Never(i) == FALSE   \* the slip: every row of the account is settled

Unplanned(i) == listed[i] = "none"

SettleView_Stale == seenPos   \* the slip: settle on the view the pass opened with

SettleView == IF touched THEN pos ELSE seenPos

(* The row ends here: its position is gone, or its horizon passed before   *)
(* its entry ever filled.                                                  *)
Ends(i, view) ==
  /\ ~Unplanned(i)
  /\ view[Coin(i)] = 0
  /\ listed[i] = "pending" => i \in closing

(* The mark is nearer the stop than the target after a stop or a           *)
(* liquidation, farther after a target, and anywhere after anything else.  *)
MarkNearStop(i, near) ==
  CASE left[Coin(i)] = "stop"   -> TRUE
    [] left[Coin(i)] = "target" -> FALSE
    [] OTHER                    -> near

(* The slip: only an exit the loop itself asked for blocks a re-entry.     *)
LeftOnTheStopSide_AfterClose(i, near) ==
  terms[i].stop /\ i \in closeRow /\ MarkNearStop(i, near)

LeftOnTheStopSide(i, near) ==
  /\ terms[i].stop
  /\ i \notin closeRow
  /\ MarkNearStop(i, near)

SettledStatus(i, view) ==
  IF Unplanned(i) THEN status[i]
  ELSE IF view[Coin(i)] # 0
       THEN IF i \in closing THEN "closing"
            ELSE IF listed[i] = "pending" THEN "open" ELSE status[i]
       ELSE IF Ends(i, view) THEN "closed" ELSE status[i]

Settle(near) ==
  /\ Executed
  /\ pc = "protect" \/ (pc = "act" /\ freshFills = {})
  /\ pc' = "idle"
  /\ LET view == SettleView
     IN  /\ status' = [i \in Ids |-> SettledStatus(i, view)]
         /\ filled' = [i \in Ids |-> IF Unplanned(i) \/ view[Coin(i)] = 0 THEN filled[i]
                                     ELSE Held(view, Coin(i))]
         /\ consumed' = consumed \cup {terms[i].sig : i \in {j \in Ids : Ends(j, view)}}
         /\ stoppedToday' = stoppedToday \cup
              {i \in Ids : Ends(i, view) /\ listed[i] # "pending" /\ LeftOnTheStopSide(i, near)}
  /\ ForgetLocals
  /\ UNCHANGED <<venueVars, terms, halted, closeRow, late, holding, historyVars>>

(* The process dies, or a read throws and the pass with it: between the    *)
(* venue's acceptance and the ledger's record of it, too.                  *)
Abort ==
  /\ pc # "idle"
  /\ Fault
  /\ pc' = "idle"
  /\ ForgetLocals
  /\ UNCHANGED <<venueVars, ledgerVars, dayVars, holding, entered, left, stopOuts>>

-----------------------------------------------------------------------------
(***************************************************************************)
(* Everybody else.  The clock, the vendor and whoever clears a halt matter *)
(* only between passes: a pass reads each of them once.                    *)
(***************************************************************************)
HorizonPasses(i) ==
  /\ pc = "idle" /\ Live(i) /\ i \notin late
  /\ late' = late \cup {i}
  /\ UNCHANGED <<venueVars, ledgerVars, closeRow, stoppedToday, consumed, pc, viewVars,
                 workVars, historyVars>>

(* The UTC day rolls: stoppedOutToday compares closed_at with today.       *)
DayRolls ==
  /\ pc = "idle" /\ (stoppedToday # {} \/ stopOuts # {})
  /\ stoppedToday' = {} /\ stopOuts' = {}
  /\ UNCHANGED <<venueVars, ledgerVars, closeRow, consumed, late, pc, viewVars, workVars,
                 calm, entered, left, faults>>

(* The vendor observes an outlook again, after our exit from it.           *)
Observe(s) ==
  /\ pc = "idle" /\ s \in consumed
  /\ consumed' = consumed \ {s}
  /\ UNCHANGED <<venueVars, ledgerVars, closeRow, stoppedToday, late, pc, viewVars,
                 workVars, historyVars>>

ClearHalt ==
  /\ pc = "idle" /\ halted
  /\ halted' = FALSE
  /\ UNCHANGED <<venueVars, status, terms, filled, dayVars, pc, viewVars, workVars, historyVars>>

Elsewhere ==
  /\ calm' = FALSE
  /\ UNCHANGED <<ledgerVars, dayVars, pc, viewVars, workVars, entered, faults>>

ExitFires ==
  /\ \E o \in Ours(book), k \in 0..EntrySize :
       /\ TriggerFires(o, k, Buys(o.tag, o.role))
       /\ LeftBy(o.coin, Cause(o.role))
       /\ NoteStopOut(o.tag, o.role)
  /\ Elsewhere

Liquidation ==
  /\ \E c \in Coins : Liquidates(c) /\ LeftBy(c, "stop")
  /\ Elsewhere /\ UNCHANGED stopOuts

ByHand ==
  /\ \/ \E c \in Coins, q \in UserSizes : UserTrades(c, q) /\ LeftBy(c, "other")
     \/ /\ UserOrders /\ UNCHANGED left
        /\ \/ \E c \in Coins, n \in FreshSlots : UserPlaces(c, n)
           \/ \E o \in book : UserCancels(o)
  /\ Elsewhere /\ UNCHANGED stopOuts

-----------------------------------------------------------------------------
LoopStep ==
  \/ Begin
  \/ \E fresh \in BOOLEAN, snapshot \in SUBSET (Signals \X Sides) : Assess(fresh, snapshot)
  \/ \E s \in Signals, side \in Sides : Consider(s, side)
  \/ PlanPass
  \/ \E a \in todo : \E k \in 0..a.sz : Send(a, k)
  \/ \E a \in todo : CancelOne(a)
  \/ Record
  \/ ProtectFreshFills
  \/ \E near \in BOOLEAN : Settle(near)

Surroundings ==
  \/ Abort
  \/ \E i \in Ids : HorizonPasses(i)
  \/ DayRolls
  \/ \E s \in Signals : Observe(s)
  \/ ClearHalt
  \/ ExitFires
  \/ Liquidation
  \/ ByHand

Next == LoopStep \/ Surroundings

Spec == Init /\ [][Next]_vars

(***************************************************************************)
(* A scheduler that keeps running the loop, on an account where an order   *)
(* that is sent again and again is one day filled: the venue fills a close *)
(* in full if it is tried without end.                                     *)
(***************************************************************************)
CloseFills == \E a \in todo : a.role = "close" /\ Send(a, a.sz) /\ answer'.ok
FairSpec == Spec /\ WF_vars(LoopStep) /\ SF_vars(CloseFills)

-----------------------------------------------------------------------------
(***************************************************************************)
(* Properties.                                                             *)
(***************************************************************************)

(* At most one intent that is not finished holds a coin: the guard         *)
(* hasLiveIntentOn is checked once, when the intent is written, and rows   *)
(* come back to life when a settling pass finds a position where it had    *)
(* planned from a pending row (markFilled writes status unconditionally).  *)
OneLiveIntentPerCoin ==
  \A i, j \in LiveIds : Coin(i) = Coin(j) => i = j

(* At every instant, also between the venue accepting an entry and the     *)
(* ledger recording it, and across a crash there: a position belongs to a  *)
(* live intent, points its way, and is never larger than one entry -- a    *)
(* restarted process does not enter twice.                                 *)
EveryPositionIsAccountedFor ==
  \A c \in Coins : pos[c] # 0 =>
    \E i \in LiveIds : /\ Coin(i) = c
                       /\ pos[c] > 0 <=> IsLong(i)
                       /\ Held(pos, c) <= EntrySize

(* The stop of intent i rests, once, for exactly the size held.            *)
StopRests(i) ==
  \E o \in book :
    /\ o.tag = i /\ o.role = "sl" /\ o.sz = Held(pos, Coin(i))
    /\ \A q \in book : q.tag = i /\ q.role = "sl" => q = o

Undisturbed == pc = "idle" /\ calm

(* After a pass that nothing disturbed, whatever the passes before it left *)
(* behind (a partial fill, a crash, a failed cancel, a torn read, a halt), *)
(* every open position has its stop on the venue in exactly its size.      *)
OpenIsProtected ==
  Undisturbed => \A i \in Ids :
    status[i] = "open" /\ terms[i].stop /\ pos[Coin(i)] # 0 => StopRests(i)

(* After such a pass, the ledger agrees with the venue about every         *)
(* position: whose it is, that it is open or closing, and how large.       *)
LedgerAgrees ==
  Undisturbed => \A c \in Coins : pos[c] # 0 =>
    \E i \in Ids : /\ Coin(i) = c
                   /\ status[i] \in {"open", "closing"}
                   /\ filled[i] = Held(pos, c)

(* After such a pass, unless it was holding under a halt, no order of ours *)
(* rests for an intent that is not open, and none rests twice.             *)
NothingLeftBehind ==
  Undisturbed /\ ~holding =>
    /\ \A o \in Ours(book) : status[o.tag] = "open"
    /\ \A o, q \in Ours(book) : SameKey(o, q) => o = q

(* After a pass that nothing disturbed the book is what the rows ask for: a   *)
(* stop for every open position (also while a halt holds the account), and    *)
(* nothing that is left over once it does not.                               *)
BookIsWhatTheRowsAsk == OpenIsProtected /\ NothingLeftBehind

(* A finished intent stays finished, though markFilled and markClosing     *)
(* write the status of a row without looking at it.                        *)
FinishedIsFinal ==
  [][\A i \in Ids : status[i] \in Finished => status'[i] = status[i]]_vars

(* When the stop of an open intent has taken its position out, none opens  *)
(* again on that coin and side before the UTC day rolls: the stamp is on the row *)
(* before any later pass can ask, however the pass that sees it was torn   *)
(* or interrupted -- unless a close order of ours was out as well, when    *)
(* the code leaves the attribution to the fill ingest.                     *)
NoReentryAfterStop ==
  [][\A i \in Ids, j \in stopOuts \ closeRow :
       status[i] = "none" /\ status'[i] = "pending"
         => ~(CoinOf[terms'[i].sig] = Coin(j) /\ terms'[i].side = terms[j].side)]_vars

(* Whoever claims a coin, seen from outside: the loop with its ledger      *)
(* implements CoinClaims.                                                  *)
ClaimantOf(c) == IF \E i \in LiveIds : Coin(i) = c
                 THEN CHOOSE i \in LiveIds : Coin(i) = c ELSE NoTag

Claims == INSTANCE CoinClaims WITH
            Nobody <- NoTag,
            claim  <- [c \in Coins |-> ClaimantOf(c)],
            ended  <- {i \in Ids : status[i] \in Finished}

ImplementsCoinClaims == Claims!Spec

(* A position no live intent claims, or an order that is not ours, stops   *)
(* the account in the first undisturbed pass.                              *)
StrangersStopTheAccount ==
  Undisturbed /\ ~holding =>
    /\ \A c \in Coins : pos[c] # 0 => \E i \in LiveIds : Coin(i) = c
    /\ book = Ours(book)

(* No step of the loop takes the owner's own order off the book, while the *)
(* loop cancels around it from a view of the book that is already old.     *)
HandOrdersStay ==
  [][LoopStep => (book \ Ours(book)) \subseteq book']_vars

(* What is over ends: an intent whose horizon has passed, also one that is *)
(* held to its target whatever the forecast says ("a held intent is never  *)
(* unbounded"), and with it whatever a crash or a failed cancel left       *)
(* resting for it -- there comes an instant when neither is left.          *)
Lingers(i) ==
  \/ i \in late /\ Live(i)
  \/ status[i] \in Finished /\ \E o \in book : o.tag = i

NothingLingers == \A i \in Ids : Lingers(i) ~> ~Lingers(i)

-----------------------------------------------------------------------------
(***************************************************************************)
(* What the documentation says and the code does not do.                   *)
(***************************************************************************)

(* "No new positions": while the account row is halted, no position grows. *)
(* haltCheck is evaluated afresh and does not read the row, so an intent   *)
(* still pending when the account was halted is entered by the first pass  *)
(* that no longer finds the condition.                                     *)
HaltedNeverEnters ==
  [][halted /\ halted' => \A c \in Coins : Held(pos', c) <= Held(pos, c)]_vars

(* "Idempotent, restart-safe": an intent is entered once.  A crash between *)
(* the fill and its record leaves the row pending; if the stop then fires  *)
(* before a pass has settled it, the row is entered again.                 *)
EntersOnce ==
  [][\A i \in entered : answer'.tag = i /\ answer'.role = "entry"
        => answer' = answer \/ answer'.k = 0]_vars

=============================================================================
