----------------------------- MODULE TickProofs -----------------------------
(***************************************************************************)
(* What holds of Tick for every account: any coins, signals, sizes and     *)
(* bounds, with or without lost answers and an owner who trades by hand.   *)
(***************************************************************************)
EXTENDS Tick, TLAPS

(* A row that the pass planned from, ...                                   *)
Listed(i) == listed[i] # "none"

(* ... and the part of a pass that acts on its plan.                       *)
Acting == pc \in {"act", "protect"}

(***************************************************************************)
(* The inductive invariant.  A row may come back to life while the pass    *)
(* acts (markFilled and markClosing do not look at the status they         *)
(* overwrite), so that no two live rows hold one coin is not inductive:    *)
(* what is, is that only rows the pass planned from can, that these hold   *)
(* different coins, and that every live row is one of them.                *)
(***************************************************************************)
PlannedApart ==
  Acting =>
    /\ \A i \in LiveIds : Listed(i)
    /\ \A i, j \in Ids : Listed(i) /\ Listed(j) /\ Coin(i) = Coin(j) => i = j

OnlyPlannedInFlight ==
  /\ answer # Unanswered => Acting /\ Listed(answer.tag)
  /\ \A a \in todo : Acting /\ (a.kind = "place" => Listed(a.tag))
  /\ \A i \in freshFills : Acting /\ Listed(i)

Inv == TypeOK /\ OneLiveIntentPerCoin /\ PlannedApart /\ OnlyPlannedInFlight

(* No slot of the book is shared by an order of ours and one that is not,  *)
(* nor will be: not by what the pass saw of ours and the book now, and not *)
(* by what it is about to cancel and the book now.                         *)
SlotsApart ==
  /\ \A o, q \in book : o.oid = q.oid => (o.tag = NoTag <=> q.tag = NoTag)
  /\ \A r \in Ours(seenBook), o \in book : o.oid = r.oid => o.tag # NoTag
  /\ \A a \in todo, o \in book : a.kind = "cancel" /\ o.oid = a.oid => o.tag # NoTag

-----------------------------------------------------------------------------
(* What plan.ts asks for is typed, and carries the intent's own id and coin. *)
Wanted == [tag : Ids, coin : Coins, role : Roles, sz : Lots]

LEMMA DesiredType ==
  ASSUME NEW n, n.id \in Ids, n.coin \in Coins, NEW held \in Nat,
         NEW w \in Desired(n, held)
  PROVE  w \in Wanted /\ w.tag = n.id
<1> USE EntrySizeAssumption DEF Lots, Roles, Wanted, Want
<1>1. CASE held = 0
  BY <1>1 DEF Desired
<1>2. CASE held # 0
  BY <1>2 DEF Desired
<1> QED BY <1>1, <1>2

LEMMA HeldType ==
  ASSUME NEW p \in [Coins -> Int], NEW c \in Coins
  PROVE  Held(p, c) \in Nat
BY DEF Held

LEMMA RowType ==
  ASSUME TypeOK, NEW i \in Ids, NEW f \in BOOLEAN
  PROVE  /\ Row(i, f).id = i
         /\ Row(i, f).coin = Coin(i)
         /\ Coin(i) \in Coins
BY CoinOfAssumption DEF TypeOK, Row, Coin, Terms

(* What reconcile.ts asks for is typed; it places what is wanted and       *)
(* cancels only orders of ours that were in the view.                      *)
LEMMA ReconcileType ==
  ASSUME NEW wanted \in SUBSET Wanted, NEW orders \in SUBSET Order, NEW lead,
         NEW a \in Reconcile(wanted, orders, lead)
  PROVE  /\ a \in Action
         /\ a.kind = "place" => \E w \in wanted : a.tag = w.tag
         /\ a.kind = "cancel" => \E o \in Ours(orders) : a.oid = o.oid
<1>1. CASE \E w \in wanted : a = Place(w)
  BY <1>1, MaxOrdersAssumption DEF Place, Wanted, Action
<1>2. CASE \E o \in Ours(orders) :
             a = Cancel(o, Verdict(o, lead, wanted)) /\ Verdict(o, lead, wanted) # "keep"
  <2>1. PICK o \in Ours(orders) :
          a = Cancel(o, Verdict(o, lead, wanted)) /\ Verdict(o, lead, wanted) # "keep"
    BY <1>2
  <2>2. Verdict(o, lead, wanted) \in {"unwanted", "wrong-size", "duplicate"}
    BY <2>1 DEF Verdict
  <2>3. o \in Order /\ o.tag # NoTag
    BY DEF Ours
  <2>4. /\ o.oid \in 0..MaxOrders /\ o.tag \in Ids /\ o.coin \in Coins
        /\ o.role \in Roles /\ o.sz \in Lots
    BY <2>3, MaxOrdersAssumption DEF Order, Roles
  <2>5. a \in Action
    BY <2>1, <2>2, <2>3, <2>4 DEF Cancel, Action
  <2> QED BY <2>1, <2>5 DEF Cancel
<1> QED BY <1>1, <1>2 DEF Reconcile

LEMMA UnderHaltShrinks ==
  ASSUME NEW actions PROVE UnderHalt(actions) \subseteq actions
BY DEF UnderHalt

LEMMA ReducedType ==
  ASSUME NEW p \in [Coins -> Int], NEW c \in Coins, NEW buy \in BOOLEAN, NEW k \in Nat
  PROVE  Reduced(p, c, buy, k) \in [Coins -> Int] /\ Netted(p, c, buy, k) \in [Coins -> Int]
<1>1. Lesser(k, Held(p, c)) \in Nat
  BY HeldType DEF Lesser
<1> QED BY <1>1 DEF Reduced, Netted, Signed

LEMMA NoTermsType == NoTerms \in Terms
<1>1. PICK s \in Signals : TRUE
  BY SignalsAssumption
<1>2. [sig |-> s, side |-> "long", hold |-> FALSE, stop |-> FALSE] \in Terms
  BY DEF Terms
<1> QED BY <1>2 DEF NoTerms

-----------------------------------------------------------------------------
(* Every variable keeps its type, for all values of the constants: the     *)
(* plan asks only for orders of whole lots on the intent's own coin, a     *)
(* reduce-only fill never leaves the integers, what is cancelled is ours.  *)
LEMMA InitType == Init => TypeOK
<1> SUFFICES ASSUME Init PROVE TypeOK
  OBVIOUS
<1>1. VenueTypeOK
  BY DEF Init, VenueInit, VenueTypeOK
<1>2. terms \in [Ids -> Terms]
  BY NoTermsType DEF Init
<1>3. /\ status \in [Ids -> Statuses]
      /\ listed \in [Ids -> {"none"} \cup LiveStatuses]
      /\ filled \in [Ids -> Nat]
  BY DEF Init, Forgotten, Statuses
<1>4. seenPos \in [Coins -> Int] /\ left \in [Coins -> {"none", "stop", "target", "other"}]
  BY DEF Init, VenueInit
<1>5. answer \in Answer \cup {Unanswered} /\ faults \in 0..MaxFaults /\ cond \in Conditions
  BY MaxFaultsAssumption DEF Init, Conditions
<1> QED BY <1>1, <1>2, <1>3, <1>4, <1>5 DEF Init, TypeOK

LEMMA BeginType == TypeOK /\ Begin => TypeOK'
BY DEF TypeOK, VenueTypeOK, Begin, venueVars, ledgerVars, dayVars

LEMMA AssessType ==
  ASSUME TypeOK, NEW fresh \in BOOLEAN, NEW snapshot \in SUBSET (Signals \X Sides),
         Assess(fresh, snapshot)
  PROVE  TypeOK'
<1> USE DEF Assess, venueVars, ledgerVars, dayVars, workVars, historyVars
<1>1. VenueTypeOK'
  BY DEF TypeOK, VenueTypeOK
<1>2. seenPos' \in [Coins -> Int] /\ seenBook' \in SUBSET Order
  BY DEF TypeOK, VenueTypeOK
<1>3. cond' \in Conditions /\ unpriced' \in SUBSET Coins
  BY ChoicesAssumption
<1>4. forced' \in SUBSET Ids /\ calls' \in SUBSET (Signals \X Sides)
  OBVIOUS
<1> QED BY <1>1, <1>2, <1>3, <1>4 DEF TypeOK

LEMMA ConsiderType ==
  ASSUME TypeOK, NEW s \in Signals, NEW side \in Sides, Consider(s, side)
  PROVE  TypeOK'
<1> USE DEF Consider, venueVars, dayVars, workVars, historyVars
<1>1. VenueTypeOK'
  BY DEF TypeOK, VenueTypeOK
<1>2. PICK i \in Ids, hold \in HoldChoices, stop \in StopChoices :
        /\ status' = [status EXCEPT ![i] = "pending"]
        /\ terms' = [terms EXCEPT ![i] =
                       [sig |-> s, side |-> side, hold |-> hold, stop |-> stop]]
  OBVIOUS
<1>3. [sig |-> s, side |-> side, hold |-> hold, stop |-> stop] \in Terms
  BY SidesAssumption, ChoicesAssumption DEF Terms
<1>4. status' \in [Ids -> Statuses] /\ terms' \in [Ids -> Terms]
  BY <1>2, <1>3 DEF TypeOK, Statuses
<1>5. calls' \in SUBSET (Signals \X Sides)
  BY DEF TypeOK
<1> QED BY <1>1, <1>4, <1>5 DEF TypeOK

(* The actions of a plan, typed, and each for an intent of the ledger.     *)
LEMMA PlanType ==
  ASSUME TypeOK, PlanPass
  PROVE  /\ todo' \in SUBSET Action
         /\ \A a \in todo' : a.kind = "place" => a.tag \in LiveIds
         /\ \A a \in todo' : a.kind = "cancel" => \E o \in Ours(seenBook) : a.oid = o.oid
<1> DEFINE priced  == {i \in LiveIds : Coin(i) \notin unpriced}
           held(i) == Held(seenPos, Coin(i))
           row(i)  == Row(i, i \in forced)
           wanted  == UNION {Desired(row(i), held(i)) : i \in priced}
<1>1. \A w \in wanted : w \in Wanted /\ w.tag \in LiveIds
  <2> SUFFICES ASSUME NEW i \in LiveIds, NEW w \in Desired(row(i), held(i))
               PROVE  w \in Wanted /\ w.tag = i
    OBVIOUS
  <2>1. i \in Ids /\ (i \in forced) \in BOOLEAN
    BY DEF LiveIds
  <2>2. row(i).id = i /\ row(i).id \in Ids /\ row(i).coin \in Coins
    BY <2>1, RowType
  <2>3. held(i) \in Nat
    BY <2>1, RowType, HeldType DEF TypeOK
  <2> HIDE DEF row, held
  <2> QED BY <2>2, <2>3, DesiredType
<1>2. \E lead \in Leads(seenBook) : todo' \subseteq Reconcile(wanted, seenBook, lead)
  BY UnderHaltShrinks DEF PlanPass
<1>3. PICK lead : todo' \subseteq Reconcile(wanted, seenBook, lead)
  BY <1>2
<1>4. wanted \in SUBSET Wanted /\ seenBook \in SUBSET Order
  BY <1>1 DEF TypeOK
<1> HIDE DEF wanted
<1>5. \A a \in todo' : /\ a \in Action
                       /\ a.kind = "place" => \E w \in wanted : a.tag = w.tag
                       /\ a.kind = "cancel" => \E o \in Ours(seenBook) : a.oid = o.oid
  BY <1>3, <1>4, ReconcileType
<1> QED BY <1>1, <1>5

LEMMA PlanPassType == TypeOK /\ PlanPass => TypeOK'
<1> SUFFICES ASSUME TypeOK, PlanPass PROVE TypeOK'
  OBVIOUS
<1>1. VenueTypeOK' /\ seenBook' \subseteq Order
  BY DEF TypeOK, VenueTypeOK, PlanPass, venueVars
<1>2. todo' \subseteq Action
  BY PlanType
<1>3. closing' \subseteq Ids
  BY DEF PlanPass, LiveIds
<1>4. listed' \in [Ids -> {"none"} \cup LiveStatuses]
  BY DEF TypeOK, PlanPass, Live
<1>5. holding' \in BOOLEAN /\ halted' \in BOOLEAN
  BY DEF TypeOK, PlanPass, Halts, StickyHalt
<1> QED BY <1>1, <1>2, <1>3, <1>4, <1>5
        DEF TypeOK, PlanPass, dayVars, historyVars, Conditions

LEMMA LeftByType ==
  ASSUME TypeOK, NEW c \in Coins, NEW cause \in {"stop", "target", "other"},
         LeftBy(c, cause)
  PROVE  left' \in [Coins -> {"none", "stop", "target", "other"}]
BY DEF TypeOK, LeftBy

LEMMA NoteStopOutType ==
  ASSUME TypeOK, NEW i \in Ids, NEW role, NoteStopOut(i, role)
  PROVE  stopOuts' \in SUBSET Ids
BY DEF TypeOK, NoteStopOut

LEMMA BuysType ==
  ASSUME TypeOK, NEW i \in Ids, NEW role
  PROVE  Buys(i, role) \in BOOLEAN
BY DEF Buys, IsLong

LEMMA CauseType == ASSUME NEW role PROVE Cause(role) \in {"stop", "target", "other"}
BY DEF Cause

(* What the venue does with an order keeps the account and its history typed. *)
LEMMA AcceptsType ==
  ASSUME TypeOK, NEW a \in Action, NEW k \in Nat, Accepts(a, k)
  PROVE  /\ VenueTypeOK'
         /\ entered' \in SUBSET Ids
         /\ left' \in [Coins -> {"none", "stop", "target", "other"}]
         /\ stopOuts' \in SUBSET Ids
<1>1. a.tag \in Ids /\ a.coin \in Coins /\ a.sz \in Lots
  BY DEF Action
<1>2. pos \in [Coins -> Int] /\ book \subseteq Order
  BY DEF TypeOK, VenueTypeOK
<1>3. Buys(a.tag, a.role) \in BOOLEAN
  BY <1>1, BuysType
<1>4. pos' \in [Coins -> Int]
  BY <1>1, <1>2, <1>3, ReducedType DEF Accepts
<1>5. book' \subseteq Order
  <2>1. ASSUME NEW n \in FreshSlots, a.role \in {"tp", "sl"}
        PROVE  [oid |-> n, tag |-> a.tag, coin |-> a.coin, role |-> a.role, sz |-> a.sz]
                 \in Order
    BY <2>1, <1>1 DEF FreshSlots, FreeSlots, Order
  <2> QED BY <2>1, <1>2 DEF Accepts
<1>6. entered' \in SUBSET Ids
  BY <1>1 DEF Accepts, TypeOK
<1>7. left' \in [Coins -> {"none", "stop", "target", "other"}]
  BY <1>1, LeftByType, CauseType DEF Accepts
<1>8. stopOuts' \in SUBSET Ids
  BY <1>1, NoteStopOutType DEF Accepts
<1> QED BY <1>4, <1>5, <1>6, <1>7, <1>8 DEF VenueTypeOK

LEMMA FaultType ==
  ASSUME TypeOK, Fault \/ NoFault
  PROVE  faults' \in 0..MaxFaults /\ calm' \in BOOLEAN
<1>1. faults \in 0..MaxFaults /\ calm \in BOOLEAN
  BY DEF TypeOK
<1>2. CASE Fault
  <2>1. faults' \in 0..MaxFaults
    BY <1>1, <1>2, MaxFaultsAssumption DEF Fault
  <2>2. calm' \in BOOLEAN
    BY <1>2 DEF Fault
  <2> QED BY <2>1, <2>2
<1>3. CASE NoFault
  BY <1>1, <1>3 DEF NoFault
<1> QED BY <1>2, <1>3

LEMMA SendType ==
  ASSUME TypeOK, NEW a \in todo, NEW k \in 0..a.sz, Send(a, k)
  PROVE  TypeOK'
<1>1. a \in Action /\ a.sz \in Nat /\ k \in Nat
  BY DEF TypeOK, Action, Lots
<1>2. /\ VenueTypeOK'
      /\ entered' \in SUBSET Ids
      /\ left' \in [Coins -> {"none", "stop", "target", "other"}]
      /\ stopOuts' \in SUBSET Ids
  <2>1. CASE Accepts(a, k)
    BY <2>1, <1>1, AcceptsType
  <2>2. CASE UNCHANGED <<venueVars, entered, left, stopOuts>>
    BY <2>2 DEF TypeOK, VenueTypeOK, venueVars
  <2> QED BY <2>1, <2>2 DEF Send
<1>3. answer' \in Answer
  <2>1. a.tag \in Ids /\ a.role \in Roles
    BY <1>1 DEF Action
  <2>2. \E ok \in BOOLEAN, n \in Nat :
          answer' = [tag |-> a.tag, role |-> a.role, ok |-> ok, k |-> n]
    BY <1>1 DEF Send
  <2> QED BY <2>1, <2>2 DEF Answer
<1>4. faults' \in 0..MaxFaults /\ calm' \in BOOLEAN
  BY FaultType DEF Send, TypeOK
<1>5. todo' \subseteq Action
  BY DEF Send, TypeOK
<1> QED BY <1>2, <1>3, <1>4, <1>5 DEF TypeOK, Send, ledgerVars, dayVars, viewVars

LEMMA RecordType == TypeOK /\ Record => TypeOK'
<1> SUFFICES ASSUME TypeOK, Record PROVE TypeOK'
  OBVIOUS
<1>1. answer \in Answer
  BY DEF TypeOK, Record
<1>2. answer.tag \in Ids /\ answer.k \in Nat /\ answer.ok \in BOOLEAN
  BY <1>1 DEF Answer
<1>3. VenueTypeOK'
  BY DEF Record, TypeOK, VenueTypeOK, venueVars
<1>4. /\ status' \in [Ids -> Statuses]
      /\ filled' \in [Ids -> Nat]
  BY <1>2 DEF Record, TypeOK, Statuses
<1>5. closeRow' \subseteq Ids /\ freshFills' \subseteq Ids /\ touched' \in BOOLEAN
  BY <1>2 DEF Record, TypeOK
<1> QED BY <1>3, <1>4, <1>5 DEF Record, TypeOK, viewVars, historyVars

LEMMA CancelOneType ==
  ASSUME TypeOK, NEW a \in todo, CancelOne(a)
  PROVE  TypeOK'
<1>1. VenueTypeOK'
  BY DEF CancelOne, TypeOK, VenueTypeOK
<1>2. faults' \in 0..MaxFaults /\ calm' \in BOOLEAN
  BY FaultType DEF CancelOne
<1>3. touched' \in BOOLEAN
  BY DEF CancelOne, TypeOK
<1> QED BY <1>1, <1>2, <1>3 DEF CancelOne, TypeOK, ledgerVars, dayVars, viewVars

(* The exits queued for fresh fills are typed, and each is for one of them. *)
LEMMA FreshExitsType ==
  ASSUME TypeOK, ProtectFreshFills
  PROVE  \A a \in todo' : a \in Action /\ a.kind = "place" /\ a.tag \in freshFills
<1> DEFINE exits(i) == {v \in Desired(Row(i, FALSE), Held(pos, Coin(i))) : v.role # "entry"}
<1>1. ASSUME NEW i \in freshFills, NEW w \in exits(i)
      PROVE  w \in Wanted /\ w.tag = i
  <2>1. i \in Ids
    BY DEF TypeOK
  <2>2. Row(i, FALSE).id = i /\ Row(i, FALSE).coin \in Coins
    BY <2>1, RowType
  <2>3. Held(pos, Coin(i)) \in Nat
    BY <2>1, RowType, HeldType DEF TypeOK, VenueTypeOK
  <2>4. w \in Desired(Row(i, FALSE), Held(pos, Coin(i)))
    OBVIOUS
  <2> QED BY <2>1, <2>2, <2>3, <2>4, DesiredType
<1>2. \A a \in todo' : \E i \in freshFills : \E w \in exits(i) : a = Place(w)
  BY DEF ProtectFreshFills
<1> HIDE DEF exits
<1>3. ASSUME NEW w \in Wanted PROVE Place(w) \in Action /\ Place(w).kind = "place" /\ Place(w).tag = w.tag
  BY MaxOrdersAssumption DEF Place, Wanted, Action
<1> QED BY <1>1, <1>2, <1>3

LEMMA ProtectType == TypeOK /\ ProtectFreshFills => TypeOK'
<1> SUFFICES ASSUME TypeOK, ProtectFreshFills PROVE TypeOK'
  OBVIOUS
<1>1. VenueTypeOK'
  BY DEF ProtectFreshFills, TypeOK, VenueTypeOK, venueVars
<1>2. todo' \subseteq Action
  BY FreshExitsType
<1> QED BY <1>1, <1>2
        DEF ProtectFreshFills, TypeOK, ledgerVars, dayVars, viewVars, historyVars

LEMMA ForgetType ==
  ASSUME TypeOK, ForgetLocals
  PROVE  /\ seenPos' \in [Coins -> Int] /\ seenBook' \subseteq Order
         /\ forced' \subseteq Ids /\ calls' \subseteq Signals \X Sides
         /\ cond' \in Conditions /\ unpriced' \subseteq Coins
         /\ listed' \in [Ids -> {"none"} \cup LiveStatuses]
         /\ closing' \subseteq Ids /\ todo' \subseteq Action
         /\ answer' \in Answer \cup {Unanswered} /\ freshFills' \subseteq Ids
         /\ touched' \in BOOLEAN
<1>1. listed' \in [Ids -> {"none"} \cup LiveStatuses]
  BY DEF ForgetLocals, Forgotten
<1>2. seenPos' \in [Coins -> Int] /\ cond' \in Conditions
  BY DEF ForgetLocals, Conditions
<1> QED BY <1>1, <1>2 DEF ForgetLocals

LEMMA SettleType ==
  ASSUME TypeOK, NEW near \in BOOLEAN, Settle(near)
  PROVE  TypeOK'
<1> DEFINE view == SettleView
<1>1. VenueTypeOK'
  BY DEF Settle, TypeOK, VenueTypeOK, venueVars
<1>2. view \in [Coins -> Int]
  BY DEF SettleView, TypeOK, VenueTypeOK
<1>3. \A i \in Ids : Coin(i) \in Coins /\ terms[i].sig \in Signals
  BY RowType DEF TypeOK, Terms
<1> HIDE DEF view
<1>4. status' \in [Ids -> Statuses]
  <2>1. ASSUME NEW i \in Ids PROVE SettledStatus(i, view) \in Statuses
    BY DEF SettledStatus, Statuses, TypeOK
  <2> QED BY <2>1 DEF Settle, view
<1>5. filled' \in [Ids -> Nat]
  <2>1. \A i \in Ids : Held(view, Coin(i)) \in Nat /\ filled[i] \in Nat
    BY <1>2, <1>3, HeldType DEF TypeOK
  <2>2. filled' = [i \in Ids |-> IF Unplanned(i) \/ view[Coin(i)] = 0 THEN filled[i]
                                ELSE Held(view, Coin(i))]
    BY DEF Settle, view
  <2> QED BY <2>1, <2>2
<1>6. consumed' \subseteq Signals /\ stoppedToday' \subseteq Ids
  BY <1>3 DEF Settle, TypeOK
<1>7. pc' = "idle" /\ ForgetLocals
  BY DEF Settle
<1> QED BY <1>1, <1>4, <1>5, <1>6, <1>7, ForgetType DEF Settle, TypeOK, historyVars

LEMMA AbortType == TypeOK /\ Abort => TypeOK'
<1> SUFFICES ASSUME TypeOK, Abort PROVE TypeOK'
  OBVIOUS
<1>1. VenueTypeOK'
  BY DEF Abort, TypeOK, VenueTypeOK, venueVars
<1>2. pc' = "idle" /\ ForgetLocals /\ Fault
  BY DEF Abort
<1> QED BY <1>1, <1>2, ForgetType, FaultType DEF Abort, TypeOK, ledgerVars, dayVars

LEMMA BetweenPassesType ==
  ASSUME TypeOK,
         \/ \E i \in Ids : HorizonPasses(i)
         \/ DayRolls
         \/ \E s \in Signals : Observe(s)
         \/ ClearHalt
  PROVE  TypeOK'
<1> USE DEF TypeOK, VenueTypeOK, venueVars, ledgerVars, dayVars, viewVars, workVars, historyVars
<1>1. CASE \E i \in Ids : HorizonPasses(i)
  BY <1>1 DEF HorizonPasses
<1>2. CASE DayRolls
  BY <1>2 DEF DayRolls
<1>3. CASE \E s \in Signals : Observe(s)
  BY <1>3 DEF Observe
<1>4. CASE ClearHalt
  BY <1>4 DEF ClearHalt
<1> QED BY <1>1, <1>2, <1>3, <1>4

LEMMA ElsewhereType ==
  ASSUME TypeOK, Elsewhere, VenueTypeOK',
         left' \in [Coins -> {"none", "stop", "target", "other"}],
         stopOuts' \in SUBSET Ids
  PROVE  TypeOK'
BY DEF TypeOK, Elsewhere, ledgerVars, dayVars, viewVars, workVars

LEMMA ExitFiresType == TypeOK /\ ExitFires => TypeOK'
<1> SUFFICES ASSUME TypeOK, ExitFires PROVE TypeOK'
  OBVIOUS
<1>1. PICK o \in Ours(book), k \in 0..EntrySize :
        /\ TriggerFires(o, k, Buys(o.tag, o.role))
        /\ LeftBy(o.coin, Cause(o.role))
        /\ NoteStopOut(o.tag, o.role)
  BY DEF ExitFires
<1>2. /\ pos \in [Coins -> Int] /\ book \subseteq Order
      /\ o.tag \in Ids /\ o.coin \in Coins /\ k \in Nat
  BY EntrySizeAssumption DEF TypeOK, VenueTypeOK, Ours, Order, Lots
<1>3. VenueTypeOK'
  BY <1>1, <1>2, BuysType, ReducedType DEF TriggerFires, VenueTypeOK
<1>4. left' \in [Coins -> {"none", "stop", "target", "other"}]
  BY <1>1, <1>2, LeftByType, CauseType
<1>5. stopOuts' \in SUBSET Ids
  BY <1>1, <1>2, NoteStopOutType
<1> QED BY <1>3, <1>4, <1>5, ElsewhereType DEF ExitFires

LEMMA LiquidationType == TypeOK /\ Liquidation => TypeOK'
<1> SUFFICES ASSUME TypeOK, Liquidation PROVE TypeOK'
  OBVIOUS
<1>1. PICK c \in Coins : Liquidates(c) /\ LeftBy(c, "stop")
  BY DEF Liquidation
<1>2. VenueTypeOK'
  BY <1>1 DEF Liquidates, TypeOK, VenueTypeOK
<1>3. left' \in [Coins -> {"none", "stop", "target", "other"}]
  BY <1>1, LeftByType
<1>4. stopOuts' \in SUBSET Ids /\ Elsewhere
  BY DEF Liquidation, TypeOK
<1> QED BY <1>2, <1>3, <1>4, ElsewhereType

LEMMA ByHandType == TypeOK /\ ByHand => TypeOK'
<1> SUFFICES ASSUME TypeOK, ByHand PROVE TypeOK'
  OBVIOUS
<1>1. pos \in [Coins -> Int] /\ book \subseteq Order
  BY DEF TypeOK, VenueTypeOK
<1>2. stopOuts' \in SUBSET Ids /\ Elsewhere
  BY DEF ByHand, TypeOK
<1>3. CASE \E c \in Coins, q \in UserSizes : UserTrades(c, q) /\ LeftBy(c, "other")
  <2>1. VenueTypeOK'
    BY <1>1, <1>3, HandAssumption DEF UserTrades, VenueTypeOK
  <2>2. left' \in [Coins -> {"none", "stop", "target", "other"}]
    BY <1>3, LeftByType
  <2> QED BY <1>2, <2>1, <2>2, ElsewhereType
<1>4. CASE /\ UNCHANGED left
           /\ \/ \E c \in Coins, n \in FreshSlots : UserPlaces(c, n)
              \/ \E o \in book : UserCancels(o)
  <2>1. ASSUME NEW c \in Coins, NEW n \in FreshSlots, UserPlaces(c, n) PROVE VenueTypeOK'
    <3>1. [oid |-> n, tag |-> NoTag, coin |-> c, role |-> "foreign", sz |-> 1] \in Order
      BY DEF FreshSlots, FreeSlots, Order, Lots
    <3> QED BY <1>1, <2>1, <3>1 DEF UserPlaces, VenueTypeOK
  <2>2. ASSUME NEW o \in book, UserCancels(o) PROVE VenueTypeOK'
    BY <1>1, <2>2 DEF UserCancels, VenueTypeOK
  <2>3. left' \in [Coins -> {"none", "stop", "target", "other"}]
    BY <1>4 DEF TypeOK
  <2> QED BY <1>2, <1>4, <2>1, <2>2, <2>3, ElsewhereType
<1> QED BY <1>3, <1>4 DEF ByHand

LEMMA StutterType == TypeOK /\ UNCHANGED vars => TypeOK'
BY DEF TypeOK, VenueTypeOK, vars, venueVars, ledgerVars, dayVars, viewVars, workVars,
       historyVars

LEMMA NextType == TypeOK /\ [Next]_vars => TypeOK'
<1> SUFFICES ASSUME TypeOK, [Next]_vars PROVE TypeOK'
  OBVIOUS
<1>1. CASE LoopStep
  BY <1>1, BeginType, AssessType, ConsiderType, PlanPassType, SendType, CancelOneType,
     RecordType, ProtectType, SettleType DEF LoopStep
<1>2. CASE Surroundings
  BY <1>2, AbortType, BetweenPassesType, ExitFiresType, LiquidationType, ByHandType
     DEF Surroundings
<1> QED BY <1>1, <1>2, StutterType DEF Next

THEOREM TypeCorrect == Spec => []TypeOK
BY InitType, NextType, PTL DEF Spec

-----------------------------------------------------------------------------
(***************************************************************************)
(* One live intent per coin.                                               *)
(***************************************************************************)

(* A step that leaves the ledger's rows and the plan alone.                *)
LEMMA RowsUntouched ==
  ASSUME Inv, TypeOK', UNCHANGED <<status, terms, pc, listed, answer, todo, freshFills>>
  PROVE  Inv'
BY DEF Inv, OneLiveIntentPerCoin, PlannedApart, OnlyPlannedInFlight,
       LiveIds, Live, Coin, Acting, Listed

(* A step that ends or begins a pass, or is not acting on a plan, with the *)
(* rows as they were.                                                      *)
LEMMA NotActing ==
  ASSUME Inv, TypeOK', UNCHANGED <<status, terms>>, ~Acting',
         answer' = Unanswered, todo' = {}, freshFills' = {}
  PROVE  Inv'
BY DEF Inv, OneLiveIntentPerCoin, PlannedApart, OnlyPlannedInFlight, LiveIds, Live, Coin

LEMMA IdleIsEmpty ==
  ASSUME Inv, ~Acting
  PROVE  answer = Unanswered /\ todo = {} /\ freshFills = {}
BY DEF Inv, OnlyPlannedInFlight

LEMMA InitInv == Init => Inv
<1> SUFFICES ASSUME Init PROVE Inv
  OBVIOUS
<1>1. LiveIds = {}
  BY DEF Init, LiveIds, Live, LiveStatuses, Forgotten
<1>2. ~Acting /\ answer = Unanswered /\ todo = {} /\ freshFills = {}
  BY DEF Init, Acting
<1> QED BY <1>1, <1>2, InitType DEF Inv, OneLiveIntentPerCoin, PlannedApart, OnlyPlannedInFlight

LEMMA ConsiderInv ==
  ASSUME Inv, TypeOK', NEW s \in Signals, NEW side \in Sides, Consider(s, side)
  PROVE  Inv'
<1>1. PICK i \in Ids, hold \in HoldChoices, stop \in StopChoices :
        /\ status[i] = "none"
        /\ status' = [status EXCEPT ![i] = "pending"]
        /\ terms' = [terms EXCEPT ![i] =
                       [sig |-> s, side |-> side, hold |-> hold, stop |-> stop]]
  BY DEF Consider
<1>2. status \in [Ids -> Statuses] /\ terms \in [Ids -> Terms]
  BY DEF Inv, TypeOK
<1>3. \A j \in Ids \ {i} : status'[j] = status[j] /\ Coin(j)' = Coin(j)
  BY <1>1, <1>2 DEF Coin
<1>4. Coin(i)' = CoinOf[s]
  BY <1>1, <1>2 DEF Coin
<1>5. \A j \in LiveIds : Coin(j) # CoinOf[s]
  BY DEF Consider, Admissible
<1>6. i \notin LiveIds /\ LiveIds' = LiveIds \cup {i}
  BY <1>1, <1>2 DEF LiveIds, Live, LiveStatuses
<1>7. OneLiveIntentPerCoin'
  <2> SUFFICES ASSUME NEW j \in LiveIds', NEW k \in LiveIds', Coin(j)' = Coin(k)'
               PROVE  j = k
    BY DEF OneLiveIntentPerCoin
  <2>1. \A l \in LiveIds : l \in Ids /\ Coin(l)' = Coin(l)
    BY <1>3, <1>6 DEF LiveIds
  <2> QED BY <2>1, <1>4, <1>5, <1>6 DEF Inv, OneLiveIntentPerCoin
<1>8. ~Acting /\ ~Acting' /\ UNCHANGED <<answer, todo, freshFills>>
  BY DEF Consider, Acting, workVars
<1> QED BY <1>7, <1>8, IdleIsEmpty DEF Inv, PlannedApart, OnlyPlannedInFlight

LEMMA PlanPassInv == Inv /\ TypeOK' /\ PlanPass => Inv'
<1> SUFFICES ASSUME Inv, TypeOK', PlanPass PROVE Inv'
  OBVIOUS
<1>1. UNCHANGED <<status, terms, answer, freshFills>> /\ pc = "consider" /\ Acting'
  BY DEF PlanPass, Acting
<1>2. LiveIds' = LiveIds /\ \A i \in Ids : Coin(i)' = Coin(i)
  BY <1>1 DEF LiveIds, Live, Coin
<1>3. \A i \in Ids : Listed(i)' <=> i \in LiveIds
  BY DEF PlanPass, Listed, LiveIds, Live, LiveStatuses
<1>4. OneLiveIntentPerCoin' /\ PlannedApart'
  BY <1>2, <1>3 DEF Inv, OneLiveIntentPerCoin, PlannedApart, LiveIds
<1>5. answer' = Unanswered /\ freshFills' = {}
  BY <1>1, IdleIsEmpty DEF Acting
<1>6. \A a \in todo' : a.kind = "place" => Listed(a.tag)'
  BY <1>3, PlanType DEF Inv, LiveIds
<1> QED BY <1>1, <1>4, <1>5, <1>6 DEF Inv, OnlyPlannedInFlight

LEMMA SendInv ==
  ASSUME Inv, TypeOK', NEW a \in todo, NEW k \in 0..a.sz, Send(a, k)
  PROVE  Inv'
<1>1. UNCHANGED <<status, terms, pc, listed, freshFills>> /\ a.kind = "place"
  BY DEF Send, ledgerVars
<1>2. answer'.tag = a.tag /\ todo' \subseteq todo
  BY DEF Send
<1>3. OneLiveIntentPerCoin' /\ PlannedApart'
  BY <1>1 DEF Inv, OneLiveIntentPerCoin, PlannedApart, LiveIds, Live, Coin, Acting, Listed
<1> QED BY <1>1, <1>2, <1>3 DEF Inv, OnlyPlannedInFlight, Acting, Listed

LEMMA CancelOneInv ==
  ASSUME Inv, TypeOK', NEW a \in todo, CancelOne(a)
  PROVE  Inv'
<1>1. UNCHANGED <<status, terms, pc, listed, answer, freshFills>> /\ todo' \subseteq todo
  BY DEF CancelOne, ledgerVars
<1>2. OneLiveIntentPerCoin' /\ PlannedApart'
  BY <1>1 DEF Inv, OneLiveIntentPerCoin, PlannedApart, LiveIds, Live, Coin, Acting, Listed
<1> QED BY <1>1, <1>2 DEF Inv, OnlyPlannedInFlight, Acting, Listed

(* The row that an answer opens was planned from, so it holds its coin alone. *)
LEMMA RecordInv == Inv /\ TypeOK' /\ Record => Inv'
<1> SUFFICES ASSUME Inv, TypeOK', Record PROVE Inv'
  OBVIOUS
<1>1. Acting /\ Listed(answer.tag) /\ answer.tag \in Ids
  BY DEF Inv, OnlyPlannedInFlight, Record, TypeOK, Answer
<1>2. UNCHANGED <<terms, pc, listed, todo>> /\ answer' = Unanswered
  BY DEF Record
<1>3. freshFills' \subseteq freshFills \cup {answer.tag}
  BY DEF Record
<1>4. LiveIds' \subseteq LiveIds \cup {answer.tag}
  BY <1>1 DEF Record, Inv, TypeOK, LiveIds, Live, LiveStatuses
<1>5. PlannedApart'
  BY <1>1, <1>2, <1>4 DEF Inv, PlannedApart, Acting, Listed, Coin
<1>6. OneLiveIntentPerCoin'
  BY <1>1, <1>2, <1>5 DEF OneLiveIntentPerCoin, PlannedApart, Acting, LiveIds
<1> QED BY <1>1, <1>2, <1>3, <1>5, <1>6 DEF Inv, OnlyPlannedInFlight, Acting, Listed

LEMMA ProtectInv == Inv /\ TypeOK' /\ ProtectFreshFills => Inv'
<1> SUFFICES ASSUME Inv, TypeOK', ProtectFreshFills PROVE Inv'
  OBVIOUS
<1>1. UNCHANGED <<status, terms, listed, answer, freshFills>> /\ Acting /\ Acting'
  BY DEF ProtectFreshFills, Acting, ledgerVars
<1>2. OneLiveIntentPerCoin' /\ PlannedApart'
  BY <1>1 DEF Inv, OneLiveIntentPerCoin, PlannedApart, LiveIds, Live, Coin, Listed
<1>3. \A a \in todo' : Listed(a.tag)
  BY FreshExitsType DEF Inv, OnlyPlannedInFlight
<1> QED BY <1>1, <1>2, <1>3 DEF Inv, OnlyPlannedInFlight, Listed

(* Settling revives only rows the pass planned from.                       *)
LEMMA SettleInv ==
  ASSUME Inv, TypeOK', NEW near \in BOOLEAN, Settle(near)
  PROVE  Inv'
<1>1. UNCHANGED terms /\ Acting /\ ~Acting'
  BY DEF Settle, Acting
<1>2. answer' = Unanswered /\ todo' = {} /\ freshFills' = {}
  BY DEF Settle, ForgetLocals
<1>3. \A i \in LiveIds' : i \in Ids /\ Listed(i)
  <2> SUFFICES ASSUME NEW i \in Ids, Live(i)', ~Listed(i) PROVE FALSE
    BY DEF LiveIds
  <2>1. status'[i] = status[i]
    BY DEF Settle, SettledStatus, Unplanned, Listed
  <2> QED BY <2>1, <1>1 DEF Inv, PlannedApart, LiveIds, Live
<1>4. OneLiveIntentPerCoin'
  BY <1>1, <1>3 DEF Inv, PlannedApart, OneLiveIntentPerCoin, Coin
<1> QED BY <1>1, <1>2, <1>4 DEF Inv, PlannedApart, OnlyPlannedInFlight

LEMMA NextInv == Inv /\ [Next]_vars => Inv'
<1> SUFFICES ASSUME Inv, [Next]_vars PROVE Inv'
  OBVIOUS
<1>1. TypeOK'
  BY NextType DEF Inv
<1>2. CASE LoopStep
  <2>1. CASE Begin
    <3>1. ~Acting /\ ~Acting' /\ UNCHANGED <<status, terms, answer, todo, freshFills>>
      BY <2>1 DEF Begin, Acting, ledgerVars
    <3> QED BY <3>1, <1>1, IdleIsEmpty, NotActing
  <2>2. CASE \E fresh \in BOOLEAN, snapshot \in SUBSET (Signals \X Sides) :
               Assess(fresh, snapshot)
    <3>1. ~Acting /\ ~Acting' /\ UNCHANGED <<status, terms, answer, todo, freshFills>>
      BY <2>2 DEF Assess, Acting, ledgerVars, workVars
    <3> QED BY <3>1, <1>1, IdleIsEmpty, NotActing
  <2> QED BY <1>1, <1>2, <2>1, <2>2, ConsiderInv, PlanPassInv, SendInv, CancelOneInv,
             RecordInv, ProtectInv, SettleInv DEF LoopStep
<1>3. CASE Surroundings
  <2>1. CASE Abort
    <3>1. ~Acting' /\ UNCHANGED <<status, terms>>
          /\ answer' = Unanswered /\ todo' = {} /\ freshFills' = {}
      BY <2>1 DEF Abort, Acting, ForgetLocals, ledgerVars
    <3> QED BY <3>1, <1>1, NotActing
  <2>2. CASE ~Abort
    <3>1. UNCHANGED <<status, terms, pc, listed, answer, todo, freshFills>>
      BY <1>3, <2>2 DEF Surroundings, HorizonPasses, DayRolls, Observe, ClearHalt,
         ExitFires, Liquidation, ByHand, Elsewhere, ledgerVars, workVars
    <3> QED BY <3>1, <1>1, RowsUntouched
  <2> QED BY <2>1, <2>2
<1>4. CASE UNCHANGED vars
  BY <1>1, <1>4, RowsUntouched DEF vars, ledgerVars, workVars
<1> QED BY <1>2, <1>3, <1>4 DEF Next

(* At most one intent that is not finished holds a coin, whatever the      *)
(* venue answers, whoever else trades the account and wherever the process *)
(* dies.                                                                   *)
THEOREM OneIntentPerCoin == Spec => []OneLiveIntentPerCoin
<1>1. Inv => OneLiveIntentPerCoin
  BY DEF Inv
<1> QED BY <1>1, InitInv, NextInv, PTL DEF Spec

-----------------------------------------------------------------------------
(***************************************************************************)
(* The owner's own orders.  The pass cancels by the client order ids of a  *)
(* view that may be old by then: what has to be invariant is that none of  *)
(* those ids is, or will become, that of an order of the owner's.          *)
(***************************************************************************)

(* A step after which nothing new rests, is seen or is to be cancelled.    *)
LEMMA SlotsShrink ==
  ASSUME SlotsApart, book' \subseteq book, seenBook' \subseteq seenBook, todo' \subseteq todo
  PROVE  SlotsApart'
BY DEF SlotsApart, Ours

(* A fresh slot is that of nothing that rests, was seen or is to be cancelled. *)
LEMMA FreshSlotsAreFree ==
  ASSUME NEW n \in FreshSlots
  PROVE  /\ \A o \in book : o.oid # n
         /\ \A r \in seenBook : r.oid # n
         /\ \A a \in todo : a.kind = "cancel" => a.oid # n
BY DEF FreshSlots, FreeSlots, UsedBy

(* So an order that takes one, whoever's it is, stays apart from the rest. *)
LEMMA NewOrderStaysApart ==
  ASSUME SlotsApart, NEW n \in FreshSlots, NEW o, o.oid = n,
         book' = book \cup {o}, seenBook' = seenBook, todo' \subseteq todo
  PROVE  SlotsApart'
<1>1. /\ \A q \in book : q.oid # n
      /\ \A r \in seenBook : r.oid # n
      /\ \A a \in todo : a.kind = "cancel" => a.oid # n
  BY FreshSlotsAreFree
<1> QED BY <1>1 DEF SlotsApart, Ours

LEMMA SendSlots ==
  ASSUME Inv, SlotsApart, NEW a \in todo, NEW k \in 0..a.sz, Send(a, k)
  PROVE  SlotsApart' /\ book \subseteq book'
<1>1. todo' \subseteq todo /\ seenBook' = seenBook
  BY DEF Send, viewVars
<1>2. CASE book' = book
  BY <1>1, <1>2, SlotsShrink
<1>3. CASE \E n \in FreshSlots :
             book' = book \cup {[oid |-> n, tag |-> a.tag, coin |-> a.coin,
                                role |-> a.role, sz |-> a.sz]}
  BY <1>1, <1>3, NewOrderStaysApart
<1> QED BY <1>2, <1>3 DEF Send, Accepts, venueVars

LEMMA CancelOneSlots ==
  ASSUME SlotsApart, NEW a \in todo, CancelOne(a)
  PROVE  SlotsApart' /\ (book \ Ours(book)) \subseteq book'
<1>1. book' \subseteq book /\ todo' \subseteq todo /\ seenBook' = seenBook
  BY DEF CancelOne, viewVars
<1>2. \A o \in book : o.oid = a.oid => o \in Ours(book)
  BY DEF SlotsApart, CancelOne, Ours
<1>3. book \ {o \in book : o.oid = a.oid} \subseteq book'
  BY DEF CancelOne
<1> QED BY <1>1, <1>2, <1>3, SlotsShrink

LEMMA PlanPassSlots == Inv /\ SlotsApart /\ PlanPass => SlotsApart'
<1> SUFFICES ASSUME Inv, SlotsApart, PlanPass PROVE SlotsApart'
  OBVIOUS
<1>1. book' = book /\ seenBook' = {}
  BY DEF PlanPass, venueVars
<1>2. \A a \in todo' : a.kind = "cancel" => \E r \in Ours(seenBook) : a.oid = r.oid
  BY PlanType DEF Inv
<1> QED BY <1>1, <1>2 DEF SlotsApart, Ours

(* The steps of the loop keep the slots apart, and the owner's orders.     *)
LEMMA LoopStepSlots ==
  ASSUME Inv, SlotsApart, LoopStep
  PROVE  SlotsApart' /\ (book \ Ours(book)) \subseteq book'
<1>1. CASE Begin
  <2>1. todo = {}
    BY <1>1, IdleIsEmpty DEF Begin, Acting
  <2> QED BY <1>1, <2>1 DEF Begin, SlotsApart, venueVars, Ours
<1>2. CASE \E fresh \in BOOLEAN, snapshot \in SUBSET (Signals \X Sides) :
             Assess(fresh, snapshot)
  <2>1. book' = book /\ seenBook' \in {seenBook, book} /\ todo' = todo
    BY <1>2 DEF Assess, venueVars, workVars
  <2> QED BY <2>1 DEF SlotsApart, Ours
<1>3. CASE \E s \in Signals, side \in Sides : Consider(s, side)
  BY <1>3, SlotsShrink DEF Consider, venueVars, workVars
<1>4. CASE PlanPass
  BY <1>4, PlanPassSlots DEF PlanPass, venueVars
<1>5. CASE \E a \in todo : \E k \in 0..a.sz : Send(a, k)
  BY <1>5, SendSlots
<1>6. CASE \E a \in todo : CancelOne(a)
  BY <1>6, CancelOneSlots
<1>7. CASE Record
  BY <1>7, SlotsShrink DEF Record, venueVars, viewVars
<1>8. CASE ProtectFreshFills
  <2>1. \A a \in todo' : a.kind = "place"
    BY <1>8, FreshExitsType DEF Inv
  <2> QED BY <1>8, <2>1 DEF ProtectFreshFills, SlotsApart, venueVars, viewVars, Ours
<1>9. CASE \E near \in BOOLEAN : Settle(near)
  BY <1>9, SlotsShrink DEF Settle, ForgetLocals, venueVars
<1> QED BY <1>1, <1>2, <1>3, <1>4, <1>5, <1>6, <1>7, <1>8, <1>9 DEF LoopStep

LEMMA SurroundingsSlots ==
  ASSUME SlotsApart, Surroundings
  PROVE  SlotsApart'
<1>1. CASE Abort
  BY <1>1, SlotsShrink DEF Abort, ForgetLocals, venueVars
<1>2. CASE \/ \E i \in Ids : HorizonPasses(i)
           \/ DayRolls
           \/ \E s \in Signals : Observe(s)
           \/ ClearHalt
           \/ Liquidation
  BY <1>2, SlotsShrink DEF HorizonPasses, DayRolls, Observe, ClearHalt, Liquidation,
     Liquidates, Elsewhere, venueVars, viewVars, workVars
<1>3. CASE ExitFires
  BY <1>3, SlotsShrink DEF ExitFires, TriggerFires, Elsewhere, viewVars, workVars
<1>4. CASE ByHand
  <2>1. UNCHANGED <<seenBook, todo>>
    BY <1>4 DEF ByHand, Elsewhere, viewVars, workVars
  <2>2. CASE book' \subseteq book
    BY <2>1, <2>2, SlotsShrink
  <2>3. CASE \E c \in Coins, n \in FreshSlots : UserPlaces(c, n)
    BY <2>1, <2>3, NewOrderStaysApart DEF UserPlaces
  <2> QED BY <1>4, <2>2, <2>3 DEF ByHand, UserTrades, UserCancels
<1> QED BY <1>1, <1>2, <1>3, <1>4 DEF Surroundings

LEMMA SlotsInv == Spec => [](Inv /\ SlotsApart)
<1>1. Init => Inv /\ SlotsApart
  BY InitInv DEF Init, VenueInit, SlotsApart, Ours
<1>2. Inv /\ SlotsApart /\ [Next]_vars => (Inv /\ SlotsApart)'
  <2>1. CASE UNCHANGED vars
    BY <2>1, NextInv, SlotsShrink DEF vars, venueVars, viewVars, workVars
  <2> QED BY <2>1, NextInv, LoopStepSlots, SurroundingsSlots DEF Next
<1> QED BY <1>1, <1>2, PTL DEF Spec

(* No step of the loop takes an order of the owner's off the book: the     *)
(* client order ids it cancels were read before the owner, the triggers    *)
(* and its own placements changed the book, and still name nothing else.   *)
THEOREM OwnersOrdersStay == Spec => HandOrdersStay
<1>1. Inv /\ SlotsApart /\ [Next]_vars =>
        [LoopStep => (book \ Ours(book)) \subseteq book']_vars
  BY LoopStepSlots
<1> QED BY <1>1, SlotsInv, PTL DEF Spec, HandOrdersStay

=============================================================================
