----------------------------- MODULE BookProofs -----------------------------
(***************************************************************************)
(* What the ledger of an account says of its positions, whatever the coins, *)
(* signals, sizes and bounds: that a pass nobody disturbed finds every     *)
(* stranger, and, on an account that nobody trades by hand and whose       *)
(* answers are not lost, that every position is accounted for, that rows   *)
(* which are finished stay so, and that the loop implements CoinClaims.    *)
(*                                                                         *)
(* Then its stops.  Those that rest: the book after a pass that nothing    *)
(* disturbed, whatever the answers lost before it and the hands in the     *)
(* account, is what the rows ask for, provided the venue quotes every      *)
(* market.  Those that have fired: on an account that nobody trades by     *)
(* hand, the coin and side of one are closed to new rows until the day     *)
(* rolls.                                                                  *)
(***************************************************************************)
EXTENDS TickProofs, FiniteSetTheorems

(* The one order by which an intent takes its position up.                 *)
IsEntry(a) == a.kind = "place" /\ a.role = "entry"
EntryOf(i) == Place([tag |-> i, coin |-> Coin(i), role |-> "entry", sz |-> EntrySize])

(* The intent i was planned from flat, to be entered.                      *)
ToEnter(i) ==
  /\ listed[i] = "pending"
  /\ i \notin closing
  /\ seenPos[Coin(i)] = 0

(***************************************************************************)
(* The rows while a pass acts on its plan.                                 *)
(***************************************************************************)
EntriesArePlanned ==
  \A a \in todo : IsEntry(a) =>
    pc = "act" /\ a = EntryOf(a.tag) /\ status[a.tag] = "pending" /\ ToEnter(a.tag)

EntryInFlight ==
  answer # Unanswered /\ answer.role = "entry" =>
    /\ status[answer.tag] = "pending" /\ ToEnter(answer.tag)
    /\ \A a \in todo : IsEntry(a) => a.tag # answer.tag

RowsFollowThePlan ==
  Acting => \A i \in Ids :
    /\ listed[i] \in {"open", "closing"} => status[i] = listed[i]
    /\ Listed(i) => status[i] # "none"
    /\ Listed(i) /\ status[i] \in Finished => ToEnter(i)

RowsInv == EntriesArePlanned /\ EntryInFlight /\ RowsFollowThePlan

(***************************************************************************)
(* What a pass knows of the account while nothing disturbs it.             *)
(***************************************************************************)
CalmView ==
  calm =>
    /\ pc \in {"view", "consider"} => seenPos = pos /\ seenBook = book
    /\ Acting /\ answer = Unanswered /\ ~touched => seenPos = pos
    /\ answer # Unanswered => answer.ok

CalmClaims ==
  calm /\ Acting /\ ~holding =>
    /\ \A c \in Coins : pos[c] # 0 => \E i \in Ids : Listed(i) /\ Coin(i) = c
    /\ book = Ours(book)

CalmInv == CalmView /\ CalmClaims /\ StrangersStopTheAccount

(***************************************************************************)
(* Positions, on an account nobody trades by hand and no answer is lost on. *)
(***************************************************************************)
Unsettled == answer # Unanswered /\ answer.ok

FlatIsFlat ==
  pc \in {"view", "consider"} \/ (Acting /\ ~touched /\ ~Unsettled)
    => \A c \in Coins : seenPos[c] = 0 => pos[c] = 0

EntersFromFlat ==
  /\ \A a \in todo : IsEntry(a) => pos[Coin(a.tag)] = 0
  /\ answer # Unanswered /\ answer.role = "entry" /\ ~answer.ok => pos[Coin(answer.tag)] = 0
  /\ Acting => \A i \in Ids : Listed(i) /\ status[i] \in Finished => pos[Coin(i)] = 0

PositionsInv == FlatIsFlat /\ EntersFromFlat /\ EveryPositionIsAccountedFor

-----------------------------------------------------------------------------
(* The one entry a plan can ask for is that of a pending row the pass found *)
(* flat and does not close.                                                *)
LEMMA DesiredEntry ==
  ASSUME NEW n, NEW held \in Nat, NEW w \in Desired(n, held), w.role = "entry"
  PROVE  /\ held = 0 /\ n.status = "pending" /\ ~IsClosing(n, held)
         /\ w = Want(n, "entry", EntrySize)
<1>1. CASE held = 0
  BY <1>1 DEF Desired
<1>2. CASE held # 0
  BY <1>2 DEF Desired, Want
<1> QED BY <1>1, <1>2

LEMMA ReconcilePlaces ==
  ASSUME NEW wanted, NEW orders, NEW lead, NEW a \in Reconcile(wanted, orders, lead),
         a.kind = "place"
  PROVE  \E w \in wanted : a = Place(w)
<1>1. \A o, why : Cancel(o, why).kind = "cancel"
  BY DEF Cancel
<1> QED BY <1>1 DEF Reconcile

LEMMA PlanEntries ==
  ASSUME Inv, PlanPass, NEW a \in todo', IsEntry(a)
  PROVE  /\ a.tag \in LiveIds /\ a = EntryOf(a.tag)
         /\ status[a.tag] = "pending" /\ a.tag \notin closing' /\ seenPos[Coin(a.tag)] = 0
<1> DEFINE priced  == {i \in LiveIds : Coin(i) \notin unpriced}
           held(i) == Held(seenPos, Coin(i))
           row(i)  == Row(i, i \in forced)
           wanted  == UNION {Desired(row(i), held(i)) : i \in priced}
<1>1. PICK lead : a \in Reconcile(wanted, seenBook, lead)
  BY UnderHaltShrinks DEF PlanPass
<1>2. \E w \in wanted : a = Place(w)
  <2> HIDE DEF wanted
  <2> QED BY <1>1, ReconcilePlaces DEF IsEntry
<1>a. PICK i \in priced : \E w \in Desired(row(i), held(i)) : a = Place(w)
  BY <1>2
<1>3. PICK w \in Desired(row(i), held(i)) : a = Place(w)
  BY <1>a
<1>4. i \in Ids /\ Coin(i) \in Coins /\ held(i) \in Nat
  BY RowType, HeldType DEF Inv, TypeOK, LiveIds
<1>5. w.role = "entry"
  BY <1>3 DEF IsEntry, Place
<1>6. /\ held(i) = 0 /\ row(i).status = "pending" /\ ~IsClosing(row(i), held(i))
      /\ w = Want(row(i), "entry", EntrySize)
  <2> HIDE DEF row, held
  <2> QED BY <1>4, <1>5, DesiredEntry
<1>7. row(i).id = i /\ row(i).coin = Coin(i) /\ row(i).status = status[i]
  BY DEF Row
<1>8. w = [tag |-> i, coin |-> Coin(i), role |-> "entry", sz |-> EntrySize]
  BY <1>6, <1>7 DEF Want
<1>9. a = EntryOf(i) /\ a.tag = i
  BY <1>3, <1>8 DEF EntryOf, Place
<1>10. i \notin closing'
  BY <1>6 DEF PlanPass
<1>11. seenPos[Coin(i)] = 0
  BY <1>4, <1>6 DEF Held, Inv, TypeOK
<1> QED BY <1>6, <1>7, <1>9, <1>10, <1>11

(* A step that leaves the rows and the plan alone.                         *)
LEMMA RowsKept ==
  ASSUME RowsInv, UNCHANGED <<status, terms, pc, listed, closing, seenPos, answer>>,
         todo' \subseteq todo
  PROVE  RowsInv'
BY DEF RowsInv, EntriesArePlanned, EntryInFlight, RowsFollowThePlan, ToEnter, EntryOf,
       Coin, Acting, Listed

LEMMA NotActingRows ==
  ASSUME ~Acting', answer' = Unanswered, todo' = {}
  PROVE  RowsInv'
BY DEF RowsInv, EntriesArePlanned, EntryInFlight, RowsFollowThePlan

LEMMA PlanPassRows == Inv /\ PlanPass => RowsInv'
<1> SUFFICES ASSUME Inv, PlanPass PROVE RowsInv'
  OBVIOUS
<1>1. UNCHANGED <<status, terms, answer, seenPos>> /\ pc = "consider" /\ pc' = "act"
  BY DEF PlanPass
<1>2. \A i \in Ids : /\ Coin(i)' = Coin(i) /\ EntryOf(i)' = EntryOf(i)
                     /\ listed'[i] = IF Live(i) THEN status[i] ELSE "none"
  BY <1>1 DEF PlanPass, Coin, EntryOf
<1>3. answer' = Unanswered
  BY <1>1, IdleIsEmpty DEF Acting
<1>4. EntriesArePlanned'
  <2> SUFFICES ASSUME NEW a \in todo', IsEntry(a)
               PROVE  a = EntryOf(a.tag)' /\ status'[a.tag] = "pending" /\ ToEnter(a.tag)'
    BY <1>1 DEF EntriesArePlanned
  <2>1. /\ a.tag \in LiveIds /\ a = EntryOf(a.tag)
        /\ status[a.tag] = "pending" /\ a.tag \notin closing' /\ seenPos[Coin(a.tag)] = 0
    BY PlanEntries
  <2> QED BY <2>1, <1>1, <1>2 DEF ToEnter, LiveIds
<1>5. RowsFollowThePlan'
  <2>1. \A i \in Ids : /\ listed'[i] \in {"none", status[i]}
                       /\ listed'[i] # "none" => status[i] \in LiveStatuses
    BY <1>2 DEF Live
  <2> QED BY <1>1, <2>1 DEF RowsFollowThePlan, Listed, LiveStatuses, Finished
<1> QED BY <1>3, <1>4, <1>5 DEF RowsInv, EntryInFlight

LEMMA SendRows ==
  ASSUME Inv, RowsInv, NEW a \in todo, NEW k \in 0..a.sz, Send(a, k)
  PROVE  RowsInv'
<1>1. /\ UNCHANGED <<status, terms, pc, listed, closing, seenPos>>
      /\ todo' = todo \ {a} /\ a.kind = "place"
      /\ answer'.tag = a.tag /\ answer'.role = a.role
  BY DEF Send, ledgerVars, viewVars
<1>2. EntriesArePlanned' /\ RowsFollowThePlan'
  BY <1>1 DEF RowsInv, EntriesArePlanned, RowsFollowThePlan, ToEnter, EntryOf, Coin, Acting, Listed
<1>3. EntryInFlight'
  <2> SUFFICES ASSUME a.role = "entry"
               PROVE  /\ status[a.tag] = "pending" /\ ToEnter(a.tag)
                      /\ \A b \in todo \ {a} : IsEntry(b) => b.tag # a.tag
    BY <1>1 DEF EntryInFlight, ToEnter, Coin
  <2>1. IsEntry(a)
    BY <1>1 DEF IsEntry
  <2> QED BY <2>1 DEF RowsInv, EntriesArePlanned
<1> QED BY <1>2, <1>3 DEF RowsInv

(* Only the row of an entry in flight changes while a pass acts.           *)
LEMMA RecordRows == Inv /\ RowsInv /\ Record => RowsInv'
<1> SUFFICES ASSUME Inv, RowsInv, Record PROVE RowsInv'
  OBVIOUS
<1> DEFINE i == answer.tag
<1>1. /\ UNCHANGED <<terms, pc, listed, closing, seenPos, todo>>
      /\ answer # Unanswered /\ answer' = Unanswered
  BY DEF Record, viewVars
<1>2. i \in Ids /\ status \in [Ids -> Statuses]
  BY <1>1 DEF Inv, TypeOK, Answer
<1>3. CASE status' = status
  BY <1>1, <1>3 DEF RowsInv, EntriesArePlanned, EntryInFlight, RowsFollowThePlan, ToEnter,
     EntryOf, Coin, Acting, Listed
<1>4. CASE answer.role = "entry" /\ \E s \in {"open", "failed"} : status' = [status EXCEPT ![i] = s]
  <2>1. ToEnter(i) /\ \A a \in todo : IsEntry(a) => a.tag # i
    BY <1>1, <1>4 DEF RowsInv, EntryInFlight
  <2>2. (\A j \in Ids \ {i} : status'[j] = status[j]) /\ status'[i] \in {"open", "failed"}
    BY <1>2, <1>4
  <2>3. EntriesArePlanned'
    <3> SUFFICES ASSUME NEW a \in todo, IsEntry(a)
                 PROVE  (pc = "act" /\ a = EntryOf(a.tag) /\ status[a.tag] = "pending" /\ ToEnter(a.tag))'
      BY <1>1 DEF EntriesArePlanned
    <3>1. pc = "act" /\ a = EntryOf(a.tag) /\ status[a.tag] = "pending" /\ ToEnter(a.tag)
      BY DEF RowsInv, EntriesArePlanned
    <3>2. a.tag \in Ids
      BY DEF Inv, TypeOK, Action
    <3> QED BY <3>1, <3>2, <2>1, <2>2, <1>1 DEF ToEnter, EntryOf, Coin
  <2>4. RowsFollowThePlan'
    <3>1. \A j \in Ids : ToEnter(j)' = ToEnter(j) /\ Listed(j)' = Listed(j)
      BY <1>1 DEF ToEnter, Coin, Listed
    <3>2. listed'[i] = "pending" /\ Acting' = Acting
      BY <1>1, <2>1 DEF ToEnter, Acting
    <3> QED BY <1>1, <2>1, <2>2, <3>1, <3>2 DEF RowsInv, RowsFollowThePlan
  <2> QED BY <1>1, <2>3, <2>4 DEF RowsInv, EntryInFlight
<1> QED BY <1>3, <1>4 DEF Record

LEMMA ProtectRows == Inv /\ RowsInv /\ ProtectFreshFills => RowsInv'
<1> SUFFICES ASSUME Inv, RowsInv, ProtectFreshFills PROVE RowsInv'
  OBVIOUS
<1>1. UNCHANGED <<status, terms, listed, closing, seenPos, answer>> /\ Acting /\ Acting'
      /\ answer = Unanswered
  BY DEF ProtectFreshFills, Executed, Acting, ledgerVars, viewVars
<1>2. \A a \in todo' : \E w : a = Place(w) /\ w.role # "entry"
  BY DEF ProtectFreshFills
<1>3. \A a \in todo' : ~IsEntry(a)
  BY <1>2 DEF IsEntry, Place
<1> QED BY <1>1, <1>3 DEF RowsInv, EntriesArePlanned, EntryInFlight, RowsFollowThePlan,
           ToEnter, Coin, Listed

LEMMA RowsNext == Inv /\ RowsInv /\ [Next]_vars => RowsInv'
<1> SUFFICES ASSUME Inv, RowsInv, [Next]_vars PROVE RowsInv'
  OBVIOUS
<1>1. CASE LoopStep
  <2>1. CASE \/ Begin
             \/ \E fresh \in BOOLEAN, snapshot \in SUBSET (Signals \X Sides) :
                  Assess(fresh, snapshot)
             \/ \E s \in Signals, side \in Sides : Consider(s, side)
    <3>1. ~Acting /\ ~Acting' /\ UNCHANGED <<answer, todo>>
      BY <2>1 DEF Begin, Assess, Consider, Acting, workVars
    <3> QED BY <3>1, IdleIsEmpty, NotActingRows
  <2>2. CASE \E near \in BOOLEAN : Settle(near)
    BY <2>2, NotActingRows DEF Settle, ForgetLocals, Acting
  <2>3. CASE \E a \in todo : CancelOne(a)
    BY <2>3, RowsKept DEF CancelOne, ledgerVars, viewVars
  <2> QED BY <1>1, <2>1, <2>2, <2>3, PlanPassRows, SendRows, RecordRows, ProtectRows DEF LoopStep
<1>2. CASE Surroundings
  <2>1. CASE Abort
    BY <2>1, NotActingRows DEF Abort, ForgetLocals, Acting
  <2>2. CASE ~Abort
    <3>1. UNCHANGED <<status, terms, pc, listed, closing, seenPos, answer, todo>>
      BY <1>2, <2>2 DEF Surroundings, HorizonPasses, DayRolls, Observe, ClearHalt,
         ExitFires, Liquidation, ByHand, Elsewhere, ledgerVars, viewVars, workVars
    <3> QED BY <3>1, RowsKept
  <2> QED BY <2>1, <2>2
<1>3. CASE UNCHANGED vars
  BY <1>3, RowsKept DEF vars, ledgerVars, viewVars, workVars
<1> QED BY <1>1, <1>2, <1>3 DEF Next

LEMMA RowsHold == Spec => [](Inv /\ RowsInv)
<1>1. Init => Inv /\ RowsInv
  BY InitInv DEF Init, RowsInv, EntriesArePlanned, EntryInFlight, RowsFollowThePlan, Acting
<1>2. Inv /\ RowsInv /\ [Next]_vars => (Inv /\ RowsInv)'
  BY NextInv, RowsNext
<1> QED BY <1>1, <1>2, PTL DEF Spec

-----------------------------------------------------------------------------
(***************************************************************************)
(* What the venue does to the positions.                                   *)
(***************************************************************************)
Toward(q, p) ==
  \A d \in Coins :
    /\ q[d] > 0 => p[d] > 0
    /\ q[d] < 0 => p[d] < 0
    /\ Held(q, d) <= Held(p, d)

LEMMA TowardZero ==
  ASSUME NEW p \in [Coins -> Int], NEW q \in [Coins -> Int], Toward(q, p)
  PROVE  \A d \in Coins : p[d] = 0 => q[d] = 0
<1> SUFFICES ASSUME NEW d \in Coins, p[d] = 0 PROVE q[d] = 0
  OBVIOUS
<1>1. p[d] \in Int /\ q[d] \in Int
  OBVIOUS
<1> QED BY <1>1 DEF Toward

LEMMA TowardItself ==
  ASSUME NEW p \in [Coins -> Int]
  PROVE  Toward(p, p)
<1> SUFFICES ASSUME NEW d \in Coins PROVE Held(p, d) <= Held(p, d)
  BY DEF Toward
<1> QED BY HeldType

(* A reduce-only fill takes a position towards flat, and no farther.       *)
LEMMA ReducedIsToward ==
  ASSUME NEW p \in [Coins -> Int], NEW c \in Coins, NEW buy \in BOOLEAN, NEW k \in Nat
  PROVE  Toward(Reduced(p, c, buy, k), p)
<1> DEFINE q == Reduced(p, c, buy, k)
<1> SUFFICES ASSUME NEW d \in Coins
             PROVE  /\ q[d] > 0 => p[d] > 0
                    /\ q[d] < 0 => p[d] < 0
                    /\ Held(q, d) <= Held(p, d)
  BY DEF Toward
<1>1. p[d] \in Int /\ p[c] \in Int
  OBVIOUS
<1>2. CASE (buy /\ p[c] >= 0) \/ (~buy /\ p[c] <= 0) \/ d # c
  <2>1. q[d] = p[d]
    BY <1>2 DEF Reduced
  <2> QED BY <2>1, <1>1 DEF Held
<1>3. CASE buy /\ p[c] < 0 /\ d = c
  <2>1. q[d] = p[d] + Lesser(k, -p[d])
    BY <1>3, <1>1 DEF Reduced, Signed, Held
  <2> QED BY <2>1, <1>1, <1>3 DEF Held, Lesser
<1>4. CASE ~buy /\ p[c] > 0 /\ d = c
  <2>1. q[d] = p[d] - Lesser(k, p[d])
    BY <1>4, <1>1 DEF Reduced, Signed, Held, Lesser
  <2> QED BY <2>1, <1>1, <1>4 DEF Held, Lesser
<1> QED BY <1>1, <1>2, <1>3, <1>4

(* What an accepted order does: an entry nets into its own coin, and any   *)
(* other order takes the positions towards flat.                           *)
LEMMA AcceptsMoves ==
  ASSUME TypeOK, NEW a \in Action, NEW k \in Nat, Accepts(a, k)
  PROVE  /\ a.role = "entry" => pos' = Netted(pos, a.coin, Buys(a.tag, "entry"), k)
         /\ a.role # "entry" => Toward(pos', pos)
         /\ book' = book \/ \E o : o.tag = a.tag /\ book' = book \cup {o}
<1>1. pos \in [Coins -> Int] /\ a.coin \in Coins /\ Buys(a.tag, a.role) \in BOOLEAN
  BY BuysType DEF TypeOK, VenueTypeOK, Action
<1>2. a.role # "entry" => Toward(pos', pos)
  BY <1>1, ReducedIsToward, TowardItself DEF Accepts
<1>3. a.role = "entry" => pos' = Netted(pos, a.coin, Buys(a.tag, "entry"), k)
  BY DEF Accepts
<1>4. book' = book \/ \E o : o.tag = a.tag /\ book' = book \cup {o}
  BY DEF Accepts
<1> QED BY <1>2, <1>3, <1>4

LEMMA NettedElsewhere ==
  ASSUME NEW p \in [Coins -> Int], NEW c \in Coins, NEW buy \in BOOLEAN, NEW k \in Nat,
         NEW d \in Coins
  PROVE  /\ d # c => Netted(p, c, buy, k)[d] = p[d]
         /\ Netted(p, c, buy, k)[c] = p[c] + Signed(buy, k)
BY DEF Netted

LEMMA ActionParts ==
  ASSUME TypeOK, NEW a \in todo
  PROVE  a \in Action /\ a.tag \in Ids /\ a.tag # NoTag /\ a.coin \in Coins /\ a.sz \in Nat
<1>1. a \in Action
  BY DEF TypeOK
<1> QED BY <1>1, IdsAssumption DEF Action, NoTag, Lots

(* An answer is told from none by its tag.                                 *)
LEMMA Answered ==
  ASSUME TypeOK, NEW a \in todo, answer'.tag = a.tag
  PROVE  answer' # Unanswered
BY ActionParts DEF Unanswered

-----------------------------------------------------------------------------
(***************************************************************************)
(* A pass that nothing disturbs sees the account as it is.                 *)
(***************************************************************************)
LEMMA CalmKept ==
  ASSUME CalmInv,
         UNCHANGED <<venueVars, status, terms, pc, seenPos, seenBook, listed, answer, touched,
                     holding, calm>>
  PROVE  CalmInv'
<1>1. LiveIds' = LiveIds /\ \A i \in Ids : Coin(i)' = Coin(i) /\ Listed(i)' = Listed(i)
  BY DEF LiveIds, Live, Coin, Listed
<1>2. CalmView'
  BY DEF CalmInv, CalmView, Acting, venueVars
<1>3. CalmClaims'
  BY <1>1 DEF CalmInv, CalmClaims, Acting, venueVars, Ours
<1>4. StrangersStopTheAccount'
  <2>1. \A i \in LiveIds : i \in LiveIds' /\ Coin(i)' = Coin(i)
    BY <1>1 DEF LiveIds
  <2>2. UNCHANGED <<pc, calm, holding, pos, book>>
    BY DEF venueVars
  <2> QED BY <2>1, <2>2 DEF CalmInv, StrangersStopTheAccount, Undisturbed, Ours
<1> QED BY <1>2, <1>3, <1>4 DEF CalmInv

LEMMA NotCalm == ASSUME ~calm' PROVE CalmInv'
BY DEF CalmInv, CalmView, CalmClaims, StrangersStopTheAccount, Undisturbed

LEMMA LookingCalm ==
  ASSUME Inv, CalmInv,
         \/ Begin
         \/ \E fresh \in BOOLEAN, snapshot \in SUBSET (Signals \X Sides) : Assess(fresh, snapshot)
         \/ \E s \in Signals, side \in Sides : Consider(s, side)
  PROVE  CalmInv'
<1>1. ~Acting /\ pc' \in {"view", "consider"} /\ UNCHANGED <<venueVars, answer>>
  BY DEF Begin, Assess, Consider, Acting, workVars
<1>2. answer' = Unanswered
  BY <1>1, IdleIsEmpty
<1>3. calm' => seenPos' = pos /\ seenBook' = book
  BY DEF Begin, Assess, Consider, CalmInv, CalmView, historyVars
<1> QED BY <1>1, <1>2, <1>3 DEF CalmInv, CalmView, CalmClaims, StrangersStopTheAccount,
           Undisturbed, Acting, venueVars

LEMMA PlanPassCalm == Inv /\ CalmInv /\ PlanPass => CalmInv'
<1> SUFFICES ASSUME Inv, CalmInv, PlanPass PROVE CalmInv'
  OBVIOUS
<1>1. /\ UNCHANGED <<venueVars, terms, answer, seenPos, calm>>
      /\ pc = "consider" /\ pc' = "act"
  BY DEF PlanPass, historyVars
<1>2. answer' = Unanswered
  BY <1>1, IdleIsEmpty DEF Acting
<1>3. ASSUME calm, ~holding' PROVE CalmClaims'
  <2>1. seenPos = pos /\ seenBook = book
    BY <1>1, <1>3 DEF CalmInv, CalmView
  <2>2. ~Halts(cond, pos, {Coin(i) : i \in LiveIds}, book)
    BY <1>3, <2>1 DEF PlanPass
  <2>3. ForeignPositions(pos, {Coin(i) : i \in LiveIds}) = {} /\ book = Ours(book)
    BY <2>2 DEF Halts, StickyHalt
  <2>4. \A c \in Coins : pos[c] # 0 => \E i \in LiveIds : Coin(i) = c
    BY <2>3 DEF ForeignPositions
  <2>5. \A i \in LiveIds : i \in Ids /\ Listed(i)' /\ Coin(i)' = Coin(i)
    BY <1>1 DEF PlanPass, Listed, LiveIds, Live, LiveStatuses, Coin
  <2> QED BY <1>1, <2>3, <2>4, <2>5 DEF CalmClaims, venueVars, Ours
<1>4. CalmClaims'
  BY <1>1, <1>3 DEF CalmClaims
<1> QED BY <1>1, <1>2, <1>4 DEF CalmInv, CalmView, StrangersStopTheAccount, Undisturbed, venueVars

LEMMA SendCalm ==
  ASSUME Inv, RowsInv, CalmInv, NEW a \in todo, NEW k \in 0..a.sz, Send(a, k)
  PROVE  CalmInv'
<1>1. CASE ~calm'
  BY <1>1, NotCalm
<1>2. CASE calm'
  <2>1. /\ Accepts(a, k) /\ calm
        /\ answer' = [tag |-> a.tag, role |-> a.role, ok |-> TRUE, k |-> k]
    BY <1>2 DEF Send, Fault
  <2>2. /\ UNCHANGED <<pc, terms, listed, holding>> /\ a.kind = "place" /\ Acting
    BY DEF Send, ledgerVars, Inv, OnlyPlannedInFlight
  <2>3. TypeOK /\ a \in Action /\ a.tag \in Ids /\ a.tag # NoTag /\ a.coin \in Coins /\ k \in Nat
    BY ActionParts DEF Inv
  <2>4. answer' # Unanswered /\ answer'.ok
    BY <2>1, <2>3 DEF Unanswered
  <2>5. CalmView'
    BY <2>2, <2>4 DEF CalmView, Acting
  <2>6. ASSUME ~holding, NEW c \in Coins, pos'[c] # 0
        PROVE  \E i \in Ids : Listed(i)' /\ Coin(i)' = c
    <3>1. CASE pos[c] # 0
      BY <3>1, <2>1, <2>2, <2>6 DEF CalmInv, CalmClaims, Listed, Coin
    <3>2. CASE pos[c] = 0
      <4>1. pos \in [Coins -> Int] /\ pos' \in [Coins -> Int]
        BY <2>1, <2>3, AcceptsType DEF TypeOK, VenueTypeOK
      <4>2. a.role = "entry"
        BY <3>2, <2>1, <2>3, <2>6, <4>1, AcceptsMoves, TowardZero
      <4>3. IsEntry(a)
        BY <4>2, <2>2 DEF IsEntry
      <4>4. a = EntryOf(a.tag) /\ Listed(a.tag)
        BY <4>3 DEF RowsInv, EntriesArePlanned, ToEnter, Listed
      <4>5. a.coin = Coin(a.tag)
        BY <4>4 DEF EntryOf, Place
      <4>6. pos' = Netted(pos, a.coin, Buys(a.tag, "entry"), k)
        BY <2>1, <2>3, <4>2, AcceptsMoves
      <4>7. c = a.coin
        BY <4>1, <4>6, <3>2, <2>3, <2>6, BuysType, NettedElsewhere
      <4> QED BY <4>4, <4>5, <4>7, <2>2, <2>3 DEF Listed, Coin
    <3> QED BY <3>1, <3>2
  <2>7. ~holding => book' = Ours(book')
    <3>1. \A o \in book' : o \in book \/ o.tag = a.tag
      BY <2>1, <2>3, AcceptsMoves
    <3>2. ~holding => book = Ours(book)
      BY <2>1, <2>2 DEF CalmInv, CalmClaims
    <3> QED BY <3>1, <3>2, <2>3 DEF Ours
  <2>8. CalmClaims'
    BY <2>2, <2>6, <2>7 DEF CalmClaims, Ours
  <2> QED BY <2>2, <2>5, <2>8 DEF CalmInv, StrangersStopTheAccount, Undisturbed, Acting
<1> QED BY <1>1, <1>2

LEMMA RecordCalm == Inv /\ CalmInv /\ Record => CalmInv'
<1> SUFFICES ASSUME Inv, CalmInv, Record PROVE CalmInv'
  OBVIOUS
<1>1. /\ UNCHANGED <<venueVars, terms, pc, listed, holding, calm>>
      /\ answer # Unanswered /\ answer' = Unanswered /\ touched' = (touched \/ answer.ok)
  BY DEF Record, historyVars
<1>2. Acting
  BY <1>1 DEF Inv, OnlyPlannedInFlight
<1>3. calm => touched'
  BY <1>1 DEF CalmInv, CalmView
<1>4. CalmClaims'
  BY <1>1 DEF CalmInv, CalmClaims, Acting, Listed, Coin, venueVars, Ours
<1> QED BY <1>1, <1>2, <1>3, <1>4 DEF CalmInv, CalmView, StrangersStopTheAccount,
           Undisturbed, Acting

LEMMA CancelOneCalm ==
  ASSUME Inv, CalmInv, NEW a \in todo, CancelOne(a)
  PROVE  CalmInv'
<1>1. CASE ~calm'
  BY <1>1, NotCalm
<1>2. CASE calm'
  <2>1. /\ UNCHANGED <<pos, terms, pc, seenPos, listed, holding, answer>>
        /\ calm /\ book' \subseteq book /\ (touched => touched') /\ answer = Unanswered
    BY <1>2 DEF CancelOne, NoFault, Fault, ledgerVars, viewVars, Due
  <2>2. Acting
    BY DEF Inv, OnlyPlannedInFlight
  <2>3. CalmClaims'
    BY <2>1 DEF CalmInv, CalmClaims, Acting, Listed, Coin, Ours
  <2> QED BY <2>1, <2>2, <2>3 DEF CalmInv, CalmView, StrangersStopTheAccount, Undisturbed, Acting
<1> QED BY <1>1, <1>2

LEMMA ProtectCalm == Inv /\ CalmInv /\ ProtectFreshFills => CalmInv'
<1> SUFFICES ASSUME Inv, CalmInv, ProtectFreshFills PROVE CalmInv'
  OBVIOUS
<1>1. /\ UNCHANGED <<venueVars, terms, seenPos, listed, holding, answer, touched, calm>>
      /\ Acting /\ Acting' /\ pc' = "protect"
  BY DEF ProtectFreshFills, Acting, ledgerVars, viewVars, historyVars
<1>2. CalmClaims'
  BY <1>1 DEF CalmInv, CalmClaims, Listed, Coin, venueVars, Ours
<1> QED BY <1>1, <1>2 DEF CalmInv, CalmView, StrangersStopTheAccount, Undisturbed, venueVars

(* Settling, in a calm pass, is done on the account as it is; a row that   *)
(* was planned from and whose coin is held comes out of it alive.          *)
LEMMA SettlesOnWhatIs ==
  ASSUME Inv, CalmInv, NEW near \in BOOLEAN, Settle(near), calm
  PROVE  SettleView = pos
BY DEF Settle, Executed, SettleView, CalmInv, CalmView, Acting

LEMMA HeldRowLives ==
  ASSUME Inv, RowsInv, NEW near \in BOOLEAN, Settle(near),
         NEW i \in Ids, Listed(i), SettleView[Coin(i)] # 0
  PROVE  /\ status'[i] \in {"open", "closing"}
         /\ filled'[i] = Held(SettleView, Coin(i))
<1>1. Acting
  BY DEF Settle, Acting
<1>2. listed[i] \in {"pending", "open", "closing"}
  BY DEF Inv, TypeOK, LiveStatuses, Listed
<1>3. listed[i] \in {"open", "closing"} => status[i] = listed[i]
  BY <1>1 DEF RowsInv, RowsFollowThePlan
<1>4. status'[i] = SettledStatus(i, SettleView)
  BY DEF Settle
<1>5. status'[i] \in {"open", "closing"}
  BY <1>2, <1>3, <1>4 DEF SettledStatus, Unplanned, Listed
<1>6. filled'[i] = Held(SettleView, Coin(i))
  BY DEF Settle, Unplanned, Listed
<1> QED BY <1>5, <1>6

LEMMA SettleCalm ==
  ASSUME Inv, RowsInv, CalmInv, NEW near \in BOOLEAN, Settle(near)
  PROVE  CalmInv'
<1>1. /\ UNCHANGED <<venueVars, terms, holding, calm>> /\ Acting /\ pc' = "idle"
      /\ answer' = Unanswered
  BY DEF Settle, ForgetLocals, Acting, historyVars
<1>2. CalmView' /\ CalmClaims'
  BY <1>1 DEF CalmView, CalmClaims, Acting
<1>3. ASSUME calm, ~holding, NEW c \in Coins, pos[c] # 0
      PROVE  \E i \in LiveIds' : Coin(i)' = c
  <2>1. PICK i \in Ids : Listed(i) /\ Coin(i) = c
    BY <1>1, <1>3 DEF CalmInv, CalmClaims
  <2>2. SettleView[Coin(i)] # 0
    BY <2>1, <1>3, SettlesOnWhatIs
  <2>3. status'[i] \in {"open", "closing"}
    BY <2>1, <2>2, HeldRowLives
  <2> QED BY <2>1, <2>3, <1>1 DEF LiveIds, Live, LiveStatuses, Coin
<1>4. StrangersStopTheAccount'
  BY <1>1, <1>3 DEF CalmInv, CalmClaims, StrangersStopTheAccount, Undisturbed, venueVars, Ours
<1> QED BY <1>2, <1>4 DEF CalmInv

LEMMA CalmNext == Inv /\ RowsInv /\ CalmInv /\ [Next]_vars => CalmInv'
<1> SUFFICES ASSUME Inv, RowsInv, CalmInv, [Next]_vars PROVE CalmInv'
  OBVIOUS
<1>1. CASE LoopStep
  BY <1>1, LookingCalm, PlanPassCalm, SendCalm, RecordCalm, CancelOneCalm, ProtectCalm,
     SettleCalm DEF LoopStep
<1>2. CASE Abort \/ ExitFires \/ Liquidation \/ ByHand
  BY <1>2, NotCalm DEF Abort, Fault, ExitFires, Liquidation, ByHand, Elsewhere
<1>3. CASE (\E i \in Ids : HorizonPasses(i)) \/ DayRolls \/ (\E s \in Signals : Observe(s)) \/ ClearHalt
  BY <1>3, CalmKept DEF HorizonPasses, DayRolls, Observe, ClearHalt, ledgerVars, viewVars,
     workVars, historyVars
<1>4. CASE UNCHANGED vars
  BY <1>4, CalmKept DEF vars, ledgerVars, viewVars, workVars, historyVars
<1> QED BY <1>1, <1>2, <1>3, <1>4 DEF Next, Surroundings

(* A position no live intent claims, or an order that is not ours, stops   *)
(* the account in the first pass that nothing disturbs: it is in the view  *)
(* that pass opens with, and nothing the pass does itself adds one.        *)
THEOREM StrangersAreFound == Spec => []StrangersStopTheAccount
<1>1. Init => CalmInv
  BY DEF Init, CalmInv, CalmView, CalmClaims, StrangersStopTheAccount, Undisturbed
<1>2. CalmInv => StrangersStopTheAccount
  BY DEF CalmInv
<1> QED BY <1>1, <1>2, RowsHold, CalmNext, PTL DEF Spec

-----------------------------------------------------------------------------
(***************************************************************************)
(* Every position is accounted for.                                        *)
(***************************************************************************)

(* A position that shrinks stays its intent's.                              *)
LEMMA AccountedShrink ==
  ASSUME TypeOK, TypeOK', EveryPositionIsAccountedFor, Toward(pos', pos),
         UNCHANGED <<status, terms>>
  PROVE  EveryPositionIsAccountedFor'
<1>1. pos \in [Coins -> Int] /\ pos' \in [Coins -> Int]
  BY DEF TypeOK, VenueTypeOK
<1> SUFFICES ASSUME NEW c \in Coins, pos'[c] # 0
             PROVE  \E i \in LiveIds' : /\ Coin(i)' = c
                                        /\ pos'[c] > 0 <=> IsLong(i)'
                                        /\ Held(pos', c) <= EntrySize
  BY DEF EveryPositionIsAccountedFor
<1>2. pos[c] # 0
  BY <1>1, TowardZero
<1>3. PICK i \in LiveIds : Coin(i) = c /\ (pos[c] > 0 <=> IsLong(i)) /\ Held(pos, c) <= EntrySize
  BY <1>2 DEF EveryPositionIsAccountedFor
<1>4. pos'[c] > 0 <=> pos[c] > 0
  BY <1>1, <1>2 DEF Toward
<1>5. Held(pos', c) <= EntrySize
  <2>1. Held(pos', c) \in Nat /\ Held(pos, c) \in Nat /\ EntrySize \in Nat
    BY <1>1, HeldType, EntrySizeAssumption DEF Lots
  <2>2. Held(pos', c) <= Held(pos, c)
    BY DEF Toward
  <2> QED BY <1>3, <2>1, <2>2
<1>6. i \in LiveIds' /\ Coin(i)' = Coin(i) /\ IsLong(i)' = IsLong(i)
  BY DEF LiveIds, Live, Coin, IsLong
<1> QED BY <1>3, <1>4, <1>5, <1>6

(* Nobody but the loop takes a position up, and the rows and the plan stand. *)
LEMMA PositionsShrink ==
  ASSUME TypeOK, TypeOK', RowsInv, PositionsInv, Toward(pos', pos),
         UNCHANGED <<status, terms, pc, seenPos, listed, answer>>,
         todo' \subseteq todo, touched => touched'
  PROVE  PositionsInv'
<1>1. pos \in [Coins -> Int] /\ pos' \in [Coins -> Int]
  BY DEF TypeOK, VenueTypeOK
<1>2. \A d \in Coins : pos[d] = 0 => pos'[d] = 0
  BY <1>1, TowardZero
<1>3. \A i \in Ids : Coin(i) \in Coins /\ Coin(i)' = Coin(i) /\ IsLong(i)' = IsLong(i)
  BY RowType DEF Coin, IsLong
<1>4. FlatIsFlat'
  BY <1>2 DEF PositionsInv, FlatIsFlat, Acting, Unsettled
<1>5. EntersFromFlat'
  <2>1. \A a \in todo : a.tag \in Ids
    BY ActionParts
  <2>2. answer # Unanswered => answer.tag \in Ids
    BY DEF TypeOK, Answer
  <2> QED BY <1>2, <1>3, <2>1, <2>2 DEF PositionsInv, EntersFromFlat, Acting, Listed
<1>6. EveryPositionIsAccountedFor'
  BY AccountedShrink DEF PositionsInv
<1> QED BY <1>4, <1>5, <1>6 DEF PositionsInv

LEMMA NotActingPositions ==
  ASSUME ~Acting', answer' = Unanswered, todo' = {}, FlatIsFlat', EveryPositionIsAccountedFor'
  PROVE  PositionsInv'
BY DEF PositionsInv, EntersFromFlat

(* The claims stand where every live row is as it was.                     *)
LEMMA AccountedKept ==
  ASSUME EveryPositionIsAccountedFor, UNCHANGED pos,
         \A i \in LiveIds : i \in LiveIds' /\ terms'[i] = terms[i]
  PROVE  EveryPositionIsAccountedFor'
BY DEF EveryPositionIsAccountedFor, Coin, IsLong

LEMMA LookingPositions ==
  ASSUME Inv, PositionsInv,
         \/ Begin
         \/ \E fresh \in BOOLEAN, snapshot \in SUBSET (Signals \X Sides) : Assess(fresh, snapshot)
  PROVE  PositionsInv'
<1>1. /\ ~Acting /\ ~Acting' /\ UNCHANGED <<venueVars, ledgerVars, answer, todo>>
      /\ pos' = pos /\ status' = status /\ terms' = terms
  BY DEF Begin, Assess, Acting, workVars, venueVars, ledgerVars
<1>2. FlatIsFlat'
  BY <1>1 DEF Begin, Assess, PositionsInv, FlatIsFlat
<1>3. EveryPositionIsAccountedFor'
  BY <1>1, AccountedKept DEF PositionsInv, LiveIds, Live
<1> QED BY <1>1, <1>2, <1>3, IdleIsEmpty, NotActingPositions

LEMMA ConsiderPositions ==
  ASSUME Inv, PositionsInv, NEW s \in Signals, NEW side \in Sides, Consider(s, side)
  PROVE  PositionsInv'
<1>1. ~Acting /\ ~Acting' /\ UNCHANGED <<pos, answer, todo, seenPos, pc>>
  BY DEF Consider, Acting, workVars, venueVars
<1>2. FlatIsFlat'
  BY <1>1 DEF PositionsInv, FlatIsFlat
<1>3. EveryPositionIsAccountedFor'
  <2>1. PICK i \in Ids, hold \in HoldChoices, stop \in StopChoices :
          /\ status[i] = "none"
          /\ status' = [status EXCEPT ![i] = "pending"]
          /\ terms' = [terms EXCEPT ![i] =
                         [sig |-> s, side |-> side, hold |-> hold, stop |-> stop]]
    BY DEF Consider
  <2>2. status \in [Ids -> Statuses] /\ terms \in [Ids -> Terms]
    BY DEF Inv, TypeOK
  <2>3. \A j \in LiveIds : j \in LiveIds' /\ terms'[j] = terms[j]
    BY <2>1, <2>2 DEF LiveIds, Live, LiveStatuses
  <2> QED BY <1>1, <2>3, AccountedKept DEF PositionsInv
<1> QED BY <1>1, <1>2, <1>3, IdleIsEmpty, NotActingPositions

LEMMA PlanPassPositions == Inv /\ PositionsInv /\ PlanPass => PositionsInv'
<1> SUFFICES ASSUME Inv, PositionsInv, PlanPass PROVE PositionsInv'
  OBVIOUS
<1>1. /\ UNCHANGED <<pos, status, terms, answer, seenPos>>
      /\ pc = "consider" /\ pc' = "act"
  BY DEF PlanPass, venueVars
<1>2. answer' = Unanswered
  BY <1>1, IdleIsEmpty DEF Acting
<1>3. \A c \in Coins : seenPos[c] = 0 => pos[c] = 0
  BY <1>1 DEF PositionsInv, FlatIsFlat
<1>4. \A a \in todo' : IsEntry(a) => pos'[Coin(a.tag)'] = 0
  <2> SUFFICES ASSUME NEW a \in todo', IsEntry(a) PROVE pos[Coin(a.tag)] = 0
    BY <1>1 DEF Coin
  <2>1. a.tag \in Ids /\ seenPos[Coin(a.tag)] = 0
    BY PlanEntries DEF LiveIds
  <2> QED BY <2>1, <1>3, RowType DEF Inv
<1>5. \A i \in Ids : Listed(i)' => status'[i] \notin Finished
  BY <1>1 DEF PlanPass, Listed, Live, LiveStatuses, Finished
<1>6. EveryPositionIsAccountedFor'
  BY <1>1, AccountedKept DEF PositionsInv, LiveIds, Live
<1> QED BY <1>1, <1>2, <1>3, <1>4, <1>5, <1>6 DEF PositionsInv, FlatIsFlat, EntersFromFlat

(* An entry that the venue accepts is the only one of its coin, which is flat. *)
LEMMA EntryPositions ==
  ASSUME Inv, RowsInv, PositionsInv, NEW a \in todo, IsEntry(a), NEW k \in 0..a.sz,
         pos' = Netted(pos, a.coin, Buys(a.tag, "entry"), k),
         UNCHANGED <<status, terms, pc, listed>>, todo' = todo \ {a},
         answer' # Unanswered, answer'.ok
  PROVE  PositionsInv'
<1>1. TypeOK /\ a.tag \in Ids /\ a.coin \in Coins /\ a.sz \in Nat /\ k \in Nat /\ k <= a.sz
  BY ActionParts DEF Inv
<1>2. pos \in [Coins -> Int] /\ Buys(a.tag, "entry") = IsLong(a.tag) /\ IsLong(a.tag) \in BOOLEAN
  BY <1>1 DEF TypeOK, VenueTypeOK, Buys, IsLong
<1>3. a = EntryOf(a.tag) /\ status[a.tag] = "pending" /\ Listed(a.tag) /\ pc = "act"
  BY DEF RowsInv, EntriesArePlanned, ToEnter, Listed
<1>4. a.coin = Coin(a.tag) /\ a.sz = EntrySize
  BY <1>3 DEF EntryOf, Place
<1>5. pos[a.coin] = 0
  BY <1>4 DEF PositionsInv, EntersFromFlat
<1>6. /\ \A d \in Coins : d # a.coin => pos'[d] = pos[d]
      /\ pos'[a.coin] = Signed(IsLong(a.tag), k)
  <2>1. /\ \A d \in Coins : d # a.coin => pos'[d] = pos[d]
        /\ pos'[a.coin] = pos[a.coin] + Signed(Buys(a.tag, "entry"), k)
    BY <1>1, <1>2, NettedElsewhere
  <2> QED BY <2>1, <1>1, <1>2, <1>5 DEF Signed
<1>7. \A i \in Ids : /\ Coin(i) \in Coins /\ Coin(i)' = Coin(i) /\ IsLong(i)' = IsLong(i)
                     /\ Listed(i)' = Listed(i)
                     /\ Listed(i) /\ i # a.tag => Coin(i) # a.coin
  BY <1>1, <1>3, <1>4, RowType DEF Coin, IsLong, Listed, Inv, PlannedApart, Acting
<1>8. \A b \in todo' : IsEntry(b) => b.tag \in Ids /\ Listed(b.tag) /\ b.tag # a.tag
  BY <1>1, <1>3, ActionParts DEF RowsInv, EntriesArePlanned, ToEnter, Listed
<1>9. FlatIsFlat'
  BY <1>3 DEF FlatIsFlat, Unsettled
<1>10. EntersFromFlat'
  <2>1. \A b \in todo' : IsEntry(b) => pos'[Coin(b.tag)'] = 0
    BY <1>6, <1>7, <1>8 DEF PositionsInv, EntersFromFlat
  <2>2. \A i \in Ids : Listed(i)' /\ status'[i] \in Finished => pos'[Coin(i)'] = 0
    <3>1. \A i \in Ids : Listed(i) /\ status[i] \in Finished => i # a.tag /\ pos[Coin(i)] = 0
      BY <1>3 DEF PositionsInv, EntersFromFlat, Acting, Finished
    <3> QED BY <3>1, <1>6, <1>7
  <2> QED BY <2>1, <2>2 DEF EntersFromFlat
<1>11. EveryPositionIsAccountedFor'
  <2> SUFFICES ASSUME NEW c \in Coins, pos'[c] # 0
               PROVE  \E i \in LiveIds : /\ Coin(i) = c
                                         /\ pos'[c] > 0 <=> IsLong(i)
                                         /\ Held(pos', c) <= EntrySize
    BY <1>7 DEF EveryPositionIsAccountedFor, LiveIds, Live
  <2>1. CASE c = a.coin
    <3>1. a.tag \in LiveIds
      BY <1>1, <1>3 DEF LiveIds, Live, LiveStatuses
    <3>2. pos'[c] = (IF IsLong(a.tag) THEN k ELSE -k) /\ k <= EntrySize /\ k \in Nat
      BY <2>1, <1>1, <1>4, <1>6 DEF Signed
    <3>3. (pos'[c] > 0 <=> IsLong(a.tag)) /\ Held(pos', c) <= EntrySize
      BY <3>2, <1>2, EntrySizeAssumption DEF Held, Lots
    <3> QED BY <2>1, <3>1, <3>3, <1>4
  <2>2. CASE c # a.coin
    <3>1. pos'[c] = pos[c] /\ Held(pos', c) = Held(pos, c)
      BY <2>2, <1>6 DEF Held
    <3> QED BY <3>1 DEF PositionsInv, EveryPositionIsAccountedFor
  <2> QED BY <2>1, <2>2
<1> QED BY <1>9, <1>10, <1>11 DEF PositionsInv

LEMMA SendPositions ==
  ASSUME Inv, TypeOK', RowsInv, PositionsInv, ~AnswersLost,
         NEW a \in todo, NEW k \in 0..a.sz, Send(a, k)
  PROVE  PositionsInv'
<1>1. /\ UNCHANGED <<status, terms, pc, listed, seenPos, touched>>
      /\ todo' = todo \ {a} /\ a.kind = "place" /\ answer = Unanswered
  BY DEF Send, Due, ledgerVars, viewVars
<1>2. TypeOK /\ a \in Action /\ a.tag \in Ids /\ k \in Nat /\ Acting
  BY ActionParts DEF Inv, OnlyPlannedInFlight
<1>3. answer' # Unanswered
  BY <1>2, Answered DEF Send
<1>4. CASE Accepts(a, k) /\ answer'.ok
  <2>1. CASE a.role = "entry"
    <3>1. pos' = Netted(pos, a.coin, Buys(a.tag, "entry"), k)
      BY <1>2, <1>4, <2>1, AcceptsMoves
    <3> QED BY <1>1, <1>3, <1>4, <2>1, <3>1, EntryPositions DEF IsEntry
  <2>2. CASE a.role # "entry"
    <3>1. Toward(pos', pos)
      BY <1>2, <1>4, <2>2, AcceptsMoves
    <3>2. pos \in [Coins -> Int] /\ pos' \in [Coins -> Int]
      BY <1>2 DEF TypeOK, VenueTypeOK
    <3>3. \A d \in Coins : pos[d] = 0 => pos'[d] = 0
      BY <3>1, <3>2, TowardZero
    <3>4. FlatIsFlat'
      BY <1>1, <1>2, <1>3, <1>4 DEF FlatIsFlat, Unsettled, Acting
    <3>5. EntersFromFlat'
      <4>1. \A i \in Ids : Coin(i) \in Coins /\ Coin(i)' = Coin(i) /\ Listed(i)' = Listed(i)
        BY <1>1, <1>2, RowType DEF Coin, Listed
      <4>2. \A b \in todo : b.tag \in Ids
        BY <1>2, ActionParts
      <4>3. \A b \in todo' : IsEntry(b) => pos'[Coin(b.tag)'] = 0
        BY <1>1, <3>3, <4>1, <4>2 DEF PositionsInv, EntersFromFlat
      <4>4. \A i \in Ids : Listed(i)' /\ status'[i] \in Finished => pos'[Coin(i)'] = 0
        BY <1>1, <1>2, <3>3, <4>1 DEF PositionsInv, EntersFromFlat
      <4> QED BY <1>4, <4>3, <4>4 DEF EntersFromFlat
    <3>6. EveryPositionIsAccountedFor'
      BY <1>1, <1>2, <3>1, AccountedShrink DEF PositionsInv
    <3> QED BY <3>4, <3>5, <3>6 DEF PositionsInv
  <2> QED BY <2>1, <2>2
<1>5. CASE pos' = pos /\ ~answer'.ok
  <2>1. FlatIsFlat'
    BY <1>1, <1>2, <1>5 DEF PositionsInv, FlatIsFlat, Unsettled, Acting
  <2>2. EntersFromFlat'
    <3>1. a.role = "entry" => pos[Coin(a.tag)] = 0
      BY <1>1 DEF PositionsInv, EntersFromFlat, IsEntry
    <3>2. answer'.tag = a.tag /\ answer'.role = a.role
      BY DEF Send
    <3> QED BY <1>1, <1>5, <3>1, <3>2 DEF PositionsInv, EntersFromFlat, Coin, Acting, Listed
  <2>3. EveryPositionIsAccountedFor'
    BY <1>1, <1>5, AccountedKept DEF PositionsInv, LiveIds, Live
  <2> QED BY <2>1, <2>2, <2>3 DEF PositionsInv
<1>6. \/ Accepts(a, k) /\ answer'.ok
      \/ pos' = pos /\ ~answer'.ok
  BY DEF Send, venueVars
<1> QED BY <1>4, <1>5, <1>6

LEMMA RecordPositions == Inv /\ RowsInv /\ PositionsInv /\ Record => PositionsInv'
<1> SUFFICES ASSUME Inv, RowsInv, PositionsInv, Record PROVE PositionsInv'
  OBVIOUS
<1> DEFINE i == answer.tag
<1>1. /\ UNCHANGED <<pos, terms, pc, listed, seenPos, todo>>
      /\ answer # Unanswered /\ answer' = Unanswered /\ touched' = (touched \/ answer.ok)
  BY DEF Record, venueVars, viewVars
<1>2. i \in Ids /\ status \in [Ids -> Statuses] /\ Acting
  BY <1>1 DEF Inv, TypeOK, Answer, OnlyPlannedInFlight
<1>3. FlatIsFlat'
  BY <1>1, <1>2 DEF PositionsInv, FlatIsFlat, Unsettled, Acting
<1>4. /\ \A j \in Ids \ {i} : status'[j] = status[j]
      /\ status'[i] # status[i] => \/ status'[i] = "open" /\ status[i] = "pending"
                                   \/ status'[i] = "failed" /\ pos[Coin(i)] = 0
  BY <1>1, <1>2 DEF Record, RowsInv, EntryInFlight, PositionsInv, EntersFromFlat
<1>5. EntersFromFlat'
  <2>1. \A j \in Ids : Listed(j)' /\ status'[j] \in Finished => pos'[Coin(j)'] = 0
    <3> SUFFICES ASSUME NEW j \in Ids, Listed(j), status'[j] \in Finished PROVE pos[Coin(j)] = 0
      BY <1>1 DEF Listed, Coin
    <3>1. CASE status[j] \in Finished
      BY <3>1, <1>2 DEF PositionsInv, EntersFromFlat
    <3>2. CASE status[j] \notin Finished
      BY <3>2, <1>4 DEF Finished
    <3> QED BY <3>1, <3>2
  <2>2. \A a \in todo' : IsEntry(a) => pos'[Coin(a.tag)'] = 0
    BY <1>1 DEF PositionsInv, EntersFromFlat, Coin
  <2> QED BY <1>1, <2>1, <2>2 DEF EntersFromFlat
<1>6. EveryPositionIsAccountedFor'
  <2> SUFFICES ASSUME NEW c \in Coins, pos[c] # 0
               PROVE  \E j \in LiveIds' : /\ Coin(j) = c
                                          /\ pos[c] > 0 <=> IsLong(j)
                                          /\ Held(pos, c) <= EntrySize
    BY <1>1 DEF EveryPositionIsAccountedFor, Coin, IsLong
  <2>1. PICK j \in LiveIds : Coin(j) = c /\ (pos[c] > 0 <=> IsLong(j)) /\ Held(pos, c) <= EntrySize
    BY DEF PositionsInv, EveryPositionIsAccountedFor
  <2>2. j \in LiveIds'
    BY <1>2, <1>4, <2>1 DEF LiveIds, Live, LiveStatuses
  <2> QED BY <2>1, <2>2
<1> QED BY <1>3, <1>5, <1>6 DEF PositionsInv

LEMMA ProtectPositions == Inv /\ RowsInv /\ PositionsInv /\ ProtectFreshFills => PositionsInv'
<1> SUFFICES ASSUME Inv, RowsInv, PositionsInv, ProtectFreshFills PROVE PositionsInv'
  OBVIOUS
<1>1. /\ UNCHANGED <<pos, status, terms, listed, seenPos, answer, touched>>
      /\ answer = Unanswered /\ pc = "act" /\ pc' = "protect"
  BY DEF ProtectFreshFills, Executed, venueVars, ledgerVars, viewVars
<1>2. \A a \in todo' : \E w : a = Place(w) /\ w.role # "entry"
  BY DEF ProtectFreshFills
<1>3. \A a \in todo' : ~IsEntry(a)
  BY <1>2 DEF IsEntry, Place
<1>4. FlatIsFlat'
  BY <1>1 DEF PositionsInv, FlatIsFlat, Unsettled, Acting
<1>5. EntersFromFlat'
  BY <1>1, <1>3 DEF PositionsInv, EntersFromFlat, Acting, Listed, Coin
<1>6. EveryPositionIsAccountedFor'
  BY <1>1, AccountedKept DEF PositionsInv, LiveIds, Live
<1> QED BY <1>4, <1>5, <1>6 DEF PositionsInv

(* Settling is never done on a view that misses a position.                *)
LEMMA SettlesOnEveryPosition ==
  ASSUME Inv, PositionsInv, NEW near \in BOOLEAN, Settle(near), NEW c \in Coins, pos[c] # 0
  PROVE  SettleView[c] # 0
<1>1. Acting /\ ~Unsettled
  BY DEF Settle, Executed, Acting, Unsettled
<1> QED BY <1>1 DEF SettleView, PositionsInv, FlatIsFlat

LEMMA SettlePositions ==
  ASSUME Inv, RowsInv, PositionsInv, NEW near \in BOOLEAN, Settle(near)
  PROVE  PositionsInv'
<1>1. /\ UNCHANGED <<pos, terms>> /\ Acting /\ pc' = "idle"
      /\ answer' = Unanswered /\ todo' = {}
  BY DEF Settle, ForgetLocals, Acting, venueVars
<1>2. EveryPositionIsAccountedFor'
  <2> SUFFICES ASSUME NEW c \in Coins, pos[c] # 0
               PROVE  \E i \in LiveIds' : /\ Coin(i) = c
                                          /\ pos[c] > 0 <=> IsLong(i)
                                          /\ Held(pos, c) <= EntrySize
    BY <1>1 DEF EveryPositionIsAccountedFor, Coin, IsLong
  <2>1. PICK i \in LiveIds : Coin(i) = c /\ (pos[c] > 0 <=> IsLong(i)) /\ Held(pos, c) <= EntrySize
    BY DEF PositionsInv, EveryPositionIsAccountedFor
  <2>2. i \in Ids /\ Listed(i)
    BY <1>1 DEF Inv, PlannedApart, LiveIds
  <2>3. SettleView[Coin(i)] # 0
    BY <2>1, SettlesOnEveryPosition
  <2>4. status'[i] \in {"open", "closing"}
    BY <2>2, <2>3, HeldRowLives
  <2> QED BY <2>1, <2>2, <2>4 DEF LiveIds, Live, LiveStatuses
<1> QED BY <1>1, <1>2, NotActingPositions DEF FlatIsFlat, Acting

LEMMA PositionsNext ==
  ASSUME UserSizes = {}, ~AnswersLost
  PROVE  Inv /\ RowsInv /\ PositionsInv /\ [Next]_vars => PositionsInv'
<1> SUFFICES ASSUME Inv, RowsInv, PositionsInv, [Next]_vars PROVE PositionsInv'
  OBVIOUS
<1>1. TypeOK /\ TypeOK' /\ pos \in [Coins -> Int]
  BY NextType DEF Inv, TypeOK, VenueTypeOK
<1>2. CASE LoopStep
  <2>1. CASE \E a \in todo : CancelOne(a)
    <3>1. Toward(pos', pos)
      BY <2>1, <1>1, TowardItself DEF CancelOne
    <3>2. /\ UNCHANGED <<status, terms, pc, seenPos, listed, answer>>
          /\ todo' \subseteq todo
      BY <2>1 DEF CancelOne, ledgerVars, viewVars
    <3>3. touched => touched'
      BY <2>1 DEF CancelOne
    <3> QED BY <3>1, <3>2, <3>3, <1>1, PositionsShrink
  <2> QED BY <1>1, <1>2, <2>1, LookingPositions, ConsiderPositions, PlanPassPositions, SendPositions,
             RecordPositions, ProtectPositions, SettlePositions DEF LoopStep
<1>3. CASE Abort
  <2>1. /\ pos' = pos /\ status' = status /\ terms' = terms /\ pc' = "idle"
        /\ answer' = Unanswered /\ todo' = {}
    BY <1>3 DEF Abort, ForgetLocals, venueVars, ledgerVars
  <2>2. EveryPositionIsAccountedFor'
    BY <2>1, AccountedKept DEF PositionsInv, LiveIds, Live
  <2> QED BY <2>1, <2>2, NotActingPositions DEF FlatIsFlat, Acting
<1>4. CASE Toward(pos', pos) /\ UNCHANGED <<status, terms, pc, seenPos, listed, answer, todo, touched>>
  BY <1>1, <1>4, PositionsShrink
<1>5. CASE \/ \E i \in Ids : HorizonPasses(i)
           \/ DayRolls
           \/ \E s \in Signals : Observe(s)
           \/ ClearHalt
           \/ UNCHANGED vars
  <2>1. UNCHANGED <<pos, status, terms, pc, seenPos, listed, answer, todo, touched>>
    BY <1>5 DEF HorizonPasses, DayRolls, Observe, ClearHalt, vars, venueVars, ledgerVars,
       viewVars, workVars
  <2> QED BY <2>1, <1>1, <1>4, TowardItself
<1>6. CASE ExitFires \/ Liquidation \/ ByHand
  <2>1. UNCHANGED <<status, terms, pc, seenPos, listed, answer, todo, touched>>
    BY <1>6 DEF ExitFires, Liquidation, ByHand, Elsewhere, ledgerVars, viewVars, workVars
  <2>2. CASE ExitFires
    <3>1. PICK o \in Ours(book), k \in 0..EntrySize : TriggerFires(o, k, Buys(o.tag, o.role))
      BY <2>2 DEF ExitFires
    <3>2. o.tag \in Ids /\ o.coin \in Coins /\ k \in Nat
      BY <1>1, EntrySizeAssumption DEF TypeOK, VenueTypeOK, Ours, Order, Lots
    <3>3. Toward(pos', pos)
      BY <1>1, <3>1, <3>2, BuysType, ReducedIsToward DEF TriggerFires
    <3> QED BY <2>1, <3>3, <1>4
  <2>3. CASE Liquidation
    <3>1. PICK c \in Coins : pos' = [pos EXCEPT ![c] = 0]
      BY <2>3 DEF Liquidation, Liquidates
    <3>2. \A d \in Coins : pos'[d] = 0 \/ pos'[d] = pos[d]
      BY <1>1, <3>1
    <3>3. \A d \in Coins : Held(pos, d) \in Nat /\ pos[d] \in Int
      BY <1>1, HeldType
    <3>4. Toward(pos', pos)
      BY <3>2, <3>3 DEF Toward, Held
    <3> QED BY <2>1, <3>4, <1>4
  <2>4. CASE ByHand
    <3>1. pos' = pos
      BY <2>4 DEF ByHand, UserPlaces, UserCancels
    <3> QED BY <2>1, <3>1, <1>1, <1>4, TowardItself
  <2> QED BY <1>6, <2>2, <2>3, <2>4
<1> QED BY <1>2, <1>3, <1>5, <1>6 DEF Next, Surroundings

LEMMA PositionsHold ==
  ASSUME UserSizes = {}, ~AnswersLost
  PROVE  Spec => [](Inv /\ RowsInv /\ PositionsInv)
<1>1. Init => PositionsInv
  <2> SUFFICES ASSUME Init PROVE PositionsInv
    OBVIOUS
  <2>1. \A c \in Coins : pos[c] = 0
    BY DEF Init, VenueInit
  <2> QED BY <2>1 DEF Init, PositionsInv, FlatIsFlat, EntersFromFlat, EveryPositionIsAccountedFor, Acting
<1>2. Inv /\ RowsInv /\ PositionsInv /\ [Next]_vars => PositionsInv'
  BY PositionsNext
<1> QED BY <1>1, <1>2, RowsHold, PTL DEF Spec

(* On an account that nobody trades by hand, whose accepted orders are all *)
(* answered: a position belongs to a live intent, points its way and is    *)
(* never larger than one entry, also between the venue accepting an entry  *)
(* and the ledger recording it, and after a crash there.                   *)
THEOREM PositionsAreAccountedFor ==
  ASSUME UserSizes = {}, ~AnswersLost
  PROVE  Spec => []EveryPositionIsAccountedFor
<1>1. PositionsInv => EveryPositionIsAccountedFor
  BY DEF PositionsInv
<1> QED BY <1>1, PositionsHold, PTL

-----------------------------------------------------------------------------
(***************************************************************************)
(* The ledger agrees with the venue after a pass nothing disturbed.        *)
(***************************************************************************)
LEMMA SettleAgrees ==
  ASSUME Inv, RowsInv, CalmInv, PositionsInv, NEW near \in BOOLEAN, Settle(near)
  PROVE  LedgerAgrees'
<1>1. /\ UNCHANGED <<pos, terms, calm>> /\ Acting
  BY DEF Settle, Acting, venueVars, historyVars
<1>2. ASSUME calm, NEW c \in Coins, pos[c] # 0
      PROVE  \E i \in Ids : /\ Coin(i) = c
                            /\ status'[i] \in {"open", "closing"}
                            /\ filled'[i] = Held(pos, c)
  <2>1. PICK i \in LiveIds : Coin(i) = c
    BY <1>2 DEF PositionsInv, EveryPositionIsAccountedFor
  <2>2. i \in Ids /\ Listed(i)
    BY <1>1 DEF Inv, PlannedApart, LiveIds
  <2>3. SettleView = pos
    BY <1>2, SettlesOnWhatIs
  <2> QED BY <1>2, <2>1, <2>2, <2>3, HeldRowLives
<1> QED BY <1>1, <1>2 DEF LedgerAgrees, Undisturbed, Coin

LEMMA AgreesNext ==
  Inv /\ RowsInv /\ CalmInv /\ PositionsInv /\ LedgerAgrees /\ [Next]_vars => LedgerAgrees'
<1> SUFFICES ASSUME Inv, RowsInv, CalmInv, PositionsInv, LedgerAgrees, [Next]_vars
             PROVE  LedgerAgrees'
  OBVIOUS
<1>1. CASE ~calm' \/ pc' # "idle"
  BY <1>1 DEF LedgerAgrees, Undisturbed
<1>2. CASE UNCHANGED <<pos, status, terms, filled, pc, calm>>
  BY <1>2 DEF LedgerAgrees, Undisturbed, Coin
<1>3. CASE LoopStep
  <2>1. CASE \/ Begin
             \/ \E fresh \in BOOLEAN, snapshot \in SUBSET (Signals \X Sides) :
                  Assess(fresh, snapshot)
             \/ \E s \in Signals, side \in Sides : Consider(s, side)
             \/ PlanPass
             \/ ProtectFreshFills
    BY <2>1, <1>1 DEF Begin, Assess, Consider, PlanPass, ProtectFreshFills
  <2>2. CASE Record \/ (\E a \in todo : CancelOne(a)) \/ (\E a \in todo : \E k \in 0..a.sz : Send(a, k))
    <3>1. Acting /\ pc' = pc
      BY <2>2 DEF Record, CancelOne, Send, viewVars, Inv, OnlyPlannedInFlight
    <3> QED BY <3>1, <1>1 DEF Acting
  <2>3. CASE \E near \in BOOLEAN : Settle(near)
    BY <2>3, SettleAgrees
  <2> QED BY <1>3, <2>1, <2>2, <2>3 DEF LoopStep
<1>4. CASE Abort \/ ExitFires \/ Liquidation \/ ByHand
  BY <1>4, <1>1 DEF Abort, Fault, ExitFires, Liquidation, ByHand, Elsewhere
<1>5. CASE \/ \E i \in Ids : HorizonPasses(i)
           \/ DayRolls
           \/ \E s \in Signals : Observe(s)
           \/ ClearHalt
           \/ UNCHANGED vars
  BY <1>5, <1>2 DEF HorizonPasses, DayRolls, Observe, ClearHalt, vars, venueVars, ledgerVars,
     historyVars
<1> QED BY <1>3, <1>4, <1>5 DEF Next, Surroundings

LEMMA LedgerHolds ==
  ASSUME UserSizes = {}, ~AnswersLost
  PROVE  Spec => [](Inv /\ RowsInv /\ CalmInv /\ PositionsInv /\ LedgerAgrees)
<1>1. Init => CalmInv /\ LedgerAgrees
  BY DEF Init, CalmInv, CalmView, CalmClaims, StrangersStopTheAccount, LedgerAgrees, Undisturbed
<1> QED BY <1>1, PositionsHold, CalmNext, AgreesNext, PTL DEF Spec

(* On such an account the ledger agrees with the venue about every         *)
(* position after a pass that nothing disturbed: whose it is, that it is   *)
(* open or closing, and how large.                                         *)
THEOREM LedgerIsRight ==
  ASSUME UserSizes = {}, ~AnswersLost
  PROVE  Spec => []LedgerAgrees
BY LedgerHolds, PTL

-----------------------------------------------------------------------------
(***************************************************************************)
(* Finished rows, and the coins that are claimed.                          *)
(***************************************************************************)

(* What a step may do to the rows: leave them, write a new one on a coin   *)
(* that is free, move one on, or let some of the live ones go.             *)
RowsWritten ==
  \E i \in Ids : /\ status[i] = "none" /\ status' = [status EXCEPT ![i] = "pending"]
                 /\ \A j \in Ids \ {i} : terms'[j] = terms[j]
                 /\ terms'[i].sig \in Signals
                 /\ \A j \in LiveIds : Coin(j) # CoinOf[terms'[i].sig]

RowsLetGo ==
  /\ terms' = terms
  /\ \A i \in Ids : /\ ~Live(i) => status'[i] = status[i]
                    /\ Live(i) => status'[i] \in LiveStatuses \cup Finished

LEMMA SettleLetsGo ==
  ASSUME Inv, RowsInv, PositionsInv, NEW near \in BOOLEAN, Settle(near)
  PROVE  RowsLetGo
<1>1. terms' = terms /\ Acting /\ status' = [i \in Ids |-> SettledStatus(i, SettleView)]
  BY DEF Settle, Acting
<1>2. ASSUME NEW i \in Ids
      PROVE  /\ ~Live(i) => status'[i] = status[i]
             /\ Live(i) => status'[i] \in LiveStatuses \cup Finished
  <2>1. status'[i] = SettledStatus(i, SettleView) /\ status[i] \in Statuses
    BY <1>1 DEF Inv, TypeOK
  <2>2. CASE Live(i)
    BY <2>1, <2>2 DEF SettledStatus, Live, LiveStatuses, Finished
  <2>3. CASE ~Listed(i)
    BY <2>1, <2>3 DEF SettledStatus, Unplanned, Listed, Live
  <2>4. CASE ~Live(i) /\ Listed(i)
    <3>1. status[i] \in Finished
      BY <1>1, <2>1, <2>4 DEF RowsInv, RowsFollowThePlan, Live, LiveStatuses, Statuses, Finished
    <3>2. ToEnter(i) /\ pos[Coin(i)] = 0
      BY <1>1, <2>4, <3>1 DEF RowsInv, RowsFollowThePlan, PositionsInv, EntersFromFlat
    <3>3. SettleView[Coin(i)] = 0
      BY <3>2 DEF ToEnter, SettleView
    <3> QED BY <2>1, <2>4, <3>2, <3>3 DEF SettledStatus, Ends, ToEnter
  <2> QED BY <2>2, <2>3, <2>4
<1> QED BY <1>1, <1>2 DEF RowsLetGo

LEMMA RecordLetsGo ==
  ASSUME Inv, RowsInv, Record
  PROVE  RowsLetGo
<1>1. /\ terms' = terms /\ answer.tag \in Ids /\ status \in [Ids -> Statuses]
  BY DEF Record, Inv, TypeOK, Answer
<1>2. answer.role = "entry" => status[answer.tag] = "pending"
  BY DEF RowsInv, EntryInFlight, Record
<1>3. \/ status' = status
      \/ answer.role = "entry" /\ \E s \in {"open", "failed"} : status' = [status EXCEPT ![answer.tag] = s]
  BY DEF Record
<1>4. CASE status' = status
  BY <1>1, <1>4 DEF RowsLetGo, Live
<1>5. CASE answer.role = "entry" /\ \E s \in {"open", "failed"} : status' = [status EXCEPT ![answer.tag] = s]
  BY <1>1, <1>2, <1>5 DEF RowsLetGo, Live, LiveStatuses, Finished
<1> QED BY <1>3, <1>4, <1>5

LEMMA RowsStep ==
  ASSUME Inv, RowsInv, PositionsInv, [Next]_vars
  PROVE  RowsWritten \/ RowsLetGo
<1>1. CASE UNCHANGED <<status, terms>>
  BY <1>1 DEF RowsLetGo, Live
<1>2. CASE \E s \in Signals, side \in Sides : Consider(s, side)
  <2>1. PICK s \in Signals, side \in Sides : Consider(s, side)
    BY <1>2
  <2>2. PICK i \in Ids, hold \in HoldChoices, stop \in StopChoices :
          /\ status[i] = "none"
          /\ status' = [status EXCEPT ![i] = "pending"]
          /\ terms' = [terms EXCEPT ![i] =
                         [sig |-> s, side |-> side, hold |-> hold, stop |-> stop]]
    BY <2>1 DEF Consider
  <2>3. terms'[i].sig = s /\ \A j \in Ids \ {i} : terms'[j] = terms[j]
    BY <2>2 DEF Inv, TypeOK
  <2>4. \A j \in LiveIds : Coin(j) # CoinOf[s]
    BY <2>1 DEF Consider, Admissible
  <2> QED BY <2>2, <2>3, <2>4 DEF RowsWritten
<1>3. CASE LoopStep
  <2>1. CASE \/ Begin
             \/ \E fresh \in BOOLEAN, snapshot \in SUBSET (Signals \X Sides) :
                  Assess(fresh, snapshot)
             \/ PlanPass
             \/ ProtectFreshFills
             \/ \E a \in todo : CancelOne(a)
             \/ \E a \in todo : \E k \in 0..a.sz : Send(a, k)
    BY <2>1, <1>1 DEF Begin, Assess, PlanPass, ProtectFreshFills, CancelOne, Send, ledgerVars
  <2> QED BY <1>3, <2>1, <1>2, RecordLetsGo, SettleLetsGo DEF LoopStep
<1>4. CASE Surroundings \/ UNCHANGED vars
  BY <1>4, <1>1 DEF Surroundings, Abort, HorizonPasses, DayRolls, Observe, ClearHalt,
     ExitFires, Liquidation, ByHand, Elsewhere, ledgerVars, vars
<1> QED BY <1>3, <1>4 DEF Next

(* On such an account a finished intent stays finished.                    *)
THEOREM FinishedStays ==
  ASSUME UserSizes = {}, ~AnswersLost
  PROVE  Spec => FinishedIsFinal
<1>1. Inv /\ RowsInv /\ PositionsInv /\ [Next]_vars
        => [\A i \in Ids : status[i] \in Finished => status'[i] = status[i]]_vars
  <2> SUFFICES ASSUME Inv, RowsInv, PositionsInv, [Next]_vars, NEW i \in Ids, status[i] \in Finished
               PROVE  status'[i] = status[i]
    OBVIOUS
  <2>1. ~Live(i) /\ status[i] # "none" /\ status \in [Ids -> Statuses]
    BY DEF Live, LiveStatuses, Finished, Inv, TypeOK
  <2> QED BY <2>1, RowsStep DEF RowsWritten, RowsLetGo
<1> QED BY <1>1, PositionsHold, PTL DEF Spec, FinishedIsFinal

-----------------------------------------------------------------------------
(***************************************************************************)
(* The loop implements CoinClaims: the two names below are what claim and  *)
(* ended stand for.                                                        *)
(***************************************************************************)
ClaimOf == [c \in Coins |-> ClaimantOf(c)]
Ended   == {i \in Ids : status[i] \in Finished}

(* Who claims a coin is the one live intent on it.                         *)
LEMMA TheClaimant ==
  ASSUME OneLiveIntentPerCoin, NEW c \in Coins
  PROVE  /\ \A i \in LiveIds : Coin(i) = c => ClaimantOf(c) = i
         /\ (\A i \in LiveIds : Coin(i) # c) => ClaimantOf(c) = NoTag
<1>1. ASSUME NEW i \in LiveIds, Coin(i) = c PROVE ClaimantOf(c) = i
  <2>1. (CHOOSE j \in LiveIds : Coin(j) = c) \in LiveIds
        /\ Coin(CHOOSE j \in LiveIds : Coin(j) = c) = c
    BY <1>1
  <2> QED BY <1>1, <2>1 DEF ClaimantOf, OneLiveIntentPerCoin
<1> QED BY <1>1 DEF ClaimantOf

LEMMA TheNextClaimant ==
  ASSUME OneLiveIntentPerCoin', NEW c \in Coins
  PROVE  /\ \A i \in LiveIds' : Coin(i)' = c => ClaimantOf(c)' = i
         /\ (\A i \in LiveIds' : Coin(i)' # c) => ClaimantOf(c)' = NoTag
<1>1. ASSUME NEW i \in LiveIds', Coin(i)' = c PROVE ClaimantOf(c)' = i
  <2>1. ((CHOOSE j \in LiveIds : Coin(j) = c) \in LiveIds
         /\ Coin(CHOOSE j \in LiveIds : Coin(j) = c) = c)'
    BY <1>1
  <2> QED BY <1>1, <2>1 DEF ClaimantOf, OneLiveIntentPerCoin
<1> QED BY <1>1 DEF ClaimantOf

(* A new row claims its coin, which was free.                              *)
LEMMA WritingClaims ==
  ASSUME Inv, Inv', RowsWritten
  PROVE  \E c \in Coins, i \in Ids : Claims!Claim(c, i)
<1>1. PICK i \in Ids :
        /\ status[i] = "none" /\ status' = [status EXCEPT ![i] = "pending"]
        /\ \A j \in Ids \ {i} : terms'[j] = terms[j]
        /\ terms'[i].sig \in Signals
        /\ \A j \in LiveIds : Coin(j) # CoinOf[terms'[i].sig]
  BY DEF RowsWritten
<1>2. PICK c \in Coins : c = CoinOf[terms'[i].sig] /\ c = Coin(i)'
  BY <1>1, CoinOfAssumption DEF Coin
<1>3. status \in [Ids -> Statuses] /\ OneLiveIntentPerCoin /\ OneLiveIntentPerCoin'
  BY DEF Inv, TypeOK
<1>4. LiveIds' = LiveIds \cup {i} /\ i \notin LiveIds /\ LiveIds \subseteq Ids
  BY <1>1, <1>3 DEF LiveIds, Live, LiveStatuses
<1>5. \A j \in LiveIds : Coin(j)' = Coin(j) /\ Coin(j) # c
  BY <1>1, <1>2, <1>4 DEF Coin
<1>6. ClaimantOf(c) = NoTag /\ ClaimantOf(c)' = i
  BY <1>2, <1>3, <1>4, <1>5, TheClaimant, TheNextClaimant
<1>7. \A d \in Coins : d # c => ClaimantOf(d)' = ClaimantOf(d)
  <2> SUFFICES ASSUME NEW d \in Coins, d # c PROVE ClaimantOf(d)' = ClaimantOf(d)
    OBVIOUS
  <2>1. CASE \E j \in LiveIds : Coin(j) = d
    BY <2>1, <1>3, <1>4, <1>5, TheClaimant, TheNextClaimant
  <2>2. CASE \A j \in LiveIds : Coin(j) # d
    <3>1. \A j \in LiveIds' : Coin(j)' # d
      BY <2>2, <1>2, <1>4, <1>5
    <3> QED BY <2>2, <3>1, <1>3, TheClaimant, TheNextClaimant
  <2> QED BY <2>1, <2>2
<1>8. \A d \in Coins : ClaimantOf(d) # i
  <2> SUFFICES ASSUME NEW d \in Coins PROVE ClaimantOf(d) # i
    OBVIOUS
  <2>1. CASE \E j \in LiveIds : Coin(j) = d
    BY <2>1, <1>3, <1>4, TheClaimant
  <2>2. CASE \A j \in LiveIds : Coin(j) # d
    BY <2>2, <1>3, TheClaimant, IdsAssumption DEF NoTag
  <2> QED BY <2>1, <2>2
<1>9. Ended' = Ended /\ i \notin Ended
  BY <1>1, <1>3 DEF Ended, Finished
<1>10. ClaimOf' = [ClaimOf EXCEPT ![c] = i]
  BY <1>2, <1>6, <1>7 DEF ClaimOf
<1> QED BY <1>2, <1>6, <1>8, <1>9, <1>10 DEF Claims!Claim, ClaimOf, Ended

(* Rows that end let their coins go, together.                             *)
LEMMA LettingGoReleases ==
  ASSUME Inv, Inv', RowsLetGo
  PROVE  \E S \in SUBSET Coins : Claims!Release(S)
<1> DEFINE S == {c \in Coins : \E i \in LiveIds \ LiveIds' : Coin(i) = c}
<1>1. /\ OneLiveIntentPerCoin /\ OneLiveIntentPerCoin' /\ status \in [Ids -> Statuses]
      /\ \A i \in Ids : Coin(i) \in Coins /\ Coin(i)' = Coin(i)
  BY RowType DEF Inv, TypeOK, RowsLetGo, Coin
<1>2. LiveIds' \subseteq LiveIds /\ LiveIds \subseteq Ids
  BY DEF RowsLetGo, LiveIds, Live
<1>3. Ended' = Ended \cup (LiveIds \ LiveIds')
  <2> SUFFICES ASSUME NEW i \in Ids
               PROVE  status'[i] \in Finished <=> status[i] \in Finished \/ (Live(i) /\ ~Live(i)')
    BY DEF Ended, LiveIds
  <2>1. CASE Live(i)
    <3>1. status'[i] \in LiveStatuses \cup Finished /\ status[i] \in LiveStatuses
      BY <2>1 DEF RowsLetGo, Live
    <3> QED BY <2>1, <3>1 DEF Live, LiveStatuses, Finished
  <2>2. CASE ~Live(i)
    BY <2>2 DEF RowsLetGo
  <2> QED BY <2>1, <2>2
<1>4. \A i \in LiveIds \ LiveIds' : Coin(i) \in S /\ ClaimantOf(Coin(i)) = i
  BY <1>1, <1>2, TheClaimant
<1>5. \A c \in S : \E i \in LiveIds \ LiveIds' : ClaimantOf(c) = i /\ Coin(i) = c
  BY <1>1, <1>2, TheClaimant
<1>6. \A c \in S : ClaimantOf(c) # NoTag
  BY <1>2, <1>5, IdsAssumption DEF NoTag
<1>7. \A c \in S : ClaimantOf(c)' = NoTag
  <2> SUFFICES ASSUME NEW c \in S PROVE \A i \in LiveIds' : Coin(i)' # c
    BY <1>1, TheNextClaimant
  <2>1. PICK j \in LiveIds \ LiveIds' : Coin(j) = c
    BY <1>5
  <2> QED BY <2>1, <1>1, <1>2 DEF OneLiveIntentPerCoin
<1>8. \A c \in Coins \ S : ClaimantOf(c)' = ClaimantOf(c)
  <2> SUFFICES ASSUME NEW c \in Coins, c \notin S PROVE ClaimantOf(c)' = ClaimantOf(c)
    OBVIOUS
  <2>1. CASE \E i \in LiveIds : Coin(i) = c
    <3>1. PICK i \in LiveIds : Coin(i) = c
      BY <2>1
    <3>2. i \in LiveIds'
      BY <3>1
    <3> QED BY <3>1, <3>2, <1>1, <1>2, TheClaimant, TheNextClaimant
  <2>2. CASE \A i \in LiveIds : Coin(i) # c
    <3>1. \A i \in LiveIds' : Coin(i)' # c
      BY <2>2, <1>1, <1>2
    <3> QED BY <2>2, <3>1, <1>1, TheClaimant, TheNextClaimant
  <2> QED BY <2>1, <2>2
<1>9. LiveIds \ LiveIds' = {ClaimantOf(c) : c \in S}
  BY <1>4, <1>5
<1>10. S \in SUBSET Coins
  OBVIOUS
<1> HIDE DEF S
<1>11. ClaimOf' = [c \in Coins |-> IF c \in S THEN NoTag ELSE ClaimOf[c]]
  BY <1>7, <1>8, <1>10 DEF ClaimOf
<1>12. Ended' = Ended \cup {ClaimOf[c] : c \in S}
  BY <1>3, <1>9, <1>10 DEF ClaimOf
<1>13. \A c \in S : ClaimOf[c] # NoTag
  BY <1>6, <1>10 DEF ClaimOf
<1> QED BY <1>10, <1>11, <1>12, <1>13 DEF Claims!Release, ClaimOf, Ended

LEMMA ClaimsInit ==
  ASSUME Init PROVE Claims!Init
<1>1. LiveIds = {} /\ Ended = {}
  BY DEF Init, LiveIds, Live, LiveStatuses, Forgotten, Ended, Finished
<1>2. \A c \in Coins : ClaimantOf(c) = NoTag
  BY <1>1 DEF ClaimantOf
<1> QED BY <1>1, <1>2 DEF Claims!Init, Ended

(* Seen from outside, the loop keeps what the intent ledger promises about *)
(* the coins of an account: one intent claims a coin at a time, once, and  *)
(* none that has let it go claims again -- every step of the loop, of the  *)
(* venue and of the crashes is a claim, a release of the coins of what has *)
(* ended, or no step at all.                                               *)
THEOREM LoopImplementsCoinClaims ==
  ASSUME UserSizes = {}, ~AnswersLost
  PROVE  Spec => ImplementsCoinClaims
<1>1. Init => Claims!Init
  BY ClaimsInit
<1>2. Inv /\ RowsInv /\ PositionsInv /\ [Next]_vars
        => [Claims!Next]_<<ClaimOf, Ended>>
  <2> SUFFICES ASSUME Inv, RowsInv, PositionsInv, [Next]_vars PROVE Claims!Next
    OBVIOUS
  <2>1. Inv'
    BY NextInv
  <2> QED BY <2>1, RowsStep, WritingClaims, LettingGoReleases DEF Claims!Next
<1> QED BY <1>1, <1>2, PositionsHold, PTL DEF Spec, ImplementsCoinClaims, Claims!Spec, ClaimOf, Ended

-----------------------------------------------------------------------------
(* Stops. *)

(* No two resting orders have one client order id.                         *)
OidsApart == IsFiniteSet(book) /\ \A o, q \in book : o.oid = q.oid => o = q

(* Of the orders of ours that rest, those that this pass leaves alone, and *)
(* the exits it has yet to place: together, the book it is working towards. *)
Going(o) == \E a \in todo : a.kind = "cancel" /\ a.oid = o.oid
Staying  == {o \in Ours(book) : ~Going(o)}
Coming   == {a \in todo : a.kind = "place" /\ a.role \in {"tp", "sl"}}

(* The row is planned to be held, or to be entered.                        *)
Kept(i) == Listed(i) /\ i \notin closing

JustFilled(i) ==
  answer # Unanswered /\ answer.role = "entry" /\ answer.tag = i /\ answer.ok /\ answer.k > 0

(* An entry of i is to be placed, or has filled and has no exits yet.      *)
IsEntering(i) ==
  \/ \E a \in todo : IsEntry(a) /\ a.tag = i
  \/ JustFilled(i)
  \/ pc = "act" /\ i \in freshFills

PlanStands ==
  /\ \A o, q \in Staying : SameKey(o, q) => o = q
  /\ \A a, b \in Coming : SameKey(a, b) => a = b
  /\ \A o \in Staying, a \in Coming : ~SameKey(o, a)
  /\ \A x \in Staying \cup Coming : ~IsEntering(x.tag)
  /\ \A a \in todo : a.kind = "place" =>
       a.coin = Coin(a.tag) /\ (a.role = "close" => a.tag \in closing)

PositionsStand ==
  /\ \A i \in Ids : Kept(i) /\ seenPos[Coin(i)] # 0 => pos[Coin(i)] = seenPos[Coin(i)]
  /\ \A i \in Ids : Kept(i) /\ seenPos[Coin(i)] = 0 /\ pos[Coin(i)] # 0
                      => i \in freshFills \/ JustFilled(i)
  /\ \A a \in todo : IsEntry(a) => pos[Coin(a.tag)] = 0
  /\ \A i \in Ids : i \in freshFills \/ JustFilled(i) => ToEnter(i) /\ pos[Coin(i)] # 0
  /\ \A i \in Ids : JustFilled(i) => pc = "act"
  /\ \A i \in freshFills : status[i] = "open"
  /\ \A i \in Ids : Kept(i) => listed[i] # "closing"
  /\ \A i \in Ids : Kept(i) /\ listed[i] = "pending" => i \notin late

StopsAreSet ==
  \A i \in Ids :
    Kept(i) /\ terms[i].stop /\ (seenPos[Coin(i)] # 0 \/ (pc = "protect" /\ i \in freshFills))
      => \E x \in Staying \cup Coming :
           x.tag = i /\ x.role = "sl" /\ x.sz = Held(pos, Coin(i))

OnlyTheHeldHaveOrders ==
  ~holding => \A x \in Staying \cup Coming : Kept(x.tag) /\ pos[Coin(x.tag)] # 0

WorkInv == calm /\ Acting => PlanStands /\ PositionsStand /\ StopsAreSet /\ OnlyTheHeldHaveOrders

AllAreQuoted == pc = "consider" => unpriced = {}
BookInv == OidsApart /\ AllAreQuoted /\ WorkInv /\ BookIsWhatTheRowsAsk

-----------------------------------------------------------------------------
(* Of the orders with one key, one leads.                                  *)
LEMMA OneLeads ==
  ASSUME NEW orders, IsFiniteSet(orders), NEW lead \in Leads(orders)
  PROVE  /\ lead \subseteq Ours(orders)
         /\ \A l, m \in lead : SameKey(l, m) => l = m
<1>1. lead \subseteq Ours(orders) /\ IsFiniteSet(lead)
  BY FS_Subset DEF Leads, Ours
<1> SUFFICES ASSUME NEW l \in lead, NEW m \in lead, SameKey(l, m) PROVE l = m
  BY <1>1
<1> DEFINE same == {x \in lead : SameKey(x, m)}
<1>2. IsFiniteSet(same) /\ Cardinality(same) = 1
  BY <1>1, FS_Subset DEF Leads
<1>3. PICK x : same = {x}
  BY <1>2, FS_Singleton
<1>4. l \in same /\ m \in same
  BY DEF SameKey
<1> QED BY <1>3, <1>4

(* The actions of a pass, under a halt or not.                             *)
ActionsOf(halts, wanted, orders, lead) ==
  IF halts THEN UnderHalt(Reconcile(wanted, orders, lead)) ELSE Reconcile(wanted, orders, lead)

(* An order that no action cancels leads its key, is of the size that is   *)
(* wanted if its key is, and is wanted unless the account is halted.       *)
LEMMA WhatIsLeftAlone ==
  ASSUME NEW wanted, NEW orders, NEW lead, NEW halts \in BOOLEAN,
         NEW o \in Ours(orders),
         ~ \E a \in ActionsOf(halts, wanted, orders, lead) : a.kind = "cancel" /\ a.oid = o.oid
  PROVE  /\ o \in lead
         /\ (\E w \in wanted : SameKey(o, w)) => Matched(o, wanted)
         /\ ~halts => \E w \in wanted : SameKey(o, w)
<1> DEFINE v == Verdict(o, lead, wanted)
           a == Cancel(o, v)
<1>1. a.kind = "cancel" /\ a.oid = o.oid /\ a.why = v
  BY DEF Cancel
<1>2. v # "keep" => a \in Reconcile(wanted, orders, lead)
  BY DEF Reconcile
<1> HIDE DEF a
<1>3. v # "keep" => halts /\ v \notin {"wrong-size", "duplicate"}
  BY <1>1, <1>2 DEF ActionsOf, UnderHalt
<1>4. v \in {"duplicate", "unwanted", "wrong-size", "keep"}
  BY DEF Verdict
<1>5. v \in {"unwanted", "keep"} /\ (v = "unwanted" => halts)
  BY <1>3, <1>4
<1> QED BY <1>5 DEF Verdict

(* An exit that is wanted is there, and is left alone, or is placed.       *)
LEMMA WhatIsProvided ==
  ASSUME NEW wanted, NEW orders, NEW lead, NEW halts \in BOOLEAN,
         lead \subseteq Ours(orders), \A o, q \in orders : o.oid = q.oid => o = q,
         NEW w \in wanted, w.role # "entry"
  PROVE  \/ \E o \in lead :
              /\ SameKey(o, w) /\ o.sz = w.sz
              /\ ~ \E a \in ActionsOf(halts, wanted, orders, lead) : a.kind = "cancel" /\ a.oid = o.oid
         \/ Place(w) \in ActionsOf(halts, wanted, orders, lead)
<1>1. CASE \E o \in lead : Matched(o, {w})
  <2>1. PICK o \in lead : SameKey(o, w) /\ o.sz = w.sz
    BY <1>1 DEF Matched
  <2>2. Verdict(o, lead, wanted) = "keep"
    BY <2>1 DEF Verdict, Matched
  <2>3. ASSUME NEW a \in ActionsOf(halts, wanted, orders, lead), a.kind = "cancel", a.oid = o.oid
        PROVE  FALSE
    <3>1. a \in Reconcile(wanted, orders, lead)
      BY <2>3, UnderHaltShrinks DEF ActionsOf
    <3>2. \A x : Place(x).kind = "place"
      BY DEF Place
    <3>3. PICK q \in Ours(orders) :
            a = Cancel(q, Verdict(q, lead, wanted)) /\ Verdict(q, lead, wanted) # "keep"
      BY <2>3, <3>1, <3>2 DEF Reconcile
    <3>4. q.oid = o.oid
      BY <2>3, <3>3 DEF Cancel
    <3> QED BY <3>3, <3>4, <2>2 DEF Ours
  <2> QED BY <2>1, <2>3
<1>2. CASE ~ \E o \in lead : Matched(o, {w})
  <2>1. Place(w) \in Reconcile(wanted, orders, lead)
    BY <1>2 DEF Reconcile
  <2>2. Place(w).kind = "place" /\ Place(w).role = w.role
    BY DEF Place
  <2> QED BY <2>1, <2>2 DEF ActionsOf, UnderHalt
<1> QED BY <1>1, <1>2

LEMMA WhatIsPlaced ==
  ASSUME NEW wanted, NEW orders, NEW lead, NEW halts \in BOOLEAN,
         NEW a \in ActionsOf(halts, wanted, orders, lead), a.kind = "place"
  PROVE  \E w \in wanted : /\ a = Place(w) /\ ~ \E o \in lead : Matched(o, {w})
                           /\ halts => w.role # "entry"
<1>1. a \in Reconcile(wanted, orders, lead)
  BY UnderHaltShrinks DEF ActionsOf
<1>2. \A o, why : Cancel(o, why).kind = "cancel"
  BY DEF Cancel
<1>3. PICK w \in wanted : a = Place(w) /\ ~ \E o \in lead : Matched(o, {w})
  BY <1>1, <1>2 DEF Reconcile
<1>4. halts => w.role # "entry"
  BY <1>3 DEF ActionsOf, UnderHalt, Place
<1> QED BY <1>3, <1>4

-----------------------------------------------------------------------------
(* What plan.ts asks for a row: exits where it is held and kept, a close   *)
(* where it is closed, an entry where it is flat and pending.              *)
LEMMA DesiredShape ==
  ASSUME NEW n, NEW held \in Nat, NEW w \in Desired(n, held)
  PROVE  /\ w.tag = n.id /\ w.coin = n.coin /\ w.role \in Roles
         /\ w.role \in {"tp", "sl"} => held # 0 /\ ~IsClosing(n, held) /\ w = Want(n, w.role, held)
         /\ w.role = "close" => IsClosing(n, held)
         /\ w.role = "entry" => held = 0 /\ ~IsClosing(n, held)
<1>1. CASE held = 0
  BY <1>1 DEF Desired, Want, Roles
<1>2. CASE held # 0 /\ IsClosing(n, held)
  BY <1>2 DEF Desired, Want, Roles
<1>3. CASE held # 0 /\ ~IsClosing(n, held)
  <2>1. PICK r \in {"tp", "sl"} : w = Want(n, r, held)
    BY <1>3 DEF Desired
  <2> QED BY <1>3, <2>1 DEF Want, Roles
<1> QED BY <1>1, <1>2, <1>3

LEMMA DesiredStop ==
  ASSUME NEW n, NEW held \in Nat, held # 0, ~IsClosing(n, held), n.stop
  PROVE  Want(n, "sl", held) \in Desired(n, held)
BY DEF Desired

-----------------------------------------------------------------------------
(***************************************************************************)
(* The plan of a pass that sees the account as it is, every market quoted. *)
(***************************************************************************)
PlannedRow(i)  == Row(i, i \in forced)
PlannedHeld(i) == Held(seenPos, Coin(i))
Closes(i)      == IsClosing(PlannedRow(i), PlannedHeld(i))
PlannedWants   == UNION {Desired(PlannedRow(i), PlannedHeld(i)) : i \in LiveIds}

LEMMA WantsShape ==
  ASSUME TypeOK, NEW w \in PlannedWants
  PROVE  /\ w.tag \in LiveIds /\ w.coin = Coin(w.tag)
         /\ w.role \in {"tp", "sl"} =>
              /\ seenPos[Coin(w.tag)] # 0 /\ ~Closes(w.tag)
              /\ w = Want(PlannedRow(w.tag), w.role, PlannedHeld(w.tag))
         /\ w.role = "close" => Closes(w.tag)
         /\ w.role = "entry" => seenPos[Coin(w.tag)] = 0 /\ ~Closes(w.tag)
         /\ w.role \in Roles
<1>1. PICK i \in LiveIds : w \in Desired(PlannedRow(i), PlannedHeld(i))
  BY DEF PlannedWants
<1>2. i \in Ids /\ Coin(i) \in Coins /\ PlannedHeld(i) \in Nat /\ seenPos[Coin(i)] \in Int
  BY RowType, HeldType DEF TypeOK, LiveIds, PlannedHeld
<1>3. PlannedRow(i).id = i /\ PlannedRow(i).coin = Coin(i)
  BY DEF PlannedRow, Row
<1>4. PlannedHeld(i) = 0 <=> seenPos[Coin(i)] = 0
  BY <1>2 DEF PlannedHeld, Held
<1>5. /\ w.tag = i /\ w.coin = Coin(i) /\ w.role \in Roles
      /\ w.role \in {"tp", "sl"} => PlannedHeld(i) # 0 /\ ~Closes(i)
                                    /\ w = Want(PlannedRow(i), w.role, PlannedHeld(i))
      /\ w.role = "close" => Closes(i)
      /\ w.role = "entry" => PlannedHeld(i) = 0 /\ ~Closes(i)
  <2> HIDE DEF PlannedRow, PlannedHeld
  <2> QED BY <1>1, <1>2, <1>3, DesiredShape DEF Closes
<1> QED BY <1>1, <1>4, <1>5

(* A row has one want of each kind.                                        *)
LEMMA WantsApart ==
  ASSUME TypeOK, NEW v \in PlannedWants, NEW w \in PlannedWants, SameKey(v, w),
         w.role \in {"tp", "sl"}
  PROVE  v = w
BY WantsShape DEF SameKey

(* The plan, in these terms.                                               *)
LEMMA ThePlan ==
  ASSUME PlanPass, AllAreQuoted
  PROVE  /\ closing' = {i \in LiveIds : Closes(i)}
         /\ holding' = Halts(cond, seenPos, {Coin(i) : i \in LiveIds}, seenBook)
         /\ \E lead \in Leads(seenBook) :
              todo' = ActionsOf(holding', PlannedWants, seenBook, lead)
<1>1. {i \in LiveIds : Coin(i) \notin unpriced} = LiveIds
  BY DEF PlanPass, AllAreQuoted
<1> QED BY <1>1 DEF PlanPass, ActionsOf, Closes, PlannedWants, PlannedRow, PlannedHeld

(* What stays and what comes after such a plan.                            *)
LEMMA PlannedStaying ==
  ASSUME TypeOK, OidsApart, seenBook = book, PlanPass, AllAreQuoted,
         NEW lead \in Leads(book), todo' = ActionsOf(holding', PlannedWants, book, lead),
         NEW o \in Staying'
  PROVE  /\ o \in lead
         /\ (\E w \in PlannedWants : SameKey(o, w)) => Matched(o, PlannedWants)
         /\ ~holding' => \E w \in PlannedWants : SameKey(o, w)
<1>1. o \in Ours(book) /\ ~ \E a \in todo' : a.kind = "cancel" /\ a.oid = o.oid
  BY DEF Staying, Going, PlanPass, venueVars, Ours
<1>2. holding' \in BOOLEAN
  BY ThePlan DEF Halts, StickyHalt
<1> QED BY <1>1, <1>2, WhatIsLeftAlone

LEMMA PlannedComing ==
  ASSUME TypeOK, PlanPass, AllAreQuoted,
         NEW lead, todo' = ActionsOf(holding', PlannedWants, book, lead),
         NEW a \in todo', a.kind = "place"
  PROVE  \E w \in PlannedWants : /\ a = Place(w) /\ ~ \E o \in lead : Matched(o, {w})
                                 /\ holding' => w.role # "entry"
<1>1. PICK halts \in BOOLEAN : halts = holding'
  BY ThePlan DEF Halts, StickyHalt
<1>2. a \in ActionsOf(halts, PlannedWants, book, lead)
  BY <1>1
<1>3. \E w \in PlannedWants : /\ a = Place(w) /\ ~ \E o \in lead : Matched(o, {w})
                              /\ halts => w.role # "entry"
  BY <1>2, WhatIsPlaced
<1> QED BY <1>1, <1>3

LEMMA PlacePart ==
  ASSUME NEW w
  PROVE  /\ Place(w).kind = "place" /\ Place(w).tag = w.tag /\ Place(w).coin = w.coin
         /\ Place(w).role = w.role /\ Place(w).sz = w.sz
BY DEF Place

LEMMA WantPart ==
  ASSUME NEW n, NEW r, NEW sz
  PROVE  /\ Want(n, r, sz).tag = n.id /\ Want(n, r, sz).coin = n.coin
         /\ Want(n, r, sz).role = r /\ Want(n, r, sz).sz = sz
BY DEF Want

LEMMA PlanPassWork ==
  ASSUME Inv, CalmInv, OidsApart, AllAreQuoted, PlanPass, calm
  PROVE  WorkInv'
<1>1. /\ TypeOK /\ seenPos = pos /\ seenBook = book
      /\ UNCHANGED <<pos, book, status, terms, late, answer, freshFills, seenPos>>
      /\ pc = "consider" /\ pc' = "act"
  BY DEF PlanPass, Inv, CalmInv, CalmView, venueVars, dayVars
<1>2. answer' = Unanswered /\ freshFills' = {}
  BY <1>1, IdleIsEmpty DEF Acting
<1>3. PICK lead \in Leads(book) : todo' = ActionsOf(holding', PlannedWants, book, lead)
  BY <1>1, ThePlan
<1>4. closing' = {i \in LiveIds : Closes(i)} /\ holding' \in BOOLEAN
  BY ThePlan DEF Halts, StickyHalt
<1>5. /\ lead \subseteq Ours(book)
      /\ \A l, m \in lead : SameKey(l, m) => l = m
  BY OneLeads DEF OidsApart
<1>6. \A i \in Ids : /\ Listed(i)' <=> i \in LiveIds
                     /\ listed'[i] # "none" => listed'[i] = status[i]
                     /\ Coin(i)' = Coin(i) /\ Coin(i) \in Coins
  BY <1>1, RowType DEF PlanPass, Listed, LiveIds, Live, LiveStatuses, Coin
<1>7. \A i \in Ids : Kept(i)' <=> i \in LiveIds /\ ~Closes(i)
  BY <1>4, <1>6 DEF Kept
<1>8. \A o \in Staying' :
        /\ o \in lead
        /\ (\E w \in PlannedWants : SameKey(o, w)) => Matched(o, PlannedWants)
        /\ ~holding' => \E w \in PlannedWants : SameKey(o, w)
  BY <1>1, <1>3, PlannedStaying
<1>9. \A a \in todo' : a.kind = "place" =>
        \E w \in PlannedWants : /\ a = Place(w) /\ ~ \E o \in lead : Matched(o, {w})
                                /\ holding' => w.role # "entry"
  BY <1>1, <1>3, PlannedComing
<1>10. \A w \in PlannedWants :
         /\ w.tag \in LiveIds /\ w.tag \in Ids /\ w.coin = Coin(w.tag)
         /\ w.role \in {"tp", "sl"} =>
              /\ seenPos[Coin(w.tag)] # 0 /\ ~Closes(w.tag)
              /\ w = Want(PlannedRow(w.tag), w.role, PlannedHeld(w.tag))
         /\ w.role = "close" => Closes(w.tag)
         /\ w.role = "entry" => seenPos[Coin(w.tag)] = 0 /\ ~Closes(w.tag)
  BY <1>1, WantsShape DEF LiveIds
<1>11. \A o \in Staying' : o.role \in {"tp", "sl"} /\ o.tag \in Ids
  <2> SUFFICES ASSUME NEW o \in book, o.tag # NoTag PROVE o.role \in {"tp", "sl"} /\ o.tag \in Ids
    BY <1>1 DEF Staying, Ours
  <2> QED BY <1>1 DEF TypeOK, VenueTypeOK, Order
<1>12. \A a \in Coming' : \E w \in PlannedWants :
         /\ a = Place(w) /\ w.role \in {"tp", "sl"}
         /\ ~ \E o \in lead : Matched(o, {w})
  <2> SUFFICES ASSUME NEW a \in todo', a.kind = "place", a.role \in {"tp", "sl"}
               PROVE  \E w \in PlannedWants : /\ a = Place(w) /\ w.role \in {"tp", "sl"}
                                              /\ ~ \E o \in lead : Matched(o, {w})
    BY DEF Coming
  <2>1. PICK w \in PlannedWants : a = Place(w) /\ ~ \E o \in lead : Matched(o, {w})
    BY <1>9
  <2>2. a.role = w.role
    BY <2>1, PlacePart
  <2> QED BY <2>1, <2>2
<1>13. \A j : IsEntering(j)' => \E w \in PlannedWants : w.tag = j /\ w.role = "entry" /\ ~holding'
  <2> SUFFICES ASSUME NEW j, IsEntering(j)'
               PROVE  \E w \in PlannedWants : w.tag = j /\ w.role = "entry" /\ ~holding'
    OBVIOUS
  <2>1. PICK a \in todo' : IsEntry(a) /\ a.tag = j
    BY <1>2 DEF IsEntering, JustFilled
  <2> QED BY <2>1, <1>9, PlacePart DEF IsEntry
<1>14. PlanStands'
  <2>1. ASSUME NEW o \in Staying', NEW q \in Staying', SameKey(o, q) PROVE o = q
    BY <2>1, <1>5, <1>8
  <2>2. ASSUME NEW a \in Coming', NEW b \in Coming', SameKey(a, b) PROVE a = b
    <3>1. PICK v \in PlannedWants : a = Place(v) /\ v.role \in {"tp", "sl"}
      BY <1>12
    <3>2. PICK w \in PlannedWants : b = Place(w) /\ w.role \in {"tp", "sl"}
      BY <1>12
    <3>3. SameKey(v, w)
      BY <2>2, <3>1, <3>2, PlacePart DEF SameKey
    <3> QED BY <3>1, <3>2, <3>3, <1>1, WantsApart
  <2>3. ASSUME NEW o \in Staying', NEW a \in Coming' PROVE ~SameKey(o, a)
    <3>1. PICK w \in PlannedWants :
            a = Place(w) /\ w.role \in {"tp", "sl"} /\ ~ \E l \in lead : Matched(l, {w})
      BY <1>12
    <3> SUFFICES ASSUME SameKey(o, w) PROVE FALSE
      BY <3>1, PlacePart DEF SameKey
    <3>2. PICK v \in PlannedWants : SameKey(o, v) /\ o.sz = v.sz
      BY <1>8 DEF Matched
    <3>3. v = w
      BY <3>1, <3>2, <1>1, WantsApart DEF SameKey
    <3> QED BY <3>1, <3>2, <3>3, <1>8 DEF Matched
  <2>4. ASSUME NEW x \in Staying' \cup Coming' PROVE ~IsEntering(x.tag)'
    <3> SUFFICES ASSUME IsEntering(x.tag)' PROVE FALSE
      OBVIOUS
    <3>1. PICK w \in PlannedWants : w.tag = x.tag /\ w.role = "entry" /\ ~holding'
      BY <1>13
    <3>2. \E v \in PlannedWants : v.tag = x.tag /\ v.role \in {"tp", "sl"}
      <4>1. CASE x \in Staying'
        BY <4>1, <3>1, <1>8, <1>11 DEF SameKey
      <4>2. CASE x \in Coming'
        BY <4>2, <1>12, PlacePart
      <4> QED BY <4>1, <4>2
    <3> QED BY <3>1, <3>2, <1>10
  <2>5. ASSUME NEW a \in todo', a.kind = "place"
        PROVE  a.coin = Coin(a.tag)' /\ (a.role = "close" => a.tag \in closing')
    <3>1. PICK w \in PlannedWants : a = Place(w)
      BY <2>5, <1>9
    <3> QED BY <3>1, <1>4, <1>6, <1>10, PlacePart
  <2> QED BY <2>1, <2>2, <2>3, <2>4, <2>5 DEF PlanStands
<1>15. PositionsStand'
  <2>1. \A a \in todo' : IsEntry(a) => pos[Coin(a.tag)] = 0 /\ a.tag \in Ids
    <3> SUFFICES ASSUME NEW a \in todo', a.kind = "place", a.role = "entry"
                 PROVE  pos[Coin(a.tag)] = 0 /\ a.tag \in Ids
      BY DEF IsEntry
    <3>1. PICK w \in PlannedWants : a = Place(w)
      BY <1>9
    <3>2. w.role = "entry" /\ w.tag = a.tag
      BY <3>1, PlacePart
    <3> QED BY <3>2, <1>1, <1>10
  <2>2. \A i \in LiveIds : ~Closes(i) => status[i] # "closing" /\ (status[i] = "pending" => i \notin late)
    BY DEF Closes, IsClosing, PlannedRow, Row
  <2>3. \A i : ~JustFilled(i)' /\ i \notin freshFills'
    BY <1>2 DEF JustFilled
  <2> QED BY <1>1, <1>2, <1>6, <1>7, <2>1, <2>2, <2>3 DEF PositionsStand
<1>16. StopsAreSet'
  <2> SUFFICES ASSUME NEW i \in Ids, i \in LiveIds, ~Closes(i), terms[i].stop, seenPos[Coin(i)] # 0
               PROVE  \E x \in Staying' \cup Coming' :
                        x.tag = i /\ x.role = "sl" /\ x.sz = Held(pos, Coin(i))
    BY <1>1, <1>2, <1>6, <1>7 DEF StopsAreSet
  <2> DEFINE w == Want(PlannedRow(i), "sl", PlannedHeld(i))
  <2>1. /\ PlannedHeld(i) \in Nat /\ PlannedHeld(i) # 0 /\ PlannedHeld(i) = Held(pos, Coin(i))
        /\ PlannedRow(i).stop /\ PlannedRow(i).id = i
    <3>1. seenPos[Coin(i)] \in Int
      BY <1>1, <1>6 DEF TypeOK
    <3> QED BY <3>1, <1>1 DEF PlannedHeld, Held, PlannedRow, Row
  <2>2. w \in PlannedWants
    <3>1. w \in Desired(PlannedRow(i), PlannedHeld(i))
      <4> HIDE DEF PlannedRow, PlannedHeld
      <4> QED BY <2>1, DesiredStop DEF Closes
    <3> QED BY <3>1 DEF PlannedWants
  <2>3. w.tag = i /\ w.role = "sl" /\ w.sz = Held(pos, Coin(i))
    BY <2>1, WantPart
  <2> HIDE DEF w
  <2>4. \/ \E o \in lead : /\ SameKey(o, w) /\ o.sz = w.sz
                           /\ ~ \E a \in todo' : a.kind = "cancel" /\ a.oid = o.oid
        \/ Place(w) \in todo'
    BY <1>3, <1>4, <1>5, <2>2, <2>3, WhatIsProvided DEF OidsApart
  <2>5. CASE \E o \in lead : /\ SameKey(o, w) /\ o.sz = w.sz
                             /\ ~ \E a \in todo' : a.kind = "cancel" /\ a.oid = o.oid
    <3>1. PICK o \in lead : /\ SameKey(o, w) /\ o.sz = w.sz
                            /\ ~ \E a \in todo' : a.kind = "cancel" /\ a.oid = o.oid
      BY <2>5
    <3>2. o \in Staying'
      BY <3>1, <1>1, <1>5 DEF Staying, Going, Ours
    <3> QED BY <3>1, <3>2, <2>3 DEF SameKey
  <2>6. CASE Place(w) \in todo'
    <3>1. Place(w) \in Coming'
      BY <2>6, <2>3, PlacePart DEF Coming
    <3> QED BY <3>1, <2>3, PlacePart
  <2> QED BY <2>4, <2>5, <2>6
<1>17. OnlyTheHeldHaveOrders'
  <2> SUFFICES ASSUME ~holding', NEW x \in Staying' \cup Coming'
               PROVE  Kept(x.tag)' /\ pos[Coin(x.tag)] # 0
    BY <1>1 DEF OnlyTheHeldHaveOrders, Coin
  <2>1. \E v \in PlannedWants : v.tag = x.tag /\ v.role \in {"tp", "sl"}
    <3>1. CASE x \in Staying'
      BY <3>1, <1>8, <1>11 DEF SameKey
    <3>2. CASE x \in Coming'
      BY <3>2, <1>12, PlacePart
    <3> QED BY <3>1, <3>2
  <2> QED BY <2>1, <1>1, <1>7, <1>10
<1> QED BY <1>14, <1>15, <1>16, <1>17 DEF WorkInv

-----------------------------------------------------------------------------
(***************************************************************************)
(* Executing the plan.                                                     *)
(***************************************************************************)

(* What a step that executes the plan leaves alone.                        *)
PlanKept == UNCHANGED <<terms, late, seenPos, listed, closing, holding, pc>>

LEMMA PlanKeptParts ==
  ASSUME PlanKept
  PROVE  \A i : /\ Kept(i)' = Kept(i) /\ Listed(i)' = Listed(i)
                /\ Coin(i)' = Coin(i) /\ ToEnter(i)' = ToEnter(i)
                /\ terms'[i].stop = terms[i].stop
BY DEF PlanKept, Kept, Listed, Coin, ToEnter

(* A cancel takes off the book what was going anyway.                      *)
LEMMA CancelOneWork ==
  ASSUME WorkInv, NEW a \in todo, CancelOne(a)
  PROVE  WorkInv'
<1> SUFFICES ASSUME calm', Acting' PROVE (PlanStands /\ PositionsStand /\ StopsAreSet /\ OnlyTheHeldHaveOrders)'
  BY DEF WorkInv
<1>1. /\ PlanKept /\ UNCHANGED <<pos, status, answer, freshFills>> /\ Acting
      /\ a.kind = "cancel" /\ todo' = todo \ {a}
  BY DEF CancelOne, PlanKept, Acting, ledgerVars, dayVars, viewVars
<1>2. calm /\ book' = book \ {o \in book : o.oid = a.oid}
  BY DEF CancelOne, Fault, NoFault
<1>3. Staying' = Staying
  BY <1>1, <1>2 DEF Staying, Going, Ours
<1>4. Coming' = Coming /\ \A b : IsEntry(b) => (b \in todo' <=> b \in todo)
  BY <1>1 DEF Coming, IsEntry
<1>5. \A i : IsEntering(i)' = IsEntering(i) /\ JustFilled(i)' = JustFilled(i)
  BY <1>1, <1>4 DEF IsEntering, JustFilled, PlanKept
<1>6. PlanStands /\ PositionsStand /\ StopsAreSet /\ OnlyTheHeldHaveOrders
  BY <1>1, <1>2 DEF WorkInv
<1>7. PlanStands'
  BY <1>1, <1>3, <1>4, <1>5, <1>6, PlanKeptParts DEF PlanStands, PlanKept
<1>8. PositionsStand'
  BY <1>1, <1>4, <1>5, <1>6, PlanKeptParts DEF PositionsStand, PlanKept
<1>9. StopsAreSet'
  BY <1>1, <1>3, <1>4, <1>6, PlanKeptParts DEF StopsAreSet, PlanKept
<1>10. OnlyTheHeldHaveOrders'
  BY <1>1, <1>3, <1>4, <1>6, PlanKeptParts DEF OnlyTheHeldHaveOrders, PlanKept
<1> QED BY <1>7, <1>8, <1>9, <1>10

(* An answer recorded makes a fresh fill of what had just filled.          *)
LEMMA RecordWork == Inv /\ CalmInv /\ WorkInv /\ Record => WorkInv'
<1> SUFFICES ASSUME Inv, CalmInv, WorkInv, Record, calm', Acting'
             PROVE  (PlanStands /\ PositionsStand /\ StopsAreSet /\ OnlyTheHeldHaveOrders)'
  BY DEF WorkInv
<1>1. /\ PlanKept /\ UNCHANGED <<pos, book, todo>> /\ Acting /\ calm
      /\ answer # Unanswered /\ answer' = Unanswered
  BY DEF Record, PlanKept, Acting, venueVars, dayVars, viewVars, historyVars
<1>2. answer.ok /\ PlanStands /\ PositionsStand /\ StopsAreSet /\ OnlyTheHeldHaveOrders
  BY <1>1 DEF CalmInv, CalmView, WorkInv
<1>3. Staying' = Staying /\ Coming' = Coming
  BY <1>1 DEF Staying, Going, Coming
<1>4. \A i : /\ ~JustFilled(i)'
             /\ i \in freshFills' <=> i \in freshFills \/ JustFilled(i)
  BY <1>1, <1>2 DEF Record, JustFilled
<1>5. \A i \in Ids : JustFilled(i) => pc = "act"
  BY <1>2 DEF PositionsStand
<1>6. \A i : IsEntering(i)' => IsEntering(i)
  BY <1>1, <1>4 DEF IsEntering, PlanKept
<1>7. PlanStands'
  BY <1>1, <1>2, <1>3, <1>6, PlanKeptParts DEF PlanStands, PlanKept
<1>8. PositionsStand'
  <2>1. \A i \in freshFills' : status'[i] = "open"
    <3>1. CASE \E i : JustFilled(i)
      <4>1. status' = [status EXCEPT ![answer.tag] = "open"]
        BY <3>1 DEF JustFilled, Record
      <4>2. status \in [Ids -> Statuses] /\ freshFills \subseteq Ids /\ answer.tag \in Ids
        BY <1>1 DEF Inv, TypeOK, Answer
      <4> QED BY <4>1, <4>2, <1>2, <1>4 DEF PositionsStand, JustFilled
    <3>2. CASE ~ \E i : JustFilled(i)
      <4>1. status' = status /\ freshFills' = freshFills
        BY <3>2, <1>1, <1>2 DEF Record, JustFilled
      <4> QED BY <4>1, <1>2 DEF PositionsStand
    <3> QED BY <3>1, <3>2
  <2> QED BY <2>1, <1>1, <1>2, <1>4, PlanKeptParts DEF PositionsStand, PlanKept
<1>9. StopsAreSet'
  BY <1>1, <1>2, <1>3, <1>4, <1>5, PlanKeptParts DEF StopsAreSet, PlanKept
<1>10. OnlyTheHeldHaveOrders'
  BY <1>1, <1>2, <1>3, PlanKeptParts DEF OnlyTheHeldHaveOrders, PlanKept
<1> QED BY <1>7, <1>8, <1>9, <1>10

(* An exit that comes to rest is no longer coming, and stays.              *)
LEMMA RestsWork ==
  ASSUME PlanStands, PositionsStand, StopsAreSet, OnlyTheHeldHaveOrders,
         NEW a \in todo, a.kind = "place", a.role \in {"tp", "sl"}, a.tag # NoTag,
         todo' = todo \ {a}, PlanKept, UNCHANGED <<pos, status, freshFills>>,
         answer = Unanswered, answer'.role = a.role,
         NEW n \in FreshSlots,
         book' = book \cup {[oid |-> n, tag |-> a.tag, coin |-> a.coin, role |-> a.role, sz |-> a.sz]}
  PROVE  (PlanStands /\ PositionsStand /\ StopsAreSet /\ OnlyTheHeldHaveOrders)'
<1> DEFINE o == [oid |-> n, tag |-> a.tag, coin |-> a.coin, role |-> a.role, sz |-> a.sz]
<1>1. o.oid = n /\ o.tag = a.tag /\ o.role = a.role /\ o.sz = a.sz /\ book' = book \cup {o}
  OBVIOUS
<1> HIDE DEF o
<1>2. \A b \in todo : b.kind = "cancel" => b.oid # n
  BY FreshSlotsAreFree
<1>3. Staying' = Staying \cup {o}
  BY <1>1, <1>2 DEF Staying, Going, Ours
<1>4. Coming' = Coming \ {a} /\ a \in Coming
  BY DEF Coming
<1>5. \A b : IsEntry(b) => (b \in todo' <=> b \in todo)
  BY DEF IsEntry
<1>6. \A i : ~JustFilled(i) /\ ~JustFilled(i)'
  BY DEF JustFilled
<1>7. \A i : IsEntering(i)' = IsEntering(i)
  BY <1>5, <1>6 DEF IsEntering, PlanKept
<1>8. \A x : SameKey(o, x) = SameKey(a, x) /\ SameKey(x, o) = SameKey(x, a)
  BY <1>1 DEF SameKey
<1>9. \A x : SameKey(x, x) /\ \A y : SameKey(x, y) => SameKey(y, x)
  BY DEF SameKey
<1>10. PlanStands'
  <2>1. \A p, q \in Staying' : SameKey(p, q) => p = q
    BY <1>3, <1>4, <1>8, <1>9 DEF PlanStands
  <2>2. \A b, d \in Coming' : SameKey(b, d) => b = d
    BY <1>4 DEF PlanStands
  <2>3. \A q \in Staying', b \in Coming' : ~SameKey(q, b)
    BY <1>3, <1>4, <1>8 DEF PlanStands
  <2>4. \A x \in Staying' \cup Coming' : ~IsEntering(x.tag)'
    BY <1>1, <1>3, <1>4, <1>7 DEF PlanStands
  <2> QED BY <2>1, <2>2, <2>3, <2>4, PlanKeptParts DEF PlanStands, PlanKept
<1>11. PositionsStand'
  BY <1>5, <1>6, PlanKeptParts DEF PositionsStand, PlanKept
<1>12. StopsAreSet'
  <2> SUFFICES ASSUME NEW i \in Ids, Kept(i), terms[i].stop,
                      seenPos[Coin(i)] # 0 \/ (pc = "protect" /\ i \in freshFills)
               PROVE  \E x \in Staying' \cup Coming' :
                        x.tag = i /\ x.role = "sl" /\ x.sz = Held(pos, Coin(i))
    BY PlanKeptParts DEF StopsAreSet, PlanKept
  <2>1. PICK x \in Staying \cup Coming : x.tag = i /\ x.role = "sl" /\ x.sz = Held(pos, Coin(i))
    BY DEF StopsAreSet
  <2>2. CASE x = a
    BY <2>1, <2>2, <1>1, <1>3
  <2>3. CASE x # a
    BY <2>1, <2>3, <1>3, <1>4
  <2> QED BY <2>2, <2>3
<1>13. OnlyTheHeldHaveOrders'
  BY <1>1, <1>3, <1>4, PlanKeptParts DEF OnlyTheHeldHaveOrders, PlanKept
<1> QED BY <1>10, <1>11, <1>12, <1>13

(* An entry or a close that fills moves the coin of its own row alone,     *)
(* which no order of ours that stays or comes is on.                       *)
LEMMA FillsWork ==
  ASSUME Inv, RowsInv, PlanStands, PositionsStand, StopsAreSet, OnlyTheHeldHaveOrders,
         NEW a \in todo, a.kind = "place", a.role \in {"entry", "close"},
         todo' = todo \ {a}, PlanKept, UNCHANGED <<book, status, freshFills>>,
         answer = Unanswered, answer'.role = a.role, answer'.tag = a.tag,
         NEW k \in Nat, answer'.ok, answer'.k = k,
         \A c \in Coins : c # a.coin => pos'[c] = pos[c],
         a.role = "entry" => pos'[a.coin] = pos[a.coin] + Signed(Buys(a.tag, "entry"), k)
  PROVE  (PlanStands /\ PositionsStand /\ StopsAreSet /\ OnlyTheHeldHaveOrders)'
<1>1. /\ a.tag \in Ids /\ a.coin = Coin(a.tag) /\ Listed(a.tag) /\ Acting
      /\ a.role = "close" => a.tag \in closing
  BY ActionParts DEF Inv, OnlyPlannedInFlight, PlanStands
<1>2. \A i \in Ids : Listed(i) /\ i # a.tag => pos'[Coin(i)] = pos[Coin(i)]
  BY <1>1, RowType DEF Inv, PlannedApart
<1>3. a.role = "entry" => /\ IsEntry(a) /\ pc = "act" /\ ToEnter(a.tag)
                          /\ pos[Coin(a.tag)] = 0
  BY DEF IsEntry, RowsInv, EntriesArePlanned, PositionsStand
<1>4. a.role = "entry" => pos'[Coin(a.tag)] = Signed(Buys(a.tag, "entry"), k)
  <2>1. Signed(Buys(a.tag, "entry"), k) \in Int
    BY DEF Signed
  <2> QED BY <2>1, <1>1, <1>3
<1>5. /\ Staying' = Staying /\ Coming' = Coming
      /\ \A b \in todo' : IsEntry(b) => b \in todo /\ b.tag # a.tag
  <2>1. \A b \in todo' : IsEntry(b) => b.tag # a.tag
    BY <1>1, <1>3 DEF RowsInv, EntriesArePlanned, IsEntry, ToEnter
  <2> QED BY <2>1 DEF Staying, Going, Coming, Ours
<1>6. \A i : ~JustFilled(i) /\ (JustFilled(i)' <=> a.role = "entry" /\ i = a.tag /\ k > 0)
  <2>1. answer' # Unanswered
    BY <1>1, Answered DEF Inv
  <2> QED BY <2>1 DEF JustFilled
<1>7. \A i : IsEntering(i)' => IsEntering(i)
  BY <1>3, <1>5, <1>6 DEF IsEntering, PlanKept
<1>8. \A i \in Ids : Kept(i) /\ ~IsEntering(i) => pos'[Coin(i)] = pos[Coin(i)]
  BY <1>1, <1>2, <1>3 DEF Kept, IsEntering
<1>9. \A i \in Ids : ToEnter(i) => Kept(i) /\ seenPos[Coin(i)] = 0
  BY DEF ToEnter, Kept, Listed
<1>10. \A i \in Ids : Kept(i) /\ i # a.tag => pos'[Coin(i)] = pos[Coin(i)]
  BY <1>2 DEF Kept
<1>11. a.role = "close" => ~Kept(a.tag)
  BY <1>1 DEF Kept
<1>12. \A b \in todo : IsEntry(b) => b.tag \in Ids /\ ToEnter(b.tag)
  BY ActionParts DEF Inv, RowsInv, EntriesArePlanned
<1>13. PlanStands'
  <2>1. \A x \in Staying' \cup Coming' : ~IsEntering(x.tag)'
    BY <1>5, <1>7 DEF PlanStands
  <2> QED BY <2>1, <1>5, PlanKeptParts DEF PlanStands, PlanKept
<1>14. PositionsStand'
  <2>1. ASSUME NEW i \in Ids, Kept(i), seenPos[Coin(i)] # 0
        PROVE  pos'[Coin(i)] = seenPos[Coin(i)]
    BY <2>1, <1>3, <1>10, <1>11 DEF PositionsStand, ToEnter
  <2>2. ASSUME NEW i \in Ids, Kept(i), seenPos[Coin(i)] = 0, pos'[Coin(i)] # 0
        PROVE  i \in freshFills' \/ JustFilled(i)'
    <3>1. CASE i = a.tag
      <4>1. k # 0
        BY <2>2, <3>1, <1>4, <1>11 DEF Signed
      <4> QED BY <4>1, <3>1, <2>2, <1>6, <1>11
    <3>2. CASE i # a.tag
      BY <2>2, <3>2, <1>6, <1>10 DEF PositionsStand
    <3> QED BY <3>1, <3>2
  <2>3. ASSUME NEW b \in todo', IsEntry(b)
        PROVE  pos'[Coin(b.tag)] = 0
    BY <2>3, <1>5, <1>9, <1>10, <1>12 DEF PositionsStand
  <2>4. ASSUME NEW i \in Ids, i \in freshFills' \/ JustFilled(i)'
        PROVE  ToEnter(i) /\ pos'[Coin(i)] # 0
    <3>1. CASE JustFilled(i)'
      <4>1. a.role = "entry" /\ i = a.tag /\ k > 0
        BY <3>1, <1>6
      <4> QED BY <4>1, <1>3, <1>4 DEF Signed
    <3>2. CASE i \in freshFills'
      <4>1. ToEnter(i) /\ pos[Coin(i)] # 0
        BY <3>2 DEF PositionsStand
      <4>2. i # a.tag
        BY <4>1, <1>3, <1>9, <1>11
      <4> QED BY <4>1, <4>2, <1>9, <1>10
    <3> QED BY <2>4, <3>1, <3>2
  <2>5. \A i \in Ids : JustFilled(i)' => pc = "act"
    BY <1>3, <1>6
  <2> QED BY <2>1, <2>2, <2>3, <2>4, <2>5, PlanKeptParts DEF PositionsStand, PlanKept
<1>15. StopsAreSet'
  <2>1. ASSUME NEW i \in Ids, Kept(i), seenPos[Coin(i)] # 0 \/ (pc = "protect" /\ i \in freshFills)
        PROVE  Held(pos', Coin(i)) = Held(pos, Coin(i))
    BY <2>1, <1>3, <1>10, <1>11 DEF ToEnter, Held
  <2> QED BY <2>1, <1>5, PlanKeptParts DEF StopsAreSet, PlanKept
<1>16. OnlyTheHeldHaveOrders'
  <2> SUFFICES ASSUME ~holding, NEW x \in Staying \cup Coming
               PROVE  Kept(x.tag) /\ pos'[Coin(x.tag)] # 0
    BY <1>5, PlanKeptParts DEF OnlyTheHeldHaveOrders, PlanKept
  <2>1. Kept(x.tag) /\ pos[Coin(x.tag)] # 0 /\ ~IsEntering(x.tag)
    BY DEF OnlyTheHeldHaveOrders, PlanStands
  <2>2. x.tag \in Ids
    BY ActionParts DEF Inv, TypeOK, VenueTypeOK, Order, Staying, Coming, Ours
  <2> QED BY <2>1, <2>2, <1>8
<1> QED BY <1>13, <1>14, <1>15, <1>16

LEMMA SendWork ==
  ASSUME Inv, RowsInv, WorkInv, NEW a \in todo, NEW k \in 0..a.sz, Send(a, k)
  PROVE  WorkInv'
<1> SUFFICES ASSUME calm', Acting'
             PROVE  (PlanStands /\ PositionsStand /\ StopsAreSet /\ OnlyTheHeldHaveOrders)'
  BY DEF WorkInv
<1>1. /\ PlanKept /\ UNCHANGED <<status, freshFills>> /\ Acting
      /\ a.kind = "place" /\ todo' = todo \ {a} /\ answer = Unanswered
  BY DEF Send, Due, PlanKept, Acting, ledgerVars, dayVars, viewVars
<1>2. /\ Accepts(a, k) /\ calm /\ (k > 0 => a.role \notin {"tp", "sl"})
      /\ answer' = [tag |-> a.tag, role |-> a.role, ok |-> TRUE, k |-> k]
  BY DEF Send, Fault
<1>3. PlanStands /\ PositionsStand /\ StopsAreSet /\ OnlyTheHeldHaveOrders
  BY <1>1, <1>2 DEF WorkInv
<1>4. a \in Action /\ a.tag \in Ids /\ a.tag # NoTag /\ a.coin \in Coins /\ k \in Nat
  BY ActionParts DEF Inv
<1>5. /\ answer'.tag = a.tag /\ answer'.role = a.role /\ answer'.ok /\ answer'.k = k
  BY <1>2
<1>6. pos \in [Coins -> Int] /\ Buys(a.tag, a.role) \in BOOLEAN
  BY <1>4, BuysType DEF Inv, TypeOK, VenueTypeOK
<1>7. CASE a.role \in {"tp", "sl"}
  <2>1. k = 0
    BY <1>2, <1>4, <1>7
  <2>2. pos' = pos /\ \E n \in FreshSlots :
          book' = book \cup {[oid |-> n, tag |-> a.tag, coin |-> a.coin, role |-> a.role, sz |-> a.sz]}
    BY <2>1, <1>2, <1>7 DEF Accepts
  <2> QED BY <2>2, <1>1, <1>3, <1>4, <1>5, <1>7, RestsWork
<1>8. CASE a.role = "entry"
  <2>1. pos' = Netted(pos, a.coin, Buys(a.tag, "entry"), k) /\ book' = book
    BY <1>2, <1>8 DEF Accepts
  <2>2. /\ \A c \in Coins : c # a.coin => pos'[c] = pos[c]
        /\ pos'[a.coin] = pos[a.coin] + Signed(Buys(a.tag, "entry"), k)
    BY <2>1, <1>4, <1>6, <1>8, NettedElsewhere
  <2> QED BY <2>1, <2>2, <1>1, <1>3, <1>4, <1>5, <1>8, FillsWork
<1>9. CASE a.role = "close"
  <2>1. pos' = Reduced(pos, a.coin, Buys(a.tag, "close"), k) /\ book' = book
    BY <1>2, <1>9 DEF Accepts
  <2>2. \A c \in Coins : c # a.coin => pos'[c] = pos[c]
    BY <2>1, <1>4, <1>6 DEF Reduced
  <2> QED BY <2>1, <2>2, <1>1, <1>3, <1>4, <1>5, <1>9, FillsWork
<1> QED BY <1>4, <1>7, <1>8, <1>9 DEF Action, Roles

(* The exits of a fresh fill come, where every market is quoted, for every *)
(* one of them, in the size held; nothing else does.                       *)
LEMMA ProtectWork ==
  ASSUME UnpricedChoices = {{}}, Inv, WorkInv, ProtectFreshFills
  PROVE  WorkInv'
<1> SUFFICES ASSUME calm, Acting
             PROVE  (PlanStands /\ PositionsStand /\ StopsAreSet /\ OnlyTheHeldHaveOrders)'
  BY DEF WorkInv, ProtectFreshFills, Acting, historyVars
<1>1. /\ UNCHANGED <<terms, late, seenPos, listed, closing, holding, pos, book, status, freshFills>>
      /\ pc = "act" /\ pc' = "protect" /\ todo = {} /\ answer = Unanswered /\ answer' = Unanswered
  BY DEF ProtectFreshFills, Executed, venueVars, ledgerVars, dayVars, viewVars
<1>2. PlanStands /\ PositionsStand /\ StopsAreSet /\ OnlyTheHeldHaveOrders
  BY DEF WorkInv
<1>3. \A i : /\ Kept(i)' = Kept(i) /\ Coin(i)' = Coin(i) /\ ToEnter(i)' = ToEnter(i)
             /\ ~JustFilled(i) /\ ~JustFilled(i)'
  BY <1>1 DEF Kept, Listed, Coin, ToEnter, JustFilled
<1> DEFINE fresh(i) == Row(i, FALSE)
           held(i)  == Held(pos, Coin(i))
<1>4. \A i \in freshFills :
        /\ i \in Ids /\ Live(i) /\ pos[Coin(i)] # 0 /\ Kept(i) /\ seenPos[Coin(i)] = 0
        /\ held(i) \in Nat /\ held(i) # 0 /\ ~IsClosing(fresh(i), held(i))
  <2> SUFFICES ASSUME NEW i \in freshFills
               PROVE  /\ i \in Ids /\ Live(i) /\ pos[Coin(i)] # 0 /\ Kept(i) /\ seenPos[Coin(i)] = 0
                      /\ held(i) \in Nat /\ held(i) # 0 /\ ~IsClosing(fresh(i), held(i))
    OBVIOUS
  <2>1. i \in Ids /\ Coin(i) \in Coins /\ pos \in [Coins -> Int]
    BY RowType DEF Inv, TypeOK, VenueTypeOK
  <2>2. status[i] = "open" /\ ToEnter(i) /\ pos[Coin(i)] # 0
    BY <2>1, <1>2 DEF PositionsStand
  <2>3. Kept(i) /\ seenPos[Coin(i)] = 0 /\ i \notin late
    BY <2>1, <2>2, <1>2 DEF PositionsStand, ToEnter, Kept, Listed
  <2>4. held(i) \in Nat /\ held(i) # 0
    BY <2>1, <2>2 DEF Held
  <2>5. ~IsClosing(fresh(i), held(i))
    BY <2>2, <2>3 DEF IsClosing, Row
  <2> QED BY <2>1, <2>2, <2>3, <2>4, <2>5 DEF Live, LiveStatuses
<1>5. todo' = {Place(w) : w \in UNION {{v \in Desired(fresh(i), held(i)) : v.role # "entry"} :
                                       i \in freshFills}}
  <2>1. {j \in freshFills : Live(j) /\ pos[Coin(j)] # 0 /\ Coin(j) \notin {}} = freshFills
    BY <1>4
  <2> QED BY <2>1 DEF ProtectFreshFills
<1>6. \A i : fresh(i).id = i /\ fresh(i).coin = Coin(i) /\ fresh(i).stop = terms[i].stop
  BY DEF Row
<1> HIDE DEF fresh, held
<1>7. \A a \in todo' : \E i \in freshFills, r \in {"tp", "sl"} :
        a = Place(Want(fresh(i), r, held(i)))
  <2> SUFFICES ASSUME NEW i \in freshFills, NEW w \in Desired(fresh(i), held(i)), w.role # "entry"
               PROVE  \E r \in {"tp", "sl"} : Place(w) = Place(Want(fresh(i), r, held(i)))
    BY <1>5
  <2>1. w.role \in {"tp", "sl"} /\ w = Want(fresh(i), w.role, held(i))
    <3>1. held(i) \in Nat /\ ~IsClosing(fresh(i), held(i))
      BY <1>4
    <3> QED BY <3>1, DesiredShape DEF Roles
  <2> QED BY <2>1
<1>8. \A i \in freshFills : terms[i].stop => Place(Want(fresh(i), "sl", held(i))) \in todo'
  <2> SUFFICES ASSUME NEW i \in freshFills, terms[i].stop
               PROVE  Place(Want(fresh(i), "sl", held(i))) \in todo'
    OBVIOUS
  <2>1. Want(fresh(i), "sl", held(i)) \in Desired(fresh(i), held(i))
    <3>1. held(i) \in Nat /\ held(i) # 0 /\ ~IsClosing(fresh(i), held(i)) /\ fresh(i).stop
      BY <1>4, <1>6
    <3> QED BY <3>1, DesiredStop
  <2>2. Want(fresh(i), "sl", held(i)).role = "sl"
    BY WantPart
  <2> QED BY <2>1, <2>2, <1>5
<1>9. \A a \in todo' : /\ a.kind = "place" /\ a.tag \in freshFills /\ a.role \in {"tp", "sl"}
                       /\ a.coin = Coin(a.tag)
  BY <1>6, <1>7, PlacePart, WantPart
<1>10. /\ Staying' = Staying /\ Staying = Ours(book)
       /\ Coming' = todo' /\ Coming = {}
  BY <1>1, <1>9 DEF Staying, Going, Coming
<1>11. \A i : ~IsEntering(i)'
  BY <1>1, <1>3, <1>9 DEF IsEntering, IsEntry
<1>12. PlanStands'
  <2>1. ASSUME NEW a \in todo', NEW b \in todo', SameKey(a, b) PROVE a = b
    <3>1. PICK i \in freshFills, r \in {"tp", "sl"} : a = Place(Want(fresh(i), r, held(i)))
      BY <1>7
    <3>2. PICK j \in freshFills, q \in {"tp", "sl"} : b = Place(Want(fresh(j), q, held(j)))
      BY <1>7
    <3>3. i = j /\ r = q
      BY <2>1, <3>1, <3>2, <1>6, PlacePart, WantPart DEF SameKey
    <3> QED BY <3>1, <3>2, <3>3
  <2>2. ASSUME NEW o \in Staying, NEW a \in todo' PROVE ~SameKey(o, a)
    <3>1. ~IsEntering(o.tag)
      BY <1>2 DEF PlanStands
    <3>2. IsEntering(a.tag)
      BY <1>1, <1>9 DEF IsEntering
    <3> QED BY <3>1, <3>2 DEF SameKey
  <2> QED BY <2>1, <2>2, <1>2, <1>3, <1>9, <1>10, <1>11 DEF PlanStands
<1>13. PositionsStand'
  <2>1. \A a \in todo' : ~IsEntry(a)
    BY <1>9 DEF IsEntry
  <2> QED BY <2>1, <1>1, <1>2, <1>3 DEF PositionsStand
<1>14. StopsAreSet'
  <2> SUFFICES ASSUME NEW i \in Ids, Kept(i), terms[i].stop, seenPos[Coin(i)] # 0 \/ i \in freshFills
               PROVE  \E x \in Staying \cup todo' :
                        x.tag = i /\ x.role = "sl" /\ x.sz = Held(pos, Coin(i))
    BY <1>1, <1>3, <1>10 DEF StopsAreSet
  <2>1. CASE seenPos[Coin(i)] # 0
    BY <2>1, <1>2, <1>10 DEF StopsAreSet
  <2>2. CASE i \in freshFills
    <3> DEFINE x == Place(Want(fresh(i), "sl", held(i)))
    <3>1. x.tag = i /\ x.role = "sl" /\ x.sz = held(i)
      BY <1>6, PlacePart, WantPart
    <3> HIDE DEF x
    <3> QED BY <3>1, <2>2, <1>8 DEF held, x
  <2> QED BY <2>1, <2>2
<1>15. OnlyTheHeldHaveOrders'
  BY <1>1, <1>2, <1>3, <1>4, <1>9, <1>10 DEF OnlyTheHeldHaveOrders
<1> QED BY <1>12, <1>13, <1>14, <1>15

(* What the pass leaves behind: the book it worked towards.                *)
LEMMA SettleBook ==
  ASSUME Inv, RowsInv, CalmInv, WorkInv, NEW near \in BOOLEAN, Settle(near)
  PROVE  BookIsWhatTheRowsAsk'
<1> SUFFICES ASSUME calm PROVE BookIsWhatTheRowsAsk'
  BY DEF Settle, historyVars, BookIsWhatTheRowsAsk, OpenIsProtected, NothingLeftBehind, Undisturbed
<1>1. /\ UNCHANGED <<pos, book, terms, holding>> /\ Acting /\ todo = {} /\ answer = Unanswered
      /\ freshFills # {} => pc = "protect"
  BY DEF Settle, Executed, Acting, venueVars
<1>2. PlanStands /\ PositionsStand /\ StopsAreSet /\ OnlyTheHeldHaveOrders
  BY <1>1 DEF WorkInv
<1>3. Staying = Ours(book) /\ Coming = {} /\ \A i : ~JustFilled(i)
  BY <1>1 DEF Staying, Going, Coming, JustFilled
<1>4. SettleView = pos
  BY SettlesOnWhatIs
<1>5. \A i \in Ids : status'[i] = SettledStatus(i, pos)
  BY <1>4 DEF Settle
<1>6. \A i \in Ids : Coin(i)' = Coin(i)
  BY <1>1 DEF Coin
<1>7. ASSUME NEW i \in Ids, status'[i] = "open", terms[i].stop, pos[Coin(i)] # 0
      PROVE  StopRests(i)'
  <2>1. Listed(i)
    BY <1>1, <1>5, <1>7 DEF SettledStatus, Unplanned, Listed, Inv, PlannedApart, LiveIds, Live, LiveStatuses
  <2>2. Kept(i)
    BY <2>1, <1>5, <1>7 DEF SettledStatus, Unplanned, Listed, Kept
  <2>3. seenPos[Coin(i)] # 0 \/ (pc = "protect" /\ i \in freshFills)
    BY <2>2, <1>1, <1>2, <1>3, <1>7 DEF PositionsStand
  <2>4. PICK x \in Ours(book) : x.tag = i /\ x.role = "sl" /\ x.sz = Held(pos, Coin(i))
    BY <2>2, <2>3, <1>2, <1>3, <1>7 DEF StopsAreSet
  <2>5. \A q \in book : q.tag = i /\ q.role = "sl" => q = x
    BY <2>4, <1>2, <1>3 DEF PlanStands, SameKey, Ours
  <2> QED BY <2>4, <2>5, <1>1, <1>6 DEF StopRests, Ours
<1>8. ASSUME ~holding, NEW o \in Ours(book)
      PROVE  status'[o.tag] = "open"
  <2>1. Kept(o.tag) /\ pos[Coin(o.tag)] # 0
    BY <1>2, <1>3, <1>8 DEF OnlyTheHeldHaveOrders
  <2>2. o.tag \in Ids
    BY DEF Inv, TypeOK, VenueTypeOK, Order, Ours
  <2>3. listed[o.tag] \in {"pending", "open"}
    BY <2>1, <2>2, <1>2 DEF PositionsStand, Kept, Listed, Inv, TypeOK, LiveStatuses
  <2> QED BY <2>1, <2>2, <2>3, <1>1, <1>5 DEF SettledStatus, Unplanned, Kept, RowsInv, RowsFollowThePlan
<1>9. \A o, q \in Ours(book) : SameKey(o, q) => o = q
  BY <1>2, <1>3 DEF PlanStands
<1>10. OpenIsProtected'
  BY <1>1, <1>6, <1>7 DEF OpenIsProtected
<1>11. NothingLeftBehind'
  BY <1>1, <1>8, <1>9 DEF NothingLeftBehind
<1> QED BY <1>10, <1>11 DEF BookIsWhatTheRowsAsk

-----------------------------------------------------------------------------
(***************************************************************************)
(* The steps together.                                                     *)
(***************************************************************************)
LEMMA OidsShrink ==
  ASSUME OidsApart, book' \subseteq book
  PROVE  OidsApart'
BY FS_Subset DEF OidsApart

LEMMA OidsGrow ==
  ASSUME OidsApart, NEW o, \A q \in book : q.oid # o.oid, book' = book \cup {o}
  PROVE  OidsApart'
<1>1. IsFiniteSet(book \cup {o})
  BY FS_AddElement DEF OidsApart
<1> QED BY <1>1 DEF OidsApart

LEMMA OidsNext == OidsApart /\ [Next]_vars => OidsApart'
<1> SUFFICES ASSUME OidsApart, [Next]_vars PROVE OidsApart'
  OBVIOUS
<1>1. CASE book' \subseteq book
  BY <1>1, OidsShrink
<1>2. CASE \E a \in todo : \E k \in 0..a.sz : Send(a, k)
  <2>1. PICK a \in todo : \E k \in 0..a.sz : Send(a, k)
    BY <1>2
  <2>2. CASE \E n \in FreshSlots : book' = book \cup {[oid |-> n, tag |-> a.tag, coin |-> a.coin,
                                                      role |-> a.role, sz |-> a.sz]}
    <3>1. PICK n \in FreshSlots : \E o : o.oid = n /\ book' = book \cup {o}
      BY <2>2
    <3> QED BY <3>1, FreshSlotsAreFree, OidsGrow
  <2> QED BY <2>1, <2>2, <1>1 DEF Send, Accepts, venueVars
<1>3. CASE ByHand
  <2>1. CASE \E c \in Coins, n \in FreshSlots : UserPlaces(c, n)
    <3>1. PICK n \in FreshSlots : \E o : o.oid = n /\ book' = book \cup {o}
      BY <2>1 DEF UserPlaces
    <3> QED BY <3>1, FreshSlotsAreFree, OidsGrow
  <2> QED BY <1>1, <1>3, <2>1 DEF ByHand, UserTrades, UserCancels
<1>4. CASE LoopStep /\ ~(\E a \in todo : \E k \in 0..a.sz : Send(a, k))
  BY <1>1, <1>4 DEF LoopStep, Begin, Assess, Consider, PlanPass, CancelOne, Record,
     ProtectFreshFills, Settle, venueVars
<1>5. CASE Surroundings /\ ~ByHand
  BY <1>1, <1>5 DEF Surroundings, Abort, HorizonPasses, DayRolls, Observe, ClearHalt,
     ExitFires, TriggerFires, Liquidation, Liquidates, venueVars
<1>6. CASE UNCHANGED vars
  BY <1>1, <1>6 DEF vars, venueVars
<1> QED BY <1>2, <1>3, <1>4, <1>5, <1>6 DEF Next

(* Where every market is quoted, a pass considers with all of them quoted. *)
LEMMA QuotedNext ==
  ASSUME UnpricedChoices = {{}}
  PROVE  AllAreQuoted /\ [Next]_vars => AllAreQuoted'
<1> SUFFICES ASSUME AllAreQuoted, [Next]_vars PROVE AllAreQuoted'
  OBVIOUS
<1>1. CASE pc' # "consider"
  BY <1>1 DEF AllAreQuoted
<1>2. CASE \E fresh \in BOOLEAN, snapshot \in SUBSET (Signals \X Sides) : Assess(fresh, snapshot)
  BY <1>2 DEF AllAreQuoted, Assess
<1>3. CASE pc' = pc /\ unpriced' = unpriced
  BY <1>3 DEF AllAreQuoted
<1>4. CASE LoopStep
  BY <1>1, <1>2, <1>3, <1>4 DEF LoopStep, Begin, Consider, PlanPass, Send, CancelOne, Record,
     ProtectFreshFills, Settle, viewVars
<1>5. CASE Surroundings
  BY <1>1, <1>3, <1>5 DEF Surroundings, Abort, HorizonPasses, DayRolls, Observe, ClearHalt,
     ExitFires, Liquidation, ByHand, Elsewhere, viewVars
<1>6. CASE UNCHANGED vars
  BY <1>3, <1>6 DEF vars, viewVars
<1> QED BY <1>4, <1>5, <1>6 DEF Next

LEMMA BookKept ==
  ASSUME BookIsWhatTheRowsAsk, UNCHANGED <<venueVars, status, terms, pc, holding, calm>>
  PROVE  BookIsWhatTheRowsAsk'
BY DEF BookIsWhatTheRowsAsk, OpenIsProtected, NothingLeftBehind, Undisturbed, StopRests, Coin,
   venueVars

LEMMA Busy == ASSUME pc' # "idle" \/ ~calm' PROVE BookIsWhatTheRowsAsk'
BY DEF BookIsWhatTheRowsAsk, OpenIsProtected, NothingLeftBehind, Undisturbed

LEMMA IdleWork == ASSUME ~Acting' \/ ~calm' PROVE WorkInv'
BY DEF WorkInv

LEMMA WorkKept ==
  ASSUME WorkInv, UNCHANGED vars
  PROVE  WorkInv'
BY DEF vars, venueVars, ledgerVars, dayVars, viewVars, workVars, historyVars, WorkInv, Acting,
   PlanStands, PositionsStand, StopsAreSet, OnlyTheHeldHaveOrders, Staying, Going, Coming, Kept,
   Listed, JustFilled, IsEntering, ToEnter, Coin

LEMMA BookNext ==
  ASSUME UnpricedChoices = {{}}
  PROVE  Inv /\ RowsInv /\ CalmInv /\ BookInv /\ [Next]_vars => BookInv'
<1> SUFFICES ASSUME Inv, RowsInv, CalmInv, BookInv, [Next]_vars
             PROVE  WorkInv' /\ BookIsWhatTheRowsAsk'
  BY OidsNext, QuotedNext DEF BookInv
<1>1. WorkInv /\ BookIsWhatTheRowsAsk /\ OidsApart /\ AllAreQuoted
  BY DEF BookInv
<1>2. CASE \/ Begin
           \/ \E fresh \in BOOLEAN, snapshot \in SUBSET (Signals \X Sides) : Assess(fresh, snapshot)
           \/ \E s \in Signals, side \in Sides : Consider(s, side)
  BY <1>2, Busy, IdleWork DEF Begin, Assess, Consider, Acting
<1>3. CASE PlanPass
  <2>1. pc' = "act" /\ calm' = calm
    BY <1>3 DEF PlanPass, historyVars
  <2> QED BY <2>1, <1>1, <1>3, PlanPassWork, Busy, IdleWork
<1>4. CASE \E a \in todo : \E k \in 0..a.sz : Send(a, k)
  <2>1. pc' = pc /\ Acting
    BY <1>4 DEF Send, Inv, OnlyPlannedInFlight
  <2> QED BY <2>1, <1>1, <1>4, SendWork, Busy DEF Acting
<1>5. CASE \E a \in todo : CancelOne(a)
  <2>1. pc' = pc /\ Acting
    BY <1>5 DEF CancelOne, Inv, OnlyPlannedInFlight
  <2> QED BY <2>1, <1>1, <1>5, CancelOneWork, Busy DEF Acting
<1>6. CASE Record
  <2>1. pc' = pc /\ Acting
    BY <1>6 DEF Record, Inv, OnlyPlannedInFlight
  <2> QED BY <2>1, <1>1, <1>6, RecordWork, Busy DEF Acting
<1>7. CASE ProtectFreshFills
  <2>1. pc' = "protect"
    BY <1>7 DEF ProtectFreshFills
  <2> QED BY <2>1, <1>1, <1>7, ProtectWork, Busy
<1>8. CASE \E near \in BOOLEAN : Settle(near)
  <2>1. ~Acting'
    BY <1>8 DEF Settle, Acting
  <2> QED BY <2>1, <1>1, <1>8, SettleBook, IdleWork
<1>9. CASE \/ \E i \in Ids : HorizonPasses(i)
           \/ DayRolls
           \/ \E s \in Signals : Observe(s)
           \/ ClearHalt
  <2>1. /\ ~Acting' /\ UNCHANGED <<venueVars, status, terms, pc, holding, calm>>
    BY <1>9 DEF HorizonPasses, DayRolls, Observe, ClearHalt, Acting, ledgerVars, workVars, historyVars
  <2> QED BY <2>1, <1>1, BookKept, IdleWork
<1>10. CASE Abort \/ ExitFires \/ Liquidation \/ ByHand
  <2>1. ~calm'
    BY <1>10 DEF Abort, Fault, ExitFires, Liquidation, ByHand, Elsewhere
  <2> QED BY <2>1, Busy, IdleWork
<1>11. CASE UNCHANGED vars
  <2>1. UNCHANGED <<venueVars, status, terms, pc, holding, calm>>
    BY <1>11 DEF vars, ledgerVars, workVars, historyVars
  <2> QED BY <2>1, <1>1, <1>11, BookKept, WorkKept
<1> QED BY <1>2, <1>3, <1>4, <1>5, <1>6, <1>7, <1>8, <1>9, <1>10, <1>11 DEF Next, LoopStep, Surroundings

(* Where the venue quotes every market, after a pass that nothing          *)
(* disturbed the book is what the rows ask for -- whatever the passes      *)
(* before it left behind: partial fills, lost answers, failed cancels,     *)
(* crashes, torn reads, halts, hands in the account.  Every open position  *)
(* has its stop, once, in exactly its size, also under a halt; and nothing *)
(* of ours rests for a row that is not open, unless the account is held.   *)
THEOREM BookIsRight ==
  ASSUME UnpricedChoices = {{}}
  PROVE  Spec => []BookIsWhatTheRowsAsk
<1>1. Init => CalmInv /\ BookInv
  <2> SUFFICES ASSUME Init PROVE CalmInv /\ BookInv
    OBVIOUS
  <2>1. ~calm /\ pc = "idle" /\ book = {}
    BY DEF Init, VenueInit
  <2>2. OidsApart
    BY <2>1, FS_EmptySet DEF OidsApart
  <2> QED BY <2>1, <2>2 DEF CalmInv, CalmView, CalmClaims, StrangersStopTheAccount, BookInv,
      AllAreQuoted, WorkInv, BookIsWhatTheRowsAsk, OpenIsProtected, NothingLeftBehind, Undisturbed
<1>2. Inv /\ RowsInv /\ CalmInv /\ BookInv /\ [Next]_vars => CalmInv' /\ BookInv'
  BY CalmNext, BookNext
<1>3. BookInv => BookIsWhatTheRowsAsk
  BY DEF BookInv
<1> QED BY <1>1, <1>2, <1>3, RowsHold, PTL DEF Spec

(* In particular, its stop rests for every open position.                  *)
THEOREM StopsRest ==
  ASSUME UnpricedChoices = {{}}
  PROVE  Spec => []OpenIsProtected
<1>1. BookIsWhatTheRowsAsk => OpenIsProtected
  BY DEF BookIsWhatTheRowsAsk
<1> QED BY <1>1, BookIsRight, PTL

-----------------------------------------------------------------------------
(***************************************************************************)
(* The stops that have fired.                                              *)
(***************************************************************************)

(* An exit is on the coin of its row, which exists, and is a stop only if  *)
(* that row has a stop price.                                              *)
OfItsRow(x) ==
  x.coin = Coin(x.tag) /\ status[x.tag] # "none" /\ (x.role = "sl" => terms[x.tag].stop)

ExitsFollowRows ==
  /\ \A o \in Ours(book) : OfItsRow(o)
  /\ \A a \in todo : a.kind = "place" => OfItsRow(a)

(* Of the rows that were pending when the pass planned, only one that it   *)
(* enters moves on before it settles.                                      *)
PendingWaits ==
  Acting => \A i \in Ids : listed[i] = "pending" /\ status[i] # "pending" => ToEnter(i)

(* An intent whose stop has fired today is stamped, or had a close of ours *)
(* out as well, or lives on, flat, and was last left by that stop.         *)
StopOutsHold ==
  \A j \in stopOuts :
    \/ j \in stoppedToday
    \/ j \in closeRow
    \/ /\ status[j] \in {"open", "closing"} /\ terms[j].stop
       /\ pos[Coin(j)] = 0 /\ left[Coin(j)] = "stop"

FiredInv == ExitsFollowRows /\ PendingWaits /\ StopOutsHold

(* What is frozen on a row stays as it is, and no row goes away.           *)
LEMMA TermsStay ==
  ASSUME Inv, RowsInv, [Next]_vars, NEW i \in Ids, status[i] # "none"
  PROVE  terms'[i] = terms[i] /\ status'[i] # "none"
<1>1. CASE UNCHANGED <<status, terms>>
  BY <1>1
<1>2. CASE \E s \in Signals, side \in Sides : Consider(s, side)
  <2>1. PICK j \in Ids : status[j] = "none" /\ status' = [status EXCEPT ![j] = "pending"]
                         /\ \E t : terms' = [terms EXCEPT ![j] = t]
    BY <1>2 DEF Consider
  <2> QED BY <2>1
<1>3. CASE Record
  <2>1. terms' = terms /\ \/ status' = status
                          \/ \E s \in {"open", "failed"} : status' = [status EXCEPT ![answer.tag] = s]
    BY <1>3 DEF Record
  <2> QED BY <2>1 DEF Inv, TypeOK
<1>4. CASE \E near \in BOOLEAN : Settle(near)
  <2>1. terms' = terms /\ status'[i] = SettledStatus(i, SettleView)
    BY <1>4 DEF Settle
  <2> QED BY <2>1 DEF SettledStatus
<1>5. CASE LoopStep
  BY <1>1, <1>2, <1>3, <1>4, <1>5 DEF LoopStep, Begin, Assess, PlanPass, Send, CancelOne,
     ProtectFreshFills, ledgerVars
<1>6. CASE Surroundings
  BY <1>1, <1>6 DEF Surroundings, Abort, HorizonPasses, DayRolls, Observe, ClearHalt, ExitFires,
     Liquidation, ByHand, Elsewhere, ledgerVars
<1> QED BY <1>1, <1>5, <1>6 DEF Next, vars, ledgerVars

LEMMA DesiredOfRow ==
  ASSUME NEW i \in LiveIds, NEW isForced, NEW held, NEW w \in Desired(Row(i, isForced), held)
  PROVE  OfItsRow(Place(w)) /\ Place(w).tag = i
<1> DEFINE n == Row(i, isForced)
<1>1. n.id = i /\ n.coin = Coin(i) /\ n.stop = terms[i].stop
  BY DEF Row
<1> HIDE DEF n
<1>2. w.tag = n.id /\ w.coin = n.coin /\ (w.role = "sl" => n.stop)
  BY DEF Desired, Want, n
<1>3. status[i] # "none"
  BY DEF LiveIds, Live, LiveStatuses
<1> QED BY <1>1, <1>2, <1>3, PlacePart DEF OfItsRow

LEMMA ExitsNext == Inv /\ RowsInv /\ ExitsFollowRows /\ [Next]_vars => ExitsFollowRows'
<1> SUFFICES ASSUME Inv, RowsInv, ExitsFollowRows, [Next]_vars PROVE ExitsFollowRows'
  OBVIOUS
<1>1. ASSUME NEW x, NEW y, OfItsRow(x), x.tag \in Ids,
             y.tag = x.tag, y.coin = x.coin, y.role = x.role
      PROVE  OfItsRow(y)'
  BY <1>1, TermsStay DEF OfItsRow, Coin
<1>2. /\ \A o \in Ours(book) : o.tag \in Ids /\ OfItsRow(o)
      /\ \A a \in todo : a.kind = "place" => a.tag \in Ids /\ OfItsRow(a)
  BY ActionParts DEF ExitsFollowRows, Inv, TypeOK, VenueTypeOK, Order, Ours
<1>3. \A o \in Ours(book') : OfItsRow(o)'
  <2>1. CASE \A o \in Ours(book') : o \in book
    BY <2>1, <1>1, <1>2 DEF Ours
  <2>2. CASE \E a \in todo : \E k \in 0..a.sz : Send(a, k)
    <3>1. PICK a \in todo : a.kind = "place" /\ \E k \in 0..a.sz : Send(a, k)
      BY <2>2 DEF Send
    <3>2. book' = book \/ \E n \in FreshSlots :
            book' = book \cup {[oid |-> n, tag |-> a.tag, coin |-> a.coin, role |-> a.role, sz |-> a.sz]}
      BY <3>1 DEF Send, Accepts, venueVars
    <3>3. \A o \in Ours(book') : o \in Ours(book) \/ (o.tag = a.tag /\ o.coin = a.coin /\ o.role = a.role)
      BY <3>2 DEF Ours
    <3> QED BY <3>1, <3>3, <1>1, <1>2
  <2>3. CASE ByHand
    BY <2>1, <2>3 DEF ByHand, UserTrades, UserPlaces, UserCancels, Ours
  <2>4. CASE LoopStep
    BY <2>1, <2>2, <2>4 DEF LoopStep, Begin, Assess, Consider, PlanPass, CancelOne, Record,
       ProtectFreshFills, Settle, venueVars, Ours
  <2>5. CASE Surroundings
    BY <2>1, <2>3, <2>5 DEF Surroundings, Abort, HorizonPasses, DayRolls, Observe, ClearHalt,
       ExitFires, TriggerFires, Liquidation, Liquidates, venueVars, Ours
  <2>6. CASE UNCHANGED vars
    BY <2>1, <2>6 DEF vars, venueVars, Ours
  <2> QED BY <2>4, <2>5, <2>6 DEF Next
<1>4. \A a \in todo' : a.kind = "place" => OfItsRow(a)'
  <2>1. CASE todo' \subseteq todo
    BY <2>1, <1>1, <1>2
  <2>2. ASSUME NEW a, NEW i \in LiveIds, NEW f, NEW held, NEW w \in Desired(Row(i, f), held), a = Place(w)
        PROVE  OfItsRow(a)'
    BY <2>2, <1>1, DesiredOfRow DEF LiveIds
  <2>3. CASE PlanPass
    <3> SUFFICES ASSUME NEW a \in todo', a.kind = "place" PROVE OfItsRow(a)'
      OBVIOUS
    <3> DEFINE priced == {i \in LiveIds : Coin(i) \notin unpriced}
               wanted == UNION {Desired(Row(i, i \in forced), Held(seenPos, Coin(i))) : i \in priced}
    <3>1. PICK lead : a \in Reconcile(wanted, seenBook, lead)
      BY <2>3, UnderHaltShrinks DEF PlanPass
    <3>2. \E w \in wanted : a = Place(w)
      <4> HIDE DEF wanted
      <4> QED BY <3>1, ReconcilePlaces
    <3>3. PICK i \in priced : \E w \in Desired(Row(i, i \in forced), Held(seenPos, Coin(i))) : a = Place(w)
      BY <3>2
    <3> QED BY <3>3, <2>2
  <2>4. CASE ProtectFreshFills
    <3> SUFFICES ASSUME NEW a \in todo' PROVE OfItsRow(a)'
      OBVIOUS
    <3>1. \E i \in LiveIds : \E w \in Desired(Row(i, FALSE), Held(pos, Coin(i))) : a = Place(w)
      BY <2>4 DEF ProtectFreshFills, LiveIds, Inv, TypeOK
    <3> QED BY <3>1, <2>2
  <2>5. CASE LoopStep
    BY <2>1, <2>3, <2>4, <2>5 DEF LoopStep, Begin, Assess, Consider, Send, CancelOne, Record,
       Settle, ForgetLocals, workVars
  <2>6. CASE Surroundings
    BY <2>1, <2>6 DEF Surroundings, Abort, HorizonPasses, DayRolls, Observe, ClearHalt, ExitFires,
       Liquidation, ByHand, Elsewhere, ForgetLocals, workVars
  <2>7. CASE UNCHANGED vars
    BY <2>1, <2>7 DEF vars, workVars
  <2> QED BY <2>5, <2>6, <2>7 DEF Next
<1> QED BY <1>3, <1>4 DEF ExitsFollowRows, Ours

LEMMA PendingNext == Inv /\ RowsInv /\ PendingWaits /\ [Next]_vars => PendingWaits'
<1> SUFFICES ASSUME Inv, RowsInv, PendingWaits, [Next]_vars, Acting' PROVE PendingWaits'
  BY DEF PendingWaits
<1>1. CASE UNCHANGED <<pc, status, terms, listed, closing, seenPos>>
  BY <1>1 DEF PendingWaits, Acting, ToEnter, Coin
<1>2. CASE PlanPass
  BY <1>2 DEF PendingWaits, PlanPass
<1>3. CASE Record
  <2>1. UNCHANGED <<pc, terms, listed, closing, seenPos>> /\ Acting
    BY <1>3 DEF Record, Acting, viewVars
  <2>2. \A i \in Ids : ToEnter(i)' = ToEnter(i)
    BY <2>1 DEF ToEnter, Coin
  <2>3. \A i \in Ids : status'[i] # status[i] => ToEnter(i)
    BY <1>3 DEF Record, RowsInv, EntryInFlight, Inv, TypeOK
  <2> QED BY <2>1, <2>2, <2>3 DEF PendingWaits
<1>4. CASE ProtectFreshFills
  <2>1. UNCHANGED <<status, terms, listed, closing, seenPos>> /\ Acting
    BY <1>4 DEF ProtectFreshFills, Acting, ledgerVars, viewVars
  <2> QED BY <2>1 DEF PendingWaits, ToEnter, Coin
<1>5. CASE LoopStep
  BY <1>1, <1>2, <1>3, <1>4, <1>5 DEF LoopStep, Begin, Assess, Consider, Send, CancelOne,
     Settle, Acting, ledgerVars, viewVars
<1>6. CASE Surroundings
  BY <1>1, <1>6 DEF Surroundings, Abort, HorizonPasses, DayRolls, Observe, ClearHalt, ExitFires,
     Liquidation, ByHand, Elsewhere, Acting, ledgerVars, viewVars, workVars
<1> QED BY <1>1, <1>5, <1>6 DEF Next, vars, ledgerVars, viewVars, workVars

(* Where a position moves: what was flat and held by a row that is open    *)
(* stays so, and a stop that fires is that of an open row.                 *)
LEMMA MovesStopOuts ==
  ASSUME Inv, StopOutsHold, UNCHANGED <<status, terms, stoppedToday, closeRow>>,
         NEW c \in Coins, NEW cause, LeftBy(c, cause),
         \A j \in Ids : status[j] \in {"open", "closing"} /\ pos[Coin(j)] = 0 => pos'[Coin(j)] = 0,
         \A j \in stopOuts' : j \in stopOuts
             \/ /\ status[j] = "open" /\ terms[j].stop /\ Coin(j) = c /\ cause = "stop"
                /\ pos[c] # 0 /\ pos'[c] = 0
  PROVE  StopOutsHold'
<1>1. \A j : Coin(j)' = Coin(j)
  BY DEF Coin
<1>2. \A j \in Ids : Coin(j) \in Coins
  BY RowType DEF Inv
<1>3. left \in [Coins -> {"none", "stop", "target", "other"}] /\ stopOuts \subseteq Ids
  BY DEF Inv, TypeOK
<1>4. left' = [left EXCEPT ![c] = IF pos'[c] # 0 THEN "none" ELSE IF pos[c] = 0 THEN left[c] ELSE cause]
  BY <1>3 DEF LeftBy
<1> SUFFICES ASSUME NEW j \in stopOuts', j \notin stoppedToday, j \notin closeRow
             PROVE  /\ status[j] \in {"open", "closing"} /\ terms[j].stop
                    /\ pos'[Coin(j)] = 0 /\ left'[Coin(j)] = "stop"
  BY <1>1 DEF StopOutsHold
<1>5. CASE j \in stopOuts
  <2>1. /\ status[j] \in {"open", "closing"} /\ terms[j].stop
        /\ pos[Coin(j)] = 0 /\ left[Coin(j)] = "stop" /\ j \in Ids
    BY <1>3, <1>5 DEF StopOutsHold
  <2>2. pos'[Coin(j)] = 0
    BY <2>1
  <2> QED BY <2>1, <2>2, <1>2, <1>3, <1>4
<1>6. CASE j \notin stopOuts
  <2>1. /\ status[j] = "open" /\ terms[j].stop /\ Coin(j) = c /\ cause = "stop"
        /\ pos[c] # 0 /\ pos'[c] = 0
    BY <1>6
  <2> QED BY <2>1, <1>3, <1>4
<1> QED BY <1>5, <1>6

(* NoteStopOut and LeftBy, of an order x of a row, say no more than that.  *)
LEMMA NotedStopOut ==
  ASSUME NEW x, OfItsRow(x), NoteStopOut(x.tag, x.role), NEW j \in stopOuts'
  PROVE  \/ j \in stopOuts
         \/ /\ status[j] = "open" /\ terms[j].stop /\ Coin(j) = x.coin /\ Cause(x.role) = "stop"
            /\ pos[x.coin] # 0 /\ pos'[x.coin] = 0
BY DEF NoteStopOut, OfItsRow, Cause

LEMMA SendStopOuts ==
  ASSUME Inv, Inv', RowsInv, ExitsFollowRows, StopOutsHold,
         NEW a \in todo, NEW k \in 0..a.sz, Send(a, k)
  PROVE  StopOutsHold'
<1>1. UNCHANGED <<status, terms, stoppedToday, closeRow>> /\ a.kind = "place" /\ OfItsRow(a)
  BY DEF Send, ledgerVars, dayVars, ExitsFollowRows
<1>2. a \in Action /\ a.tag \in Ids /\ a.coin \in Coins /\ k \in Nat /\ TypeOK
  BY ActionParts DEF Inv
<1>3. pos \in [Coins -> Int] /\ pos' \in [Coins -> Int] /\ \A j \in Ids : Coin(j) \in Coins
  BY <1>2, RowType DEF Inv, TypeOK, VenueTypeOK
<1>4. CASE Accepts(a, k)
  <2>1. LeftBy(a.coin, Cause(a.role)) /\ NoteStopOut(a.tag, a.role)
    BY <1>4 DEF Accepts
  <2>2. ASSUME NEW j \in Ids, status[j] \in {"open", "closing"}, pos[Coin(j)] = 0
        PROVE  pos'[Coin(j)] = 0
    <3>1. CASE a.role # "entry"
      BY <3>1, <1>2, <1>3, <1>4, <2>2, AcceptsMoves, TowardZero
    <3>2. CASE a.role = "entry"
      <4>1. status[a.tag] = "pending"
        BY <3>2, <1>1 DEF RowsInv, EntriesArePlanned, IsEntry
      <4>2. a.coin # Coin(j)
        BY <4>1, <1>1, <1>2, <2>2
           DEF Inv, OneLiveIntentPerCoin, LiveIds, Live, LiveStatuses, OfItsRow
      <4>3. pos' = Netted(pos, a.coin, Buys(a.tag, "entry"), k) /\ Buys(a.tag, "entry") \in BOOLEAN
        BY <3>2, <1>2, <1>4, AcceptsMoves, BuysType
      <4> QED BY <4>2, <4>3, <1>2, <1>3, <2>2, NettedElsewhere
    <3> QED BY <3>1, <3>2
  <2>3. ASSUME NEW j \in stopOuts'
        PROVE  \/ j \in stopOuts
               \/ /\ status[j] = "open" /\ terms[j].stop /\ Coin(j) = a.coin /\ Cause(a.role) = "stop"
                  /\ pos[a.coin] # 0 /\ pos'[a.coin] = 0
    BY <1>1, <2>1, NotedStopOut
  <2> QED BY <1>1, <1>2, <2>1, <2>2, <2>3, MovesStopOuts
<1>5. CASE UNCHANGED <<venueVars, left, stopOuts>>
  BY <1>1, <1>5 DEF StopOutsHold, Coin, venueVars
<1> QED BY <1>4, <1>5 DEF Send

LEMMA FiresStopOuts ==
  ASSUME Inv, Inv', ExitsFollowRows, StopOutsHold, ExitFires \/ Liquidation
  PROVE  StopOutsHold'
<1>1. UNCHANGED <<status, terms, stoppedToday, closeRow>>
  BY DEF ExitFires, Liquidation, Elsewhere, ledgerVars, dayVars
<1>2. pos \in [Coins -> Int] /\ pos' \in [Coins -> Int] /\ \A j \in Ids : Coin(j) \in Coins
  BY RowType DEF Inv, TypeOK, VenueTypeOK
<1>3. CASE ExitFires
  <2>1. PICK o \in Ours(book), k \in 0..EntrySize :
          /\ TriggerFires(o, k, Buys(o.tag, o.role))
          /\ LeftBy(o.coin, Cause(o.role)) /\ NoteStopOut(o.tag, o.role)
    BY <1>3 DEF ExitFires
  <2>2. OfItsRow(o) /\ o.tag \in Ids /\ o.coin \in Coins /\ k \in Nat
    BY EntrySizeAssumption DEF ExitsFollowRows, Inv, TypeOK, VenueTypeOK, Ours, Order, Lots
  <2>3. Toward(pos', pos)
    BY <2>1, <2>2, <1>2, BuysType, ReducedIsToward DEF Inv, TriggerFires
  <2>4. \A j \in Ids : status[j] \in {"open", "closing"} /\ pos[Coin(j)] = 0 => pos'[Coin(j)] = 0
    BY <2>3, <1>2, TowardZero
  <2>5. ASSUME NEW j \in stopOuts'
        PROVE  \/ j \in stopOuts
               \/ /\ status[j] = "open" /\ terms[j].stop /\ Coin(j) = o.coin /\ Cause(o.role) = "stop"
                  /\ pos[o.coin] # 0 /\ pos'[o.coin] = 0
    BY <2>1, <2>2, NotedStopOut
  <2> QED BY <1>1, <2>1, <2>2, <2>4, <2>5, MovesStopOuts
<1>4. CASE Liquidation
  <2>1. PICK c \in Coins : Liquidates(c) /\ LeftBy(c, "stop")
    BY <1>4 DEF Liquidation
  <2>2. stopOuts' = stopOuts
    BY <1>4 DEF Liquidation
  <2>3. \A j \in Ids : status[j] \in {"open", "closing"} /\ pos[Coin(j)] = 0 => pos'[Coin(j)] = 0
    BY <2>1, <1>2 DEF Liquidates
  <2> QED BY <1>1, <2>1, <2>2, <2>3, MovesStopOuts
<1> QED BY <1>3, <1>4

(* The pass that ends the row stamps it: whatever view it settles on.      *)
LEMMA SettleStopOuts ==
  ASSUME Inv, RowsInv, PendingWaits, StopOutsHold, NEW near \in BOOLEAN, Settle(near)
  PROVE  StopOutsHold'
<1>1. UNCHANGED <<terms, pos, left, stopOuts, closeRow>> /\ stoppedToday \subseteq stoppedToday' /\ Acting
  BY DEF Settle, Acting, venueVars, historyVars
<1> SUFFICES ASSUME NEW j \in stopOuts, j \in Ids, j \notin stoppedToday', j \notin closeRow,
                    status[j] \in {"open", "closing"}, terms[j].stop, left[Coin(j)] = "stop"
             PROVE  status'[j] \in {"open", "closing"}
  BY <1>1 DEF StopOutsHold, Coin, Inv, TypeOK
<1>2. Listed(j) /\ listed[j] \in LiveStatuses
  BY <1>1 DEF Inv, PlannedApart, LiveIds, Live, LiveStatuses, Listed, TypeOK
<1>3. status'[j] = SettledStatus(j, SettleView)
  BY DEF Settle
<1>4. CASE SettleView[Coin(j)] # 0
  BY <1>2, <1>4, HeldRowLives
<1>5. CASE SettleView[Coin(j)] = 0
  <2>1. listed[j] = "pending" => j \notin closing
    BY <1>1 DEF PendingWaits, ToEnter
  <2>2. CASE ~Ends(j, SettleView)
    BY <2>2, <1>3, <1>5 DEF SettledStatus
  <2>3. CASE Ends(j, SettleView)
    <3>1. LeftOnTheStopSide(j, near)
      BY DEF LeftOnTheStopSide, MarkNearStop
    <3>2. listed[j] # "pending"
      BY <2>1, <2>3 DEF Ends
    <3>3. j \in stoppedToday'
      BY <2>3, <3>1, <3>2 DEF Settle
    <3> QED BY <3>3
  <2> QED BY <2>2, <2>3
<1> QED BY <1>4, <1>5

LEMMA StopOutsNext ==
  ASSUME UserSizes = {}
  PROVE  Inv /\ RowsInv /\ FiredInv /\ [Next]_vars => StopOutsHold'
<1> SUFFICES ASSUME Inv, RowsInv, FiredInv, [Next]_vars PROVE StopOutsHold'
  OBVIOUS
<1>1. Inv' /\ ExitsFollowRows /\ PendingWaits /\ StopOutsHold
  BY NextInv DEF FiredInv
<1>2. CASE /\ UNCHANGED <<pos, left, stoppedToday>> /\ stopOuts' \subseteq stopOuts
           /\ closeRow \subseteq closeRow'
           /\ \A j \in Ids : status[j] \in {"open", "closing"} =>
                status'[j] = status[j] /\ terms'[j] = terms[j]
  BY <1>1, <1>2 DEF StopOutsHold, Coin, Inv, TypeOK
<1>3. CASE UNCHANGED <<pos, left, status, terms, closeRow, stoppedToday, stopOuts>>
  BY <1>2, <1>3
<1>4. CASE \E s \in Signals, side \in Sides : Consider(s, side)
  <2>1. PICK j \in Ids : status[j] = "none" /\ status' = [status EXCEPT ![j] = "pending"]
                         /\ \E t : terms' = [terms EXCEPT ![j] = t]
    BY <1>4 DEF Consider
  <2>2. \A i \in Ids : status[i] \in {"open", "closing"} => status'[i] = status[i] /\ terms'[i] = terms[i]
    BY <2>1
  <2> QED BY <2>2, <1>2, <1>4 DEF Consider, venueVars, dayVars, historyVars
<1>5. CASE \E a \in todo : \E k \in 0..a.sz : Send(a, k)
  BY <1>1, <1>5, SendStopOuts
<1>6. CASE Record
  <2>1. \A i \in Ids : status[i] \in {"open", "closing"} => status'[i] = status[i]
    BY <1>6 DEF Record, RowsInv, EntryInFlight, Inv, TypeOK
  <2> QED BY <2>1, <1>2, <1>6 DEF Record, venueVars, historyVars
<1>7. CASE \E near \in BOOLEAN : Settle(near)
  BY <1>1, <1>7, SettleStopOuts
<1>8. CASE DayRolls
  BY <1>8 DEF DayRolls, StopOutsHold
<1>9. CASE ExitFires \/ Liquidation
  BY <1>1, <1>9, FiresStopOuts
<1>10. CASE LoopStep
  BY <1>3, <1>4, <1>5, <1>6, <1>7, <1>10 DEF LoopStep, Begin, Assess, PlanPass, CancelOne,
     ProtectFreshFills, venueVars, ledgerVars, dayVars, historyVars
<1>11. CASE Surroundings
  BY <1>3, <1>8, <1>9, <1>11 DEF Surroundings, Abort, HorizonPasses, Observe, ClearHalt, ByHand,
     UserPlaces, UserCancels, Elsewhere, venueVars, ledgerVars, dayVars, historyVars
<1>12. CASE UNCHANGED vars
  BY <1>3, <1>12 DEF vars, venueVars, ledgerVars, dayVars, historyVars
<1> QED BY <1>10, <1>11, <1>12 DEF Next

LEMMA FiredHolds ==
  ASSUME UserSizes = {}
  PROVE  Spec => [](Inv /\ RowsInv /\ FiredInv)
<1>1. Init => FiredInv
  BY DEF Init, VenueInit, FiredInv, ExitsFollowRows, PendingWaits, StopOutsHold, Acting, Ours
<1>2. Inv /\ RowsInv /\ FiredInv /\ [Next]_vars => FiredInv'
  BY ExitsNext, PendingNext, StopOutsNext DEF FiredInv
<1> QED BY <1>1, <1>2, RowsHold, PTL DEF Spec

(* On an account that nobody trades by hand: when the stop of an open      *)
(* intent has taken its position out, no intent is written on that coin    *)
(* and side before the UTC day rolls, whatever views the passes in between *)
(* had, whatever failed and whenever the process died.                     *)
THEOREM NoReentry ==
  ASSUME UserSizes = {}
  PROVE  Spec => NoReentryAfterStop
<1>1. Inv /\ RowsInv /\ FiredInv /\ [Next]_vars =>
        [\A i \in Ids, j \in stopOuts \ closeRow :
           status[i] = "none" /\ status'[i] = "pending"
             => ~(CoinOf[terms'[i].sig] = Coin(j) /\ terms'[i].side = terms[j].side)]_vars
  <2> SUFFICES ASSUME Inv, RowsInv, FiredInv, Next, NEW i \in Ids, NEW j \in stopOuts \ closeRow,
                      status[i] = "none", status'[i] = "pending",
                      CoinOf[terms'[i].sig] = Coin(j), terms'[i].side = terms[j].side
               PROVE  FALSE
    OBVIOUS
  <2>1. \E s \in Signals, side \in Sides : Consider(s, side)
    <3>1. status'[i] # status[i]
      OBVIOUS
    <3>2. CASE Record
      BY <3>1, <3>2 DEF Record, Inv, TypeOK
    <3>3. CASE \E near \in BOOLEAN : Settle(near)
      <4>1. status'[i] \in {status[i], "closing", "open", "closed"}
        BY <3>3 DEF Settle, SettledStatus
      <4> QED BY <4>1
    <3> QED BY <3>1, <3>2, <3>3 DEF Next, LoopStep, Surroundings, Begin, Assess, PlanPass, Send,
        CancelOne, ProtectFreshFills, Abort, HorizonPasses, DayRolls, Observe, ClearHalt, ExitFires,
        Liquidation, ByHand, Elsewhere, ledgerVars
  <2>2. PICK s \in Signals, side \in Sides : Consider(s, side)
    BY <2>1
  <2>3. PICK k \in Ids : /\ status[k] = "none" /\ status' = [status EXCEPT ![k] = "pending"]
                         /\ \E hold, stop : terms' = [terms EXCEPT ![k] =
                              [sig |-> s, side |-> side, hold |-> hold, stop |-> stop]]
    BY <2>2 DEF Consider
  <2>4. k = i
    BY <2>3 DEF Inv, TypeOK
  <2>5. terms'[i].sig = s /\ terms'[i].side = side
    BY <2>3, <2>4 DEF Inv, TypeOK
  <2>6. /\ \A l \in LiveIds : Coin(l) # CoinOf[s]
        /\ \A l \in stoppedToday : ~(Coin(l) = CoinOf[s] /\ terms[l].side = side)
    BY <2>2 DEF Consider, Admissible
  <2>7. j \in Ids /\ (j \in stoppedToday \/ j \in LiveIds)
    BY DEF FiredInv, StopOutsHold, LiveIds, Live, LiveStatuses, Inv, TypeOK
  <2> QED BY <2>5, <2>6, <2>7
<1> QED BY <1>1, FiredHolds, PTL DEF Spec, NoReentryAfterStop

=============================================================================
