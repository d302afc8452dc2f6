--------------------------- MODULE AccountProofs ---------------------------
(***************************************************************************)
(* What holds of one account for every length of the day, every cap and    *)
(* every schedule of presses, unlinks, failures and crashes: the halts and *)
(* the baseline, from the shape of the two rows (what an UPDATE of one     *)
(* column leaves alone is still there to be read); the fills, from what    *)
(* the walk has passed; the clears, from the dates of the events; and the  *)
(* day's losses, from what is booked on the day of the baseline.           *)
(***************************************************************************)
EXTENDS AccountRisk, Extrema

IsRow(r) == r = [linked |-> r.linked, halted |-> r.halted, kind |-> r.kind, day |-> r.day,
                 dayStart |-> r.dayStart, since |-> r.since, mandateAt |-> r.mandateAt]

-----------------------------------------------------------------------------
(* What the statements of the Store leave alone.                           *)
LEMMA SetHaltLemma ==
  ASSUME NEW r, IsRow(r), NEW k, NEW s, s = SetHalt(r, k)
  PROVE  /\ IsRow(s)
         /\ s.halted = TRUE /\ s.kind = k
         /\ s.linked = r.linked /\ s.day = r.day /\ s.dayStart = r.dayStart
BY DEF SetHalt, IsRow

LEMMA RollDayLemma ==
  ASSUME NEW r, IsRow(r), NEW equity
  PROVE  /\ IsRow(RollDay(r, equity))
         /\ RollDay(r, equity).linked = r.linked
         /\ RollDay(r, equity).halted = r.halted /\ RollDay(r, equity).kind = r.kind
         /\ r.day = Day(now) /\ r.dayStart # NoAmount => RollDay(r, equity) = r
BY DEF RollDay, IsRow

(* A tick that finds nothing new leaves the rolled row, and one that finds *)
(* something never touches the kind of a halt that has one.                *)
LEMMA HaltOnLemma ==
  ASSUME NEW rolled, IsRow(rolled), NEW found,
         HaltOn(rolled, found)
  PROVE  /\ IsRow(row')
         /\ row'.linked = rolled.linked
         /\ row'.day = rolled.day /\ row'.dayStart = rolled.dayStart
         /\ rolled.halted /\ rolled.kind # "untyped"
              => row'.halted /\ row'.kind = rolled.kind
<1>1. row' = SetHalt(rolled, found) \/ row' = rolled
  BY DEF HaltOn
<1>2. rolled.halted /\ rolled.kind # "untyped" => row' = rolled
  BY DEF HaltOn
<1>3. CASE row' = rolled
  BY <1>3
<1>4. CASE row' = SetHalt(rolled, found) /\ ~(rolled.halted /\ rolled.kind # "untyped")
  <2>1. /\ IsRow(row') /\ row'.halted = TRUE
        /\ row'.linked = rolled.linked /\ row'.day = rolled.day /\ row'.dayStart = rolled.dayStart
    BY <1>4, SetHaltLemma
  <2> QED
    BY <1>4, <2>1
<1> QED
  BY <1>1, <1>2, <1>3, <1>4

(* Only a daily-loss halt is the owner's.                                  *)
LEMMA OwnersClear ==
  ASSUME NEW at, NEW equity, MayClear("owner", at, equity)
  PROVE  row.kind = "daily-loss"
BY DEF MayClear

-----------------------------------------------------------------------------
(* The account row keeps its columns.                                      *)
LEMMA RowInitially == Init => IsRow(row)
<1>1. IsRow(OldRow) /\ IsRow(NoRow)
  BY DEF IsRow, OldRow, NoRow
<1> QED
  BY <1>1 DEF Init, RowInit

(* A step that is not one of these leaves both rows alone.                 *)
RowStep == Admit \/ OperatorClears \/ DecideClear \/ ReadMandate \/ Tick \/ TickThrows
           \/ (Step = "ingest" /\ Conclude)

LEMMA OtherSteps ==
  ASSUME [Next]_vars, ~RowStep
  PROVE  UNCHANGED <<row, saved>>
<1>1. CASE UNCHANGED vars
  BY <1>1 DEF vars, rowVars
<1>2. CASE MarkMoves \/ PositionCloses \/ AskConnection
  BY <1>2 DEF MarkMoves, PositionCloses, AskConnection, rowVars
<1>3. ASSUME NEW d, Deposit(d) PROVE UNCHANGED <<row, saved>>
  BY <1>3 DEF Deposit, rowVars
<1>4. ASSUME NEW at, PressClear(at) \/ PressMandate(at) PROVE UNCHANGED <<row, saved>>
  BY <1>4 DEF PressClear, PressMandate, rowVars
<1>5. ASSUME NEW sort, FillArrives(sort) PROVE UNCHANGED <<row, saved>>
  BY <1>5 DEF FillArrives, rowVars
<1>6. CASE NothingToTick
  BY <1>6 DEF NothingToTick
<1>7. CASE Ingest
  BY <1>7, ~RowStep DEF Ingest, RowStep, BeginWalk, ReadPage, WalkThrows, rowVars
<1>8. CASE Crash
  BY <1>8 DEF Crash
<1>9. CASE Moves
  BY <1>9, <1>2, <1>3, <1>4, <1>5, ~RowStep DEF Moves, RowStep
<1>10. CASE Pass
  BY <1>10, <1>6, <1>7, <1>8, ~RowStep DEF Pass, RowStep
<1> QED
  BY <1>1, <1>9, <1>10 DEF Next

LEMMA RowStays ==
  ASSUME IsRow(row), [Next]_vars
  PROVE  IsRow(row')
<1>1. CASE Admit
  <2>1. CASE Release
    BY <2>1 DEF Release, DisconnectAccount, NoRow, IsRow
  <2>2. CASE Connect
    BY <2>2 DEF Connect, ConnectAccount, Written, IsRow
  <2>3. CASE UNCHANGED row
    BY <2>3
  <2> QED
    BY <1>1, <2>1, <2>2, <2>3 DEF Admit
<1>2. CASE OperatorClears
  BY <1>2 DEF OperatorClears, ClearHalt, IsRow
<1>3. CASE DecideClear
  BY <1>3 DEF DecideClear, ClearHalt, IsRow
<1>4. CASE ReadMandate
  BY <1>4 DEF ReadMandate, ApplyMandate, IsRow
<1>5. CASE Tick \/ TickThrows
  <2>1. UNCHANGED row \/ \E found : HaltOn(RollDay(row, Equity), found)
    BY <1>5 DEF Tick, TickThrows
  <2>2. IsRow(RollDay(row, Equity))
    BY RollDayLemma
  <2> QED
    BY <2>1, <2>2, HaltOnLemma
<1>6. CASE Conclude
  <2>1. row' = row \/ row' = SetHalt(row, KindOf(walk.news))
    BY <1>6 DEF Conclude
  <2> QED
    BY <2>1, SetHaltLemma
<1>7. CASE ~RowStep
  BY <1>7, OtherSteps
<1> QED
  BY <1>1, <1>2, <1>3, <1>4, <1>5, <1>6, <1>7 DEF RowStep

-----------------------------------------------------------------------------
(* A halt that is not the owner's.                                         *)
StrictRow == row.linked /\ row.halted /\ row.kind \in StrictKinds

LEMMA StrictIsTyped == \A kind \in StrictKinds : kind # "untyped" /\ kind # "daily-loss"
BY DEF StrictKinds

LEMMA NewsIsStrict == \A news : KindOf(news) \in StrictKinds
BY DEF KindOf, StrictKinds

(* No step but the operator's lifts it.                                    *)
LEMMA StrictStays ==
  ASSUME IsRow(row), [Next]_vars, StrictlyHalted, ~OperatorClears
  PROVE  StrictlyHalted'
<1> USE DEF StrictlyHalted
<1>1. CASE Admit
  <2>1. CASE Release
    <3>1. /\ ~row'.linked
          /\ saved'.halted = row.halted /\ saved'.kind = row.kind
          /\ row.linked
      BY <2>1 DEF Release, DisconnectAccount, NoRow
    <3> QED
      BY <3>1
  <2>2. CASE Connect
    <3>1. CASE row.linked
      BY <2>2, <3>1 DEF Connect, ConnectAccount
    <3>2. CASE ~row.linked
      <4>1. row'.linked /\ row'.halted = saved.halted /\ row'.kind = saved.kind
        BY <2>2, <3>2 DEF Connect, ConnectAccount, Written
      <4> QED
        BY <3>2, <4>1
    <3> QED
      BY <3>1, <3>2
  <2>3. CASE UNCHANGED <<row, saved>>
    BY <2>3
  <2> QED
    BY <1>1, <2>1, <2>2, <2>3 DEF Admit
<1>2. CASE DecideClear
  <2>1. CASE row.linked
    <3>1. row.kind # "daily-loss"
      BY <2>1, StrictIsTyped
    <3>2. UNCHANGED row
      BY <1>2, <3>1, OwnersClear DEF DecideClear
    <3> QED
      BY <1>2, <3>2 DEF DecideClear
  <2>2. CASE ~row.linked
    BY <1>2, <2>2 DEF DecideClear, ClearPending
  <2> QED
    BY <2>1, <2>2
<1>3. CASE ReadMandate
  <2>1. UNCHANGED saved
    BY <1>3 DEF ReadMandate
  <2>2. row'.linked = row.linked /\ row'.halted = row.halted /\ row'.kind = row.kind
    BY <1>3 DEF ReadMandate, ApplyMandate, IsRow
  <2> QED
    BY <2>1, <2>2
<1>4. CASE Tick \/ TickThrows
  <2>1. UNCHANGED row \/ \E found : HaltOn(RollDay(row, Equity), found)
    BY <1>4 DEF Tick, TickThrows
  <2>2. UNCHANGED saved
    BY <1>4 DEF Tick, TickThrows
  <2>3. ASSUME NEW found, HaltOn(RollDay(row, Equity), found)
        PROVE  /\ row'.linked = row.linked
               /\ row.halted /\ row.kind # "untyped" => row'.halted /\ row'.kind = row.kind
    BY <2>3, RollDayLemma, HaltOnLemma
  <2> QED
    BY <2>1, <2>2, <2>3, StrictIsTyped
<1>5. CASE Conclude
  <2>1. UNCHANGED saved
    BY <1>5 DEF Conclude
  <2>2. row' = row \/ row' = SetHalt(row, KindOf(walk.news))
    BY <1>5 DEF Conclude
  <2>3. ASSUME row' = SetHalt(row, KindOf(walk.news)) PROVE StrictlyHalted'
    <3> DEFINE kind == KindOf(walk.news)
    <3> HIDE DEF kind
    <3>0. row' = SetHalt(row, kind)
      BY <2>3 DEF kind
    <3>1. row'.linked = row.linked /\ row'.halted = TRUE /\ row'.kind = kind
      BY <3>0, SetHaltLemma
    <3> QED
      BY <2>1, <3>1, NewsIsStrict DEF kind
  <2> QED
    BY <2>1, <2>2, <2>3
<1>6. CASE ~RowStep
  BY <1>6, OtherSteps
<1> QED
  BY <1>1, <1>2, <1>3, <1>4, <1>5, <1>6 DEF RowStep

(* The inductive invariant of both theorems: the row has its columns.      *)
RowWhole == IsRow(row)

LEMMA RowAlwaysWhole == Spec => []RowWhole
<1>1. Init => RowWhole
  BY RowInitially DEF RowWhole
<1>2. RowWhole /\ [Next]_vars => RowWhole'
  BY RowStays DEF RowWhole
<1> QED
  BY <1>1, <1>2, PTL DEF Spec

(* For every schedule: a halt of a kind that is not the owner's lasts      *)
(* until an operator clears it, through unlinks and reconnects.            *)
THEOREM StrictHaltsLast == Spec => StrictHaltsNeedAnOperator
<1>1. RowWhole /\ [Next]_vars => [StrictlyHalted => StrictlyHalted' \/ OperatorClears]_vars
  BY StrictStays DEF RowWhole
<1> QED
  BY <1>1, RowAlwaysWhole, PTL DEF Spec, StrictHaltsNeedAnOperator

-----------------------------------------------------------------------------
Kept == Baseline[1] = Day(now) /\ Baseline[2] # NoAmount /\ Step # "mandate"

(* On a day that has its baseline, only a re-read mandate moves it.        *)
LEMMA BaselineStays ==
  ASSUME IsRow(row), [Next]_vars, Kept
  PROVE  Baseline' = Baseline
<1> USE DEF Baseline, Kept
<1>1. CASE Admit
  <2>1. CASE Release
    <3>1. /\ ~row'.linked /\ row.linked
          /\ saved'.day = row.day /\ saved'.dayStart = row.dayStart
      BY <2>1 DEF Release, DisconnectAccount, NoRow
    <3> QED
      BY <3>1
  <2>2. CASE Connect
    <3>1. CASE row.linked
      BY <2>2, <3>1 DEF Connect, ConnectAccount
    <3>2. CASE ~row.linked
      <4>1. row'.linked /\ row'.dayStart = saved.dayStart
        BY <2>2, <3>2 DEF Connect, ConnectAccount, Written
      <4>2. row'.day = saved.day
        BY <2>2, <3>2 DEF Connect, ConnectAccount, Written
      <4> QED
        BY <3>2, <4>1, <4>2
    <3> QED
      BY <3>1, <3>2
  <2>3. CASE UNCHANGED <<row, saved>>
    BY <2>3
  <2> QED
    BY <1>1, <2>1, <2>2, <2>3 DEF Admit
<1>2. CASE OperatorClears
  <2>1. /\ UNCHANGED saved
        /\ row'.linked = row.linked /\ row'.day = row.day /\ row'.dayStart = row.dayStart
    BY <1>2 DEF OperatorClears, ClearHalt, IsRow
  <2> QED
    BY <2>1
<1>3. CASE DecideClear
  <2>1. /\ UNCHANGED saved
        /\ row'.linked = row.linked /\ row'.day = row.day /\ row'.dayStart = row.dayStart
    BY <1>3 DEF DecideClear, ClearHalt, IsRow
  <2> QED
    BY <2>1
<1>4. CASE ReadMandate
  BY <1>4 DEF ReadMandate
<1>5. CASE Tick \/ TickThrows
  <2>1. UNCHANGED row \/ \E found : HaltOn(RollDay(row, Equity), found)
    BY <1>5 DEF Tick, TickThrows
  <2>2. UNCHANGED saved
    BY <1>5 DEF Tick, TickThrows
  <2>3. CASE row.linked
    <3>1. RollDay(row, Equity) = row
      BY <2>3, RollDayLemma
    <3>2. ASSUME NEW found, HaltOn(row, found)
          PROVE  row'.linked = row.linked /\ row'.day = row.day /\ row'.dayStart = row.dayStart
      BY <3>2, HaltOnLemma
    <3> QED
      BY <2>1, <2>2, <3>1, <3>2
  <2>4. CASE ~row.linked
    <3>1. ASSUME NEW found, HaltOn(RollDay(row, Equity), found) PROVE row'.linked = row.linked
      BY <3>1, RollDayLemma, HaltOnLemma
    <3> QED
      BY <2>1, <2>2, <2>4, <3>1
  <2> QED
    BY <2>3, <2>4
<1>6. CASE Conclude
  <2>1. UNCHANGED saved
    BY <1>6 DEF Conclude
  <2>2. row' = row \/ \E k : row' = SetHalt(row, k)
    BY <1>6 DEF Conclude
  <2>3. ASSUME NEW k, row' = SetHalt(row, k)
        PROVE  row'.linked = row.linked /\ row'.day = row.day /\ row'.dayStart = row.dayStart
    <3> HIDE DEF Baseline, Kept
    <3> QED
      BY <2>3, SetHaltLemma
  <2> QED
    BY <2>1, <2>2, <2>3
<1>7. CASE ~RowStep
  BY <1>7, OtherSteps
<1> QED
  BY <1>1, <1>2, <1>3, <1>4, <1>5, <1>6, <1>7 DEF RowStep

(* For every schedule: within a day nothing but a mandate moves the        *)
(* baseline the daily loss is measured from.                               *)
THEOREM BaselineLastsTheDay == Spec => OneBaselineADay
<1>1. RowWhole /\ [Next]_vars => [Kept => Baseline' = Baseline]_vars
  BY BaselineStays DEF RowWhole
<1> QED
  BY <1>1, RowAlwaysWhole, PTL DEF Spec, OneBaselineADay, Kept
-----------------------------------------------------------------------------
(* The fills.  A page of the venue is cut by number, and the walk goes on  *)
(* one instant past its last fill: what is proved of the ledger's fills    *)
(* supposes that no full page ends inside an instant.                      *)
PagesHoldWholeInstants ==
  \A c \in Int : Cardinality(PageFrom(c)) = Page =>
    \A g \in PageFrom(c), f \in fills :
      (\A h \in PageFrom(c) : h.at <= g.at) /\ f.at = g.at => f \in PageFrom(c)

IsWalk(w) == w = [at |-> w.at, backfill |-> w.backfill, cursor |-> w.cursor, latest |-> w.latest,
                  news |-> w.news]

FillsAreOrdered ==
  /\ now \in Nat /\ IsFiniteSet(fills) /\ stored \subseteq fills
  /\ \A f \in fills : f.at \in Nat /\ f.tid \in Nat
  /\ \A f \in fills : f.at <= now /\ f.tid <= Cardinality(fills)
  /\ fillMark \in Int /\ fillMark >= None /\ fillMark <= now
  /\ row.since \in Int /\ row.since <= now
  /\ faults \in Nat
  /\ IsWalk(walk)
  /\ walk.at = "idle" => walk.news = {}

Due(c) == {f \in fills : f.at >= c}

LEMMA PagesAreFinite ==
  ASSUME FillsAreOrdered, NEW c \in Int
  PROVE  /\ IsFiniteSet(PageFrom(c)) /\ PageFrom(c) \subseteq Due(c)
         /\ Cardinality(PageFrom(c)) \in Nat
         /\ \A f : IsFiniteSet({g \in Due(c) : Older(g, f)})
<1>1. PageFrom(c) \subseteq Due(c) /\ Due(c) \subseteq fills
  BY DEF PageFrom, Due
<1>2. IsFiniteSet(Due(c)) /\ IsFiniteSet(PageFrom(c))
  BY <1>1, FS_Subset DEF FillsAreOrdered
<1>3. ASSUME NEW f PROVE IsFiniteSet({g \in Due(c) : Older(g, f)})
  BY <1>2, FS_Subset
<1> QED BY <1>1, <1>2, <1>3, FS_CardinalityType

(* A page that is not full holds everything from its start on: the oldest  *)
(* fill it lacked would have a pageful of fills before it, all in the page. *)
LEMMA ShortPagesLackNothing ==
  ASSUME FillsAreOrdered, NEW c \in Int, Cardinality(PageFrom(c)) < Page
  PROVE  PageFrom(c) = Due(c)
<1> DEFINE Lacking == Due(c) \ PageFrom(c)
           Times == {f.at : f \in Lacking}
<1>0. \A f \in Lacking : f.at \in Nat /\ f.tid \in Nat
  BY DEF FillsAreOrdered, Due
<1>1. SUFFICES ASSUME Lacking # {} PROVE FALSE
  BY PagesAreFinite
<1>2. PICK t \in Times : \A u \in Times : t <= u
  <2>1. Times \in SUBSET Nat
    BY <1>0
  <2>2. Times # {}
    BY <1>1
  <2> HIDE DEF Times
  <2> QED BY <2>1, <2>2, LeastNatural
<1> DEFINE Tids == {f.tid : f \in {f \in Lacking : f.at = t}}
<1>3. PICK n \in Tids : \A m \in Tids : n <= m
  <2>1. Tids \in SUBSET Nat
    BY <1>0
  <2>2. Tids # {}
    BY <1>2
  <2> HIDE DEF Tids
  <2> QED BY <2>1, <2>2, LeastNatural
<1>4. PICK f \in Lacking : f.at = t /\ f.tid = n
  BY <1>3
<1> DEFINE Before == {g \in Due(c) : Older(g, f)}
<1>5. Before \subseteq PageFrom(c)
  <2> SUFFICES ASSUME NEW g \in Before, g \in Lacking PROVE FALSE
    OBVIOUS
  <2>1. g.at \in Nat /\ g.tid \in Nat /\ f.at \in Nat /\ f.tid \in Nat
    BY <1>0, <1>4
  <2>2. t <= g.at
    BY <1>2
  <2>3. g.at = f.at /\ g.tid < f.tid
    BY <2>1, <2>2, <1>4 DEF Older
  <2>4. n <= g.tid
    BY <2>3, <1>3, <1>4
  <2> QED BY <2>1, <2>3, <2>4, <1>4
<1>6. Cardinality(Before) <= Cardinality(PageFrom(c)) /\ Cardinality(Before) \in Nat
  BY <1>5, PagesAreFinite, FS_Subset, FS_CardinalityType
<1>7. ~(Cardinality(Before) < Page)
  <2>1. f \in Due(c) /\ f \notin PageFrom(c)
    BY <1>4
  <2> QED BY <2>1 DEF PageFrom, Due
<1> QED BY <1>6, <1>7, PagesAreFinite, PageAssumption

(* A full page holds everything up to its last instant.                    *)
LEMMA FullPagesReachTheirEnd ==
  ASSUME FillsAreOrdered, PagesHoldWholeInstants, NEW c \in Int,
         Cardinality(PageFrom(c)) = Page
  PROVE  \E g \in PageFrom(c) :
           /\ \A h \in PageFrom(c) : h.at <= g.at
           /\ Max({f.at : f \in PageFrom(c)}) = g.at
           /\ \A f \in Due(c) : f.at <= g.at => f \in PageFrom(c)
<1> DEFINE Times == {f.at : f \in PageFrom(c)}
<1>1. PageFrom(c) # {}
  BY FS_EmptySet, PageAssumption
<1>2. PageFrom(c) \subseteq fills /\ \A f \in PageFrom(c) : f.at \in Nat /\ f.tid \in Nat
  BY PagesAreFinite DEF Due, FillsAreOrdered
<1>3. Max(Times) \in Times /\ \A t \in Times : Max(Times) >= t
  <2>1. Times \in SUBSET Int /\ Times # {}
    BY <1>1, <1>2
  <2>2. \A t \in Times : t <= now
    BY <1>2 DEF FillsAreOrdered
  <2>3. now \in Int
    BY DEF FillsAreOrdered
  <2> HIDE DEF Times
  <2> QED BY <2>1, <2>2, <2>3, MaxOfBounded
<1>4. PICK g \in PageFrom(c) : g.at = Max(Times)
  BY <1>3
<1>5. \A h \in PageFrom(c) : h.at <= g.at
  <2> SUFFICES ASSUME NEW h \in PageFrom(c) PROVE h.at <= g.at
    OBVIOUS
  <2>1. h.at \in Times
    OBVIOUS
  <2>2. Max(Times) >= h.at
    BY <2>1, <1>3
  <2>3. h.at \in Nat /\ g.at \in Nat
    BY <1>2 
  <2> QED BY <2>2, <2>3, <1>4
<1>6. ASSUME NEW f \in Due(c), f.at <= g.at PROVE f \in PageFrom(c)
  <2>1. f \in fills /\ f.at \in Nat /\ f.tid \in Nat /\ g.at \in Nat /\ g.tid \in Nat
    BY <1>2 DEF Due, FillsAreOrdered
  <2>2. CASE f.at = g.at
    BY <2>1, <2>2, <1>5 DEF PagesHoldWholeInstants
  <2>3. CASE f.at < g.at
    <3> DEFINE BeforeF == {h \in Due(c) : Older(h, f)}
               BeforeG == {h \in Due(c) : Older(h, g)}
    <3>1. BeforeF \subseteq BeforeG
      <4> SUFFICES ASSUME NEW h \in Due(c), Older(h, f) PROVE Older(h, g)
        OBVIOUS
      <4>1. h.at \in Nat
        BY DEF Due, FillsAreOrdered
      <4> QED BY <4>1, <2>1, <2>3 DEF Older
    <3>2. IsFiniteSet(BeforeF) /\ IsFiniteSet(BeforeG)
      BY PagesAreFinite
    <3>3. Cardinality(BeforeG) < Page
      BY DEF PageFrom, Due
    <3>4. Cardinality(BeforeF) < Page
      <4>1. Cardinality(BeforeF) <= Cardinality(BeforeG)
        <5> HIDE DEF BeforeF, BeforeG
        <5> QED BY <3>1, <3>2, FS_Subset
      <4>2. Cardinality(BeforeF) \in Nat /\ Cardinality(BeforeG) \in Nat
        <5> HIDE DEF BeforeF, BeforeG
        <5> QED BY <3>2, FS_CardinalityType
      <4> HIDE DEF BeforeF, BeforeG
      <4> QED BY <4>1, <4>2, <3>3, PageAssumption
    <3>5. ASSUME f \notin PageFrom(c) PROVE ~(Cardinality(BeforeF) < Page)
      BY <3>5 DEF PageFrom, Due
    <3> QED BY <3>4, <3>5
  <2> QED BY <1>6, <2>1, <2>2, <2>3
<1> QED BY <1>4, <1>5, <1>6

-----------------------------------------------------------------------------
(* What the pass has behind it.  A fill that arrived when a walk had been  *)
(* completed is fresh; those before it are stored, or older than the mark; *)
(* and while the walk is under way the same holds of its cursor, behind    *)
(* which nothing arrives any more.                                         *)
Behind(f, c) == f.at < c /\ f.fresh => f \in stored

BookIsRead ==
  /\ fillMark = None => \A f \in fills : ~f.fresh
  /\ fillMark # None => \A f \in fills : ~f.fresh => f \in stored \/ f.at < fillMark
  /\ NothingSkipped

(* The page the walk read last was full and reached the present.           *)
PresentIsFull ==
  \E c \in Int : /\ Cardinality(PageFrom(c)) = Page
                 /\ \E g \in PageFrom(c) : g.at >= now

WalkIsBehindItsCursor ==
  walk.at = "pages" =>
    /\ walk.cursor \in Int /\ walk.latest \in Int /\ walk.latest <= now
    /\ walk.cursor <= now + 1
    /\ walk.backfill <=> fillMark = None
    /\ ~walk.backfill => walk.cursor >= fillMark
    /\ walk.cursor > now => PresentIsFull
    /\ \A f \in fills : f.at < walk.cursor => /\ f.fresh => f \in stored
                                              /\ f \in stored \/ f.at < walk.latest

IngestInv == FillsAreOrdered /\ BookIsRead /\ WalkIsBehindItsCursor

LEMMA IngestInitially == Init => IngestInv
<1> SUFFICES ASSUME Init PROVE IngestInv
  OBVIOUS
<1>1. row.since \in Int /\ row.since <= now
  BY DayAssumption DEF Init, RowInit, OldRow, NoRow, None
<1>2. FillsAreOrdered
  BY <1>1, FS_EmptySet, DayAssumption DEF Init, RowInit, IngestInit, NoWalk, FillsAreOrdered, IsWalk, None
<1> QED BY <1>2 DEF Init, IngestInit, NoWalk, IngestInv, BookIsRead, WalkIsBehindItsCursor, NothingSkipped

(* The steps that are not the ingest's leave the fills and the walk alone. *)
ElsewhereStep ==
  /\ UNCHANGED <<fills, stored, fillMark, walk, answered>>
  /\ now' \in Nat /\ now' >= now
  /\ faults' \in Nat /\ faults' >= faults
  /\ row'.since \in Int /\ row'.since <= now'

LEMMA SetHaltKeepsSince ==
  ASSUME NEW r, IsRow(r), NEW k PROVE SetHalt(r, k).since = r.since
BY DEF SetHalt, IsRow

LEMMA HaltOnKeepsSince ==
  ASSUME IsRow(row), NEW found, HaltOn(RollDay(row, Equity), found)
  PROVE  row'.since = row.since
<1> DEFINE rolled == RollDay(row, Equity)
<1>1. IsRow(rolled) /\ rolled.since = row.since
  BY RollDayLemma DEF RollDay, IsRow
<1>2. row' = SetHalt(rolled, found) \/ row' = rolled
  BY DEF HaltOn
<1> HIDE DEF rolled
<1> QED BY <1>1, <1>2, SetHaltKeepsSince

IngestStep == (\E sort \in FillSorts : FillArrives(sort)) \/ BeginWalk \/ ReadPage
              \/ Conclude \/ WalkThrows \/ Crash

LEMMA OthersStayElsewhere ==
  ASSUME IngestInv, IsRow(row), [Next]_vars, ~IngestStep
  PROVE  ElsewhereStep
<1> USE DEF ElsewhereStep
<1>0. now \in Nat /\ faults \in Nat /\ row.since \in Int /\ row.since <= now
  BY DEF IngestInv, FillsAreOrdered
<1>1. CASE UNCHANGED vars
  BY <1>0, <1>1 DEF vars, rowVars, ingestVars, fillVars
<1>2. CASE MarkMoves \/ PositionCloses \/ AskConnection
  BY <1>0, <1>2 DEF MarkMoves, PositionCloses, AskConnection, rowVars, ingestVars, fillVars
<1>3. ASSUME NEW d, Deposit(d) PROVE ElsewhereStep
  BY <1>0, <1>3 DEF Deposit, rowVars, ingestVars, fillVars
<1>4. ASSUME NEW at, PressClear(at) \/ PressMandate(at) PROVE ElsewhereStep
  BY <1>0, <1>4 DEF PressClear, PressMandate, rowVars, ingestVars, fillVars
<1>5. CASE OperatorClears
  <2>1. row'.since = row.since
    BY <1>5 DEF OperatorClears, ClearHalt, IsRow
  <2> QED BY <1>0, <1>5, <2>1 DEF OperatorClears, ingestVars, fillVars
<1>6. CASE Admit
  <2>1. faults' \in Nat /\ faults' >= faults
    BY <1>0, <1>6 DEF Admit, Fails
  <2>2. now' = now + 1 /\ UNCHANGED <<fills, stored, fillMark, walk, answered>>
    BY <1>6 DEF Admit, fillVars
  <2>3. row'.since \in {row.since, now, None}
    <3>1. CASE Release
      BY <3>1 DEF Release, DisconnectAccount, NoRow
    <3>2. CASE Connect
      BY <3>2 DEF Connect, ConnectAccount, Written
    <3> QED BY <1>6, <3>1, <3>2 DEF Admit
  <2>4. row'.since \in Int /\ row'.since <= now'
    BY <1>0, <2>2, <2>3 DEF None
  <2> QED BY <1>0, <2>1, <2>2, <2>4
<1>7. CASE DecideClear
  <2>1. row'.since = row.since
    BY <1>7 DEF DecideClear, ClearHalt, IsRow
  <2> QED BY <1>0, <1>7, <2>1 DEF DecideClear, ingestVars, fillVars
<1>8. CASE ReadMandate
  <2>1. row'.since = row.since
    BY <1>8 DEF ReadMandate, ApplyMandate, IsRow
  <2>2. faults' \in Nat /\ faults' >= faults
    BY <1>0, <1>8 DEF ReadMandate, Fails
  <2> QED BY <1>0, <1>8, <2>1, <2>2 DEF ReadMandate, fillVars
<1>9. CASE Tick \/ TickThrows
  <2>1. UNCHANGED row \/ \E found : HaltOn(RollDay(row, Equity), found)
    BY <1>9 DEF Tick, TickThrows
  <2>2. row'.since = row.since
    BY <2>1, HaltOnKeepsSince
  <2>3. faults' \in Nat /\ faults' >= faults
    BY <1>0, <1>9 DEF Tick, TickThrows, Fails, ingestVars
  <2> QED BY <1>0, <1>9, <2>2, <2>3 DEF Tick, TickThrows, ingestVars, fillVars
<1>10. CASE NothingToTick
  BY <1>0, <1>10 DEF NothingToTick, ingestVars, fillVars
<1>11. CASE Ingest
  BY <1>0, <1>11, ~IngestStep DEF Ingest, IngestStep, ingestVars, fillVars
<1>12. CASE Moves
  BY <1>12, <1>2, <1>3, <1>4, <1>5, ~IngestStep DEF Moves, IngestStep
<1>13. CASE Pass
  BY <1>13, <1>6, <1>7, <1>8, <1>9, <1>10, <1>11, ~IngestStep DEF Pass, IngestStep
<1> QED BY <1>1, <1>12, <1>13 DEF Next

LEMMA ElsewhereKeepsIngest ==
  ASSUME IngestInv, ElsewhereStep
  PROVE  IngestInv'
<1> USE DEF ElsewhereStep
<1>0. now \in Nat /\ now' \in Nat /\ now' >= now
  BY DEF IngestInv, FillsAreOrdered
<1>1. FillsAreOrdered'
  <2>1. \A f \in fills : f.at \in Nat
    BY DEF IngestInv, FillsAreOrdered
  <2> QED BY <1>0, <2>1 DEF IngestInv, FillsAreOrdered
<1>2. BookIsRead'
  BY DEF IngestInv, BookIsRead, NothingSkipped
<1>3. ASSUME walk.at = "pages" PROVE WalkIsBehindItsCursor'
  <2>1. /\ walk.cursor \in Int /\ walk.latest \in Int /\ walk.latest <= now'
        /\ walk.cursor <= now' + 1
    BY <1>0, <1>3 DEF IngestInv, WalkIsBehindItsCursor
  <2>2. walk.cursor > now' => PresentIsFull'
    <3> SUFFICES ASSUME walk.cursor > now' PROVE PresentIsFull'
      OBVIOUS
    <3>1. PresentIsFull
      BY <1>0, <1>3, <2>1 DEF IngestInv, WalkIsBehindItsCursor
    <3>2. now' = now
      BY <1>0, <1>3, <2>1 DEF IngestInv, WalkIsBehindItsCursor
    <3> QED BY <3>1, <3>2 DEF PresentIsFull, PageFrom
  <2> QED BY <1>3, <2>1, <2>2 DEF IngestInv, WalkIsBehindItsCursor
<1> QED BY <1>1, <1>2, <1>3 DEF IngestInv, WalkIsBehindItsCursor

(* A fill arrives behind no cursor: that would take a full page that ends  *)
(* at the present, and it would then be missing of that instant.           *)
LEMMA ArrivesAhead ==
  ASSUME IngestInv, NEW sort \in FillSorts, FillArrives(sort), PagesHoldWholeInstants'
  PROVE  walk.at = "pages" => walk.cursor <= now
<1> SUFFICES ASSUME walk.at = "pages", walk.cursor > now PROVE FALSE
  BY DEF IngestInv, FillsAreOrdered, WalkIsBehindItsCursor
<1> DEFINE new == [tid |-> Cardinality(fills) + 1, at |-> now, sort |-> sort,
                   watched |-> row.linked, fresh |-> fillMark # None]
<1>1. PICK c \in Int : /\ Cardinality(PageFrom(c)) = Page
                       /\ \E g \in PageFrom(c) : g.at >= now
  BY DEF IngestInv, WalkIsBehindItsCursor, PresentIsFull
<1>2. PICK g \in PageFrom(c) : g.at >= now
  BY <1>1
<1>3. fills' = fills \cup {new} /\ new.at = now /\ new.tid = Cardinality(fills) + 1 /\ now \in Nat
  BY DEF FillArrives, IngestInv, FillsAreOrdered
<1>4. FillsAreOrdered /\ Cardinality(fills) \in Nat
  BY FS_CardinalityType DEF IngestInv, FillsAreOrdered
<1> HIDE DEF new
<1>5. \A f \in fills : ~Older(new, f) /\ Older(f, new)
  <2> SUFFICES ASSUME NEW f \in fills PROVE ~Older(new, f) /\ Older(f, new)
    OBVIOUS
  <2>1. f.at <= now /\ f.tid <= Cardinality(fills) /\ f.at \in Nat /\ f.tid \in Nat
    BY <1>4 DEF FillsAreOrdered
  <2> QED BY <2>1, <1>3, <1>4 DEF Older
<1>6. c <= now /\ g \in fills /\ g.at = now
  <2>1. g \in fills /\ g.at >= c /\ g.at <= now /\ g.at \in Nat
    BY <1>2, <1>4, PagesAreFinite DEF Due, FillsAreOrdered
  <2> QED BY <2>1, <1>2, <1>3
<1> DEFINE DueNow == {f \in fills' : f.at >= c}
           PageNow == {f \in DueNow : Cardinality({h \in DueNow : Older(h, f)}) < Page}
<1>7. DueNow = Due(c) \cup {new}
  BY <1>3, <1>6 DEF Due
<1>8. ASSUME NEW f \in Due(c)
      PROVE {h \in DueNow : Older(h, f)} = {h \in Due(c) : Older(h, f)}
  BY <1>5, <1>7 DEF Due
<1>9. new \notin PageNow
  <2>1. PageFrom(c) \subseteq {h \in DueNow : Older(h, new)}
    BY <1>5, <1>7, <1>4, PagesAreFinite DEF Due
  <2>2. IsFiniteSet({h \in DueNow : Older(h, new)})
    <3>1. IsFiniteSet(fills')
      BY <1>3, <1>4, FS_AddElement DEF FillsAreOrdered
    <3>2. {h \in DueNow : Older(h, new)} \subseteq fills'
      OBVIOUS
    <3> HIDE DEF DueNow
    <3> QED BY <3>1, <3>2, FS_Subset
  <2>3. Page <= Cardinality({h \in DueNow : Older(h, new)})
    <3> HIDE DEF DueNow
    <3> QED BY <1>1, <2>1, <2>2, FS_Subset
  <2>4. Cardinality({h \in DueNow : Older(h, new)}) \in Nat
    <3> HIDE DEF DueNow
    <3> QED BY <2>2, FS_CardinalityType
  <2>5. ~(Cardinality({h \in DueNow : Older(h, new)}) < Page)
    <3> HIDE DEF DueNow
    <3> QED BY <2>3, <2>4, PageAssumption
  <2> QED BY <2>5
<1>10. PageNow = PageFrom(c)
  <2>1. \A f \in Due(c) : f \in PageNow <=> f \in PageFrom(c)
    <3> SUFFICES ASSUME NEW f \in Due(c) PROVE f \in PageNow <=> f \in PageFrom(c)
      OBVIOUS
    <3> DEFINE n == Cardinality({h \in DueNow : Older(h, f)})
    <3>1. f \in PageNow <=> n < Page
      BY <1>7
    <3>2. n = Cardinality({h \in Due(c) : Older(h, f)})
      BY <1>8
    <3>3. f \in PageFrom(c) <=> Cardinality({h \in Due(c) : Older(h, f)}) < Page
      BY DEF PageFrom, Due
    <3> HIDE DEF n, PageNow
    <3> QED BY <3>1, <3>2, <3>3
  <2>2. PageNow \subseteq DueNow
    OBVIOUS
  <2>3. PageFrom(c) \subseteq Due(c)
    BY <1>4, PagesAreFinite
  <2> HIDE DEF PageNow
  <2> QED BY <2>1, <2>2, <2>3, <1>7, <1>9
<1>11. PageFrom(c)' = PageNow
  BY DEF PageFrom
<1>12. \A h \in PageNow : h.at <= g.at
  BY <1>6, <1>10, <1>4, PagesAreFinite DEF Due, FillsAreOrdered
<1>13. new \in PageNow
  <2> HIDE DEF PageNow
  <2>1. Cardinality(PageNow) = Page /\ g \in PageNow /\ new \in fills' /\ new.at = g.at
    BY <1>1, <1>2, <1>10, <1>3, <1>6
  <2> QED BY <2>1, <1>11, <1>12 DEF PagesHoldWholeInstants
<1> QED BY <1>9, <1>13

LEMMA ArrivalsKeepIngest ==
  ASSUME IngestInv, NEW sort \in FillSorts, FillArrives(sort), PagesHoldWholeInstants'
  PROVE  IngestInv'
<1> DEFINE new == [tid |-> Cardinality(fills) + 1, at |-> now, sort |-> sort,
                   watched |-> row.linked, fresh |-> fillMark # None]
<1>1. /\ fills' = fills \cup {new} /\ new.at = now /\ new.tid = Cardinality(fills) + 1
      /\ new.fresh <=> fillMark # None
      /\ UNCHANGED <<now, row, stored, fillMark, walk, answered, faults>>
  BY DEF FillArrives, rowVars
<1>2. FillsAreOrdered /\ Cardinality(fills) \in Nat /\ now \in Nat
  BY FS_CardinalityType DEF IngestInv, FillsAreOrdered
<1>3. FillsAreOrdered'
  <2>1. IsFiniteSet(fills')
    BY <1>1, <1>2, FS_AddElement DEF FillsAreOrdered
  <2>2. Cardinality(fills') \in Nat /\ Cardinality(fills') >= Cardinality(fills)
    BY <1>1, <1>2, <2>1, FS_Subset, FS_CardinalityType
  <2>3. \A f \in fills' : f.at <= now /\ f.tid <= Cardinality(fills')
    <3>1. CASE new \in fills
      <4>1. new.tid <= Cardinality(fills)
        BY <3>1, <1>2 DEF FillsAreOrdered
      <4> QED BY <4>1, <1>1, <1>2
    <3>2. CASE new \notin fills
      <4>1. Cardinality(fills') = Cardinality(fills) + 1
        BY <1>1, <1>2, <3>2, FS_AddElement DEF FillsAreOrdered
      <4>2. \A f \in fills : f.tid \in Nat
        BY <1>2 DEF FillsAreOrdered
      <4> HIDE DEF new
      <4> QED BY <4>1, <4>2, <1>1, <1>2 DEF FillsAreOrdered
    <3> QED BY <3>1, <3>2
  <2>4. \A f \in fills' : f.at \in Nat /\ f.tid \in Nat
    BY <1>1, <1>2 DEF FillsAreOrdered
  <2> QED BY <1>1, <1>2, <2>1, <2>3, <2>4 DEF FillsAreOrdered
<1>4. BookIsRead'
  <2>1. ~(new.at < fillMark)
    BY <1>1, <1>2 DEF FillsAreOrdered
  <2> QED BY <1>1, <2>1 DEF IngestInv, BookIsRead, NothingSkipped
<1>5. ASSUME walk.at = "pages" PROVE WalkIsBehindItsCursor'
  <2>1. walk.cursor <= now
    BY <1>5, ArrivesAhead
  <2>2. /\ walk.cursor \in Int /\ walk.latest \in Int /\ walk.latest <= now /\ walk.cursor <= now + 1
        /\ (walk.backfill <=> fillMark = None)
        /\ (~walk.backfill => walk.cursor >= fillMark)
        /\ \A f \in fills : f.at < walk.cursor => /\ f.fresh => f \in stored
                                                  /\ f \in stored \/ f.at < walk.latest
    BY <1>5 DEF IngestInv, WalkIsBehindItsCursor
  <2>3. ~(walk.cursor > now) /\ ~(new.at < walk.cursor)
    BY <2>1, <2>2, <1>1, <1>2
  <2> HIDE DEF new
  <2> QED BY <1>1, <2>2, <2>3 DEF WalkIsBehindItsCursor
<1> QED BY <1>1, <1>3, <1>4, <1>5 DEF IngestInv, WalkIsBehindItsCursor

LEMMA WalkBegins ==
  ASSUME IngestInv, BeginWalk, NEW c, c = From
  PROVE  /\ walk' = [at |-> "pages", backfill |-> fillMark = None, cursor |-> c, latest |-> c, news |-> {}]
         /\ UNCHANGED <<now, row, fills, stored, fillMark, answered, faults>>
         /\ c \in Int /\ c <= now /\ (fillMark # None => c = fillMark)
BY PageAssumption DEF BeginWalk, From, IngestInv, FillsAreOrdered, rowVars, fillVars

LEMMA BeginKeepsIngest ==
  ASSUME IngestInv, BeginWalk
  PROVE  IngestInv'
<1>1. PICK c : c = From
  OBVIOUS
<1>2. /\ walk' = [at |-> "pages", backfill |-> fillMark = None, cursor |-> c, latest |-> c, news |-> {}]
      /\ UNCHANGED <<now, row, fills, stored, fillMark, answered, faults>>
      /\ c \in Int /\ c <= now /\ (fillMark # None => c = fillMark)
  BY <1>1, WalkBegins
<1>3. /\ walk'.at = "pages" /\ (walk'.backfill <=> fillMark = None)
      /\ walk'.cursor = c /\ walk'.latest = c /\ IsWalk(walk')
  BY <1>2 DEF IsWalk
<1>4. FillsAreOrdered'
  <2> HIDE DEF IsWalk
  <2> QED BY <1>2, <1>3 DEF IngestInv, FillsAreOrdered
<1>5. BookIsRead'
  BY <1>2 DEF IngestInv, BookIsRead, NothingSkipped
<1>6. WalkIsBehindItsCursor'
  <2>1. now \in Nat
    BY DEF IngestInv, FillsAreOrdered
  <2>2. \A f \in fills : f.at < c => (f.fresh => f \in stored) /\ (f \in stored \/ f.at < c)
    BY <1>2 DEF IngestInv, BookIsRead, NothingSkipped
  <2> QED BY <1>2, <1>3, <2>1, <2>2 DEF WalkIsBehindItsCursor
<1> QED BY <1>4, <1>5, <1>6 DEF IngestInv

(* The walk is given up, or has ended.                                     *)
LEMMA EndsKeepIngest ==
  ASSUME IngestInv, Conclude \/ WalkThrows \/ Crash, IsRow(row)
  PROVE  IngestInv'
<1>0. now \in Nat /\ faults \in Nat /\ row.since \in Int /\ row.since <= now
  BY DEF IngestInv, FillsAreOrdered
<1>1. UNCHANGED <<fills, stored, fillMark>> /\ walk' = NoWalk /\ faults' \in Nat
  BY <1>0 DEF Conclude, WalkThrows, Crash, Fails, fillVars
<1>2. now' \in Nat /\ now' >= now
  <2>1. CASE Crash
    <3>1. (now - FirstNow) % 5 \in 0..4 /\ now' = now + 5 - ((now - FirstNow) % 5)
      BY <2>1, <1>0, DayAssumption DEF Crash, NextPass
    <3> DEFINE step == (now - FirstNow) % 5
    <3>2. step \in Int /\ step >= 0 /\ step <= 4 /\ now' = now + 5 - step
      BY <3>1
    <3> HIDE DEF step
    <3> QED BY <3>2, <1>0
  <2>2. CASE Conclude \/ WalkThrows
    BY <2>2, <1>0 DEF Conclude, WalkThrows
  <2> QED BY <2>1, <2>2
<1>3. row'.since = row.since
  <2>1. row' = row \/ row' = SetHalt(row, KindOf(walk.news))
    BY DEF Conclude, WalkThrows, Crash
  <2> QED BY <2>1, SetHaltKeepsSince
<1>4. walk'.at = "idle" /\ walk'.news = {} /\ IsWalk(walk')
  BY <1>1 DEF NoWalk, IsWalk
<1>5. FillsAreOrdered'
  BY <1>0, <1>1, <1>2, <1>3, <1>4 DEF IngestInv, FillsAreOrdered
<1> QED BY <1>1, <1>4, <1>5 DEF IngestInv, BookIsRead, NothingSkipped, WalkIsBehindItsCursor

LEMMA ReadingKeepsIngest ==
  ASSUME IngestInv, ReadPage, PagesHoldWholeInstants
  PROVE  IngestInv'
<1> DEFINE page == PageFrom(walk.cursor)
           times == {f.at : f \in page}
           latest == Max(times \cup {walk.latest})
<1>1. walk.at = "pages" /\ walk.cursor \in Int /\ walk.latest \in Int /\ walk.latest <= now /\ now \in Nat
  BY DEF ReadPage, IngestInv, WalkIsBehindItsCursor, FillsAreOrdered
<1>2. page \subseteq fills /\ (\A f \in page : f.at \in Nat /\ f.at <= now /\ f.at >= walk.cursor)
  BY <1>1, PagesAreFinite DEF Due, IngestInv, FillsAreOrdered
<1>3. latest \in Int /\ latest <= now /\ latest >= walk.latest /\ \A f \in page : latest >= f.at
  <2>1. times \cup {walk.latest} \in SUBSET Int
    BY <1>1, <1>2
  <2>2. \A t \in times \cup {walk.latest} : t <= now
    BY <1>1, <1>2
  <2>3. latest \in times \cup {walk.latest} /\ \A t \in times \cup {walk.latest} : latest >= t
    <3>1. times \cup {walk.latest} # {} /\ now \in Int
      BY <1>1
    <3> HIDE DEF times
    <3> QED BY <3>1, <2>1, <2>2, MaxOfBounded
  <2>4. \A f \in page : f.at \in times
    OBVIOUS
  <2> HIDE DEF latest, times, page
  <2> QED BY <2>1, <2>2, <2>3, <2>4
<1>4. /\ stored' = stored \cup page
      /\ UNCHANGED <<now, row, fills, answered, faults>>
  BY DEF ReadPage, rowVars
<1>5. FillsAreOrdered /\ BookIsRead /\ fillMark \in Int /\ fillMark <= now /\ fillMark >= None /\ None = -1
  BY DEF IngestInv, FillsAreOrdered, None
<1>6. /\ \A f \in fills : f.at < walk.cursor => /\ f.fresh => f \in stored
                                                /\ f \in stored \/ f.at < walk.latest
      /\ (walk.backfill <=> fillMark = None) /\ (~walk.backfill => walk.cursor >= fillMark)
  BY <1>1 DEF IngestInv, WalkIsBehindItsCursor
<1>7. CASE Cardinality(page) < Page
  <2>0. fillMark' = Max({latest, fillMark}) /\ walk' = [[walk EXCEPT !.latest = latest, !.news = @ \cup NewsOf(page)] EXCEPT !.at = "funding"]
    BY <1>7, PagesAreFinite, <1>1, <1>5, PageAssumption DEF ReadPage
  <2>1. fillMark' = Max({latest, fillMark}) /\ walk'.at = "funding" /\ IsWalk(walk')
    <3> HIDE DEF page, latest
    <3> QED BY <2>0, <1>5 DEF FillsAreOrdered, IsWalk
  <2>2. fillMark' \in Int /\ fillMark' <= now /\ fillMark' >= latest /\ fillMark' >= fillMark
    <3> HIDE DEF latest
    <3> QED BY <2>1, <1>3, <1>1, <1>5, MaxOfTwo
  <2>3. page = Due(walk.cursor)
    BY <1>7, <1>1, <1>5, ShortPagesLackNothing
  <2>4. \A f \in fills : /\ f.fresh => f \in stored'
                         /\ f \in stored' \/ f.at < fillMark'
    <3> SUFFICES ASSUME NEW f \in fills
                 PROVE  (f.fresh => f \in stored') /\ (f \in stored' \/ f.at < fillMark')
      OBVIOUS
    <3>1. f.at \in Nat
      BY <1>5 DEF FillsAreOrdered
    <3>2. CASE f.at >= walk.cursor
      <4>1. f \in page
        BY <2>3, <3>2 DEF Due
      <4> QED BY <4>1, <1>4
    <3>3. CASE f.at < walk.cursor
      <4>1. f.at < walk.latest => f.at < fillMark'
        <5> HIDE DEF latest
        <5> QED BY <1>1, <1>3, <2>2, <3>1
      <4> QED BY <3>3, <1>6, <1>4, <4>1
    <3> QED BY <3>1, <3>2, <3>3, <1>1
  <2>5. FillsAreOrdered'
    BY <1>2, <1>4, <1>5, <2>1, <2>2 DEF FillsAreOrdered
  <2>6. fillMark' = None => \A f \in fills : ~f.fresh
    <3>1. fillMark' = None => fillMark = None
      BY <2>2, <1>5
    <3> QED BY <3>1, <1>5 DEF BookIsRead
  <2> QED BY <1>4, <2>1, <2>4, <2>5, <2>6 DEF IngestInv, BookIsRead, NothingSkipped, WalkIsBehindItsCursor
<1>8. CASE Cardinality(page) = Page
  <2>0. UNCHANGED fillMark
        /\ walk' = [[walk EXCEPT !.latest = latest, !.news = @ \cup NewsOf(page)] EXCEPT !.cursor = Max(times) + 1]
    BY <1>8, PageAssumption DEF ReadPage
  <2>1. /\ walk'.at = "pages" /\ walk'.backfill = walk.backfill
        /\ walk'.cursor = Max(times) + 1 /\ walk'.latest = latest /\ IsWalk(walk')
    <3> HIDE DEF page, latest, times
    <3> QED BY <2>0, <1>1, <1>5 DEF FillsAreOrdered, IsWalk
  <2>2. PICK g \in page : /\ Max(times) = g.at
                          /\ \A f \in Due(walk.cursor) : f.at <= g.at => f \in page
    BY <1>8, <1>1, <1>5, FullPagesReachTheirEnd
  <2> DEFINE cursor == g.at + 1
  <2>3. walk'.cursor = cursor /\ cursor \in Int /\ cursor <= now + 1 /\ cursor > walk.cursor
        /\ g.at \in Nat
    BY <2>1, <2>2, <1>1, <1>2
  <2>4. ASSUME NEW f \in fills, f.at < cursor
        PROVE  /\ f.fresh => f \in stored'
               /\ f \in stored' \/ f.at < latest
    <3>1. f.at \in Nat
      BY <1>5 DEF FillsAreOrdered
    <3>2. CASE f.at >= walk.cursor
      <4>1. f.at <= g.at
        BY <2>4, <2>3, <3>1
      <4>2. f \in page
        BY <2>2, <3>2, <4>1 DEF Due
      <4> QED BY <4>2, <1>4
    <3>3. CASE f.at < walk.cursor
      <4>1. f.at < walk.latest => f.at < latest
        <5> HIDE DEF latest
        <5> QED BY <1>1, <1>3, <3>1
      <4> QED BY <3>3, <1>6, <1>4, <4>1
    <3> QED BY <3>1, <3>2, <3>3, <1>1
  <2>5. cursor > now => PresentIsFull'
    <3> SUFFICES ASSUME cursor > now PROVE PresentIsFull'
      OBVIOUS
    <3>1. g.at >= now
      BY <2>3, <1>1
    <3>2. Cardinality(PageFrom(walk.cursor)) = Page /\ \E h \in PageFrom(walk.cursor) : h.at >= now
      BY <1>8, <3>1
    <3>3. PresentIsFull
      BY <3>2, <1>1 DEF PresentIsFull
    <3> QED BY <3>3, <1>4 DEF PresentIsFull, PageFrom
  <2>6. FillsAreOrdered'
    <3> HIDE DEF cursor, latest, page, times
    <3> QED BY <1>2, <1>4, <1>5, <2>0, <2>1 DEF FillsAreOrdered
  <2>7. BookIsRead'
    <3> HIDE DEF latest, page, times
    <3> QED BY <1>4, <1>5, <2>0 DEF BookIsRead, NothingSkipped
  <2>8. WalkIsBehindItsCursor'
    <3> HIDE DEF cursor, latest, page, times
    <3>1. walk'.cursor >= fillMark' \/ walk'.backfill
      BY <2>0, <2>1, <2>3, <1>1, <1>5, <1>6
    <3> QED BY <1>1, <1>3, <1>4, <1>6, <2>0, <2>1, <2>3, <2>4, <2>5, <3>1 DEF WalkIsBehindItsCursor
  <2> QED BY <2>6, <2>7, <2>8 DEF IngestInv
<1> QED BY <1>7, <1>8 DEF ReadPage

LEMMA StepsKeepIngest ==
  ASSUME IngestInv, RowWhole, PagesHoldWholeInstants, PagesHoldWholeInstants', [Next]_vars
  PROVE  IngestInv'
<1>1. CASE IngestStep
  BY <1>1, ArrivalsKeepIngest, BeginKeepsIngest, ReadingKeepsIngest, EndsKeepIngest
     DEF IngestStep, RowWhole
<1>2. CASE ~IngestStep
  BY <1>2, OthersStayElsewhere, ElsewhereKeepsIngest DEF RowWhole
<1> QED BY <1>1, <1>2

(* For every page size, schedule of fills, failure and crash: what is      *)
(* behind the watermark and happened since the first walk is in the        *)
(* ledger, as long as no full page of the venue ends inside an instant.    *)
THEOREM NothingIsSkipped == Spec /\ []PagesHoldWholeInstants => []NothingSkipped
<1>1. IngestInv /\ RowWhole /\ PagesHoldWholeInstants /\ PagesHoldWholeInstants' /\ [Next]_vars
        => IngestInv'
  BY StepsKeepIngest
<1>2. IngestInv => NothingSkipped
  BY DEF IngestInv, BookIsRead
<1> QED
  BY <1>1, <1>2, IngestInitially, RowAlwaysWhole, PTL DEF Spec

(* A page that has room for all fills there are holds its instants whole:  *)
(* the instance of the runs.                                               *)
FillsAreFew == IsFiniteSet(fills) /\ Cardinality(fills) <= MaxFills

LEMMA FewFillsAreRead ==
  ASSUME MaxFills <= Page
  PROVE  Spec => []PagesHoldWholeInstants
<1>1. Init => FillsAreFew
  BY FS_EmptySet, FillBounds DEF Init, IngestInit, FillsAreFew
<1>2. FillsAreFew /\ [Next]_vars => FillsAreFew'
  <2> SUFFICES ASSUME FillsAreFew, [Next]_vars PROVE FillsAreFew'
    OBVIOUS
  <2>1. UNCHANGED fills \/ \E f : fills' = fills \cup {f} /\ Cardinality(fills) < MaxFills
    BY DEF Next, Moves, Pass, MarkMoves, PositionCloses, Deposit, AskConnection, OperatorClears,
           PressClear, PressMandate, FillArrives, Admit, DecideClear, ReadMandate, Tick, TickThrows,
           NothingToTick, Ingest, BeginWalk, ReadPage, Conclude, WalkThrows, Crash,
           vars, ingestVars, fillVars
  <2>2. ASSUME NEW f, fills' = fills \cup {f}, Cardinality(fills) < MaxFills PROVE FillsAreFew'
    <3>1. IsFiniteSet(fills') /\ (Cardinality(fills') = Cardinality(fills) \/ Cardinality(fills') = Cardinality(fills) + 1)
      BY <2>2, FS_AddElement DEF FillsAreFew
    <3>2. Cardinality(fills) \in Nat
      BY FS_CardinalityType DEF FillsAreFew
    <3> QED BY <3>1, <3>2, <2>2, FillBounds DEF FillsAreFew
  <2> QED BY <2>1, <2>2 DEF FillsAreFew
<1>3. FillsAreFew => PagesHoldWholeInstants
  <2> SUFFICES ASSUME FillsAreFew, NEW c \in Int, Cardinality(PageFrom(c)) = Page
               PROVE  PageFrom(c) = fills
    BY DEF PagesHoldWholeInstants
  <2>1. PageFrom(c) \subseteq fills
    BY DEF PageFrom
  <2>2. Cardinality(fills) \in Nat /\ Cardinality(PageFrom(c)) <= Cardinality(fills)
    BY <2>1, FS_Subset, FS_CardinalityType DEF FillsAreFew
  <2>3. Cardinality(PageFrom(c)) = Cardinality(fills)
    BY <2>2, PageAssumption, FillBounds DEF FillsAreFew
  <2> QED BY <2>1, <2>3, FS_Subset DEF FillsAreFew
<1> QED
  BY <1>1, <1>2, <1>3, PTL DEF Spec

-----------------------------------------------------------------------------
(* The news.  What a walk counts is fresh, and what it stored of strangers *)
(* on a watched account it has counted, unless a call has failed.          *)
NewsInv ==
  /\ \A f \in fills : f.fresh => f.watched
  /\ answered \cup walk.news \subseteq fills
  /\ \A f \in answered \cup walk.news : f.fresh
  /\ faults = 0 => \A f \in stored : f.sort \in Strangers /\ f.fresh => f \in answered \cup walk.news

LEMMA StepsKeepNews ==
  ASSUME ~TradesUnlinked, IngestInv, RowWhole, NewsInv, [Next]_vars
  PROVE  NewsInv'
<1>0. faults \in Nat /\ IsWalk(walk) /\ fillMark \in Int /\ stored \subseteq fills
  BY DEF IngestInv, FillsAreOrdered
<1>1. ASSUME NEW sort \in FillSorts, FillArrives(sort) PROVE NewsInv'
  <2> DEFINE new == [tid |-> Cardinality(fills) + 1, at |-> now, sort |-> sort,
                     watched |-> row.linked, fresh |-> fillMark # None]
  <2>1. /\ fills' = fills \cup {new} /\ (new.fresh <=> fillMark # None) /\ new.watched = row.linked
        /\ row.linked \/ fillMark = None
        /\ UNCHANGED <<stored, walk, answered, faults>>
    BY <1>1, ~TradesUnlinked DEF FillArrives
  <2>2. new.fresh => new.watched
    BY <2>1
  <2> HIDE DEF new
  <2> QED BY <2>1, <2>2 DEF NewsInv
<1>2. CASE BeginWalk
  <2>1. walk.news = {} /\ walk'.news = {} /\ UNCHANGED <<fills, stored, answered, faults>>
    BY <1>2 DEF BeginWalk, IngestInv, FillsAreOrdered, fillVars
  <2> QED BY <2>1 DEF NewsInv
<1>3. CASE ReadPage
  <2> DEFINE page == PageFrom(walk.cursor)
  <2>1. /\ stored' = stored \cup page /\ UNCHANGED <<fills, answered, faults>>
        /\ walk.at = "pages"
    BY <1>3 DEF ReadPage
  <2>2. walk'.news = walk.news \cup NewsOf(page)
    <3>1. \E read, latest, at, cursor :
             /\ read = [walk EXCEPT !.latest = latest, !.news = @ \cup NewsOf(page)]
             /\ walk' = [read EXCEPT !.at = at] \/ walk' = [read EXCEPT !.cursor = cursor]
      BY <1>3 DEF ReadPage
    <3> HIDE DEF page
    <3> QED BY <3>1, <1>0 DEF IsWalk
  <2>3. /\ walk.cursor \in Int /\ (walk.backfill <=> fillMark = None)
        /\ (~walk.backfill => walk.cursor >= fillMark)
    BY <2>1 DEF IngestInv, WalkIsBehindItsCursor
  <2>4. page \subseteq fills /\ \A f \in page : f.at >= walk.cursor /\ f.at \in Nat
    BY <2>3, PagesAreFinite DEF Due, IngestInv, FillsAreOrdered
  <2>5. \A f \in NewsOf(page) : f.fresh /\ f \in fills
    <3> SUFFICES ASSUME NEW f \in NewsOf(page) PROVE f.fresh /\ f \in fills
      OBVIOUS
    <3>1. f \in page /\ f \notin stored /\ ~walk.backfill
      BY DEF NewsOf
    <3>2. f.at >= fillMark /\ ~(f.at < fillMark)
      BY <3>1, <2>3, <2>4, <1>0
    <3> QED BY <3>1, <3>2, <2>3, <2>4 DEF IngestInv, BookIsRead
  <2>6. \A f \in page \ stored : f.sort \in Strangers /\ f.fresh => f \in NewsOf(page)
    BY <2>3, <2>4 DEF NewsOf, IngestInv, BookIsRead
  <2> HIDE DEF page
  <2> QED BY <2>1, <2>2, <2>5, <2>6 DEF NewsInv
<1>4. CASE Conclude
  BY <1>4 DEF Conclude, NewsInv, NoWalk, fillVars
<1>5. CASE WalkThrows \/ Crash
  <2>1. faults' = faults + 1 /\ walk' = NoWalk /\ UNCHANGED <<fills, stored, answered>>
    BY <1>5 DEF WalkThrows, Crash, Fails, fillVars
  <2>2. faults' # 0 /\ walk'.news = {}
    BY <2>1, <1>0 DEF NoWalk
  <2> QED BY <2>1, <2>2 DEF NewsInv
<1>6. CASE ~IngestStep
  <2>1. ElsewhereStep
    BY <1>6, OthersStayElsewhere DEF RowWhole
  <2>2. faults' = 0 => faults = 0
    BY <2>1, <1>0 DEF ElsewhereStep
  <2> QED BY <2>1, <2>2 DEF ElsewhereStep, NewsInv
<1> QED BY <1>1, <1>2, <1>3, <1>4, <1>5, <1>6 DEF IngestStep

(* There, and as long as its owner does not trade an account they have     *)
(* unlinked, what halts an account for its trades is the news: what it     *)
(* stored of a stranger when no call failed, and nothing older.            *)
THEOREM NewsAreHeard ==
  ASSUME ~TradesUnlinked
  PROVE  Spec /\ []PagesHoldWholeInstants => []NewsIsHeard
<1>1. Init => NewsInv
  BY DEF Init, IngestInit, NoWalk, NewsInv
<1>2. IngestInv /\ RowWhole /\ PagesHoldWholeInstants /\ PagesHoldWholeInstants' /\ [Next]_vars
        => IngestInv'
  BY StepsKeepIngest
<1>3. IngestInv /\ RowWhole /\ NewsInv /\ [Next]_vars => NewsInv'
  BY StepsKeepNews
<1>4. IngestInv /\ NewsInv => NewsIsHeard
  <2> SUFFICES ASSUME IngestInv, NewsInv PROVE NewsIsHeard
    OBVIOUS
  <2>1. OldTradesNeverHalt
    BY DEF NewsInv, OldTradesNeverHalt
  <2>2. StrangersAreHeard
    <3>1. walk.at = "idle" => walk.news = {}
      BY DEF IngestInv, FillsAreOrdered
    <3> QED BY <3>1 DEF IngestInv, BookIsRead, NothingSkipped, NewsInv, StrangersAreHeard
  <2> QED BY <2>1, <2>2 DEF NewsIsHeard
<1> QED
  BY <1>1, <1>2, <1>3, <1>4, IngestInitially, RowAlwaysWhole, PTL DEF Spec

-----------------------------------------------------------------------------
(* The clears.  Time first: days follow one another as instants do.        *)
LEMMA DaysFollow ==
  ASSUME NEW s \in Nat, NEW t \in Nat, s <= t
  PROVE  Day(s) \in Nat /\ Day(t) \in Nat /\ Day(s) <= Day(t)
<1> DEFINE d == DayLength
           x == s \div d
           y == t \div d
<1>1. d \in Nat /\ d > 0
  BY DayAssumption
<1>2. x \in Nat /\ y \in Nat
  BY <1>1
<1>3. d * x <= s /\ t < d * y + d
  BY <1>1
<1>4. ASSUME y < x PROVE FALSE
  <2>1. x = y + 1 + (x - y - 1) /\ (x - y - 1) \in Nat
    BY <1>2, <1>4
  <2> DEFINE k == x - y - 1
  <2>2. d * k >= 0
    BY <1>1, <2>1
  <2>3. d * x = d * y + d + d * k
    <3> HIDE DEF x, y, d
    <3> QED BY <1>1, <1>2
  <2>4. s \in Int /\ t \in Int /\ d * x \in Int /\ d * y \in Int /\ d * k \in Int
    BY <1>1, <1>2, <2>1
  <2> HIDE DEF x, y, d, k
  <2> QED BY <1>3, <2>2, <2>3, <2>4, <1>1
<1>5. x <= y
  BY <1>2, <1>4
<1> QED BY <1>2, <1>5 DEF Day

LEMMA TimeRuns ==
  ASSUME now \in Nat, [Next]_vars
  PROVE  now' \in Nat /\ now' >= now
<1>1. Crash => (now - FirstNow) % 5 \in 0..4 /\ now' = now + 5 - ((now - FirstNow) % 5)
  BY DayAssumption DEF Crash, NextPass
<1>2. CASE Crash
  <2> DEFINE step == (now - FirstNow) % 5
  <2>1. step \in Int /\ step >= 0 /\ step <= 4 /\ now' = now + 5 - step
    BY <1>1, <1>2
  <2> HIDE DEF step
  <2> QED BY <2>1
<1>3. now' = now \/ now' = now + 1 \/ Crash
  BY DEF Next, Moves, Pass, MarkMoves, PositionCloses, Deposit, AskConnection, OperatorClears,
         PressClear, PressMandate, FillArrives, Admit, DecideClear, ReadMandate, Tick, TickThrows,
         NothingToTick, Ingest, BeginWalk, ReadPage, Conclude, WalkThrows, vars, rowVars
<1> QED BY <1>2, <1>3

(* The decisions on presses: none is of an instant the web tier could not  *)
(* have stamped, and of what was refused there is an event.                *)
Horizon == now + MaxAhead

DecisionsAreKept ==
  /\ now \in Nat
  /\ \A e \in events : e.at \in Nat /\ e.at <= Horizon
  /\ clearAsk \in Int /\ clearAsk <= Horizon
  /\ \A c \in refused : c \in Int /\ \E e \in events : e.what = "unhalt-refused" /\ e.at >= c

LEMMA LastInstant ==
  ASSUME DecisionsAreKept, NEW whats, NEW otherwise, Instants(whats) # {}
  PROVE  /\ LastOf(Instants(whats), otherwise) \in Instants(whats)
         /\ \A t \in Instants(whats) : LastOf(Instants(whats), otherwise) >= t
<1> DEFINE T == Instants(whats)
<1>1. T \in SUBSET Int /\ (\A t \in T : t <= Horizon) /\ Horizon \in Int
  BY AskAssumption DEF Instants, DecisionsAreKept, Horizon
<1>2. LastOf(T, otherwise) = Max(T)
  BY DEF LastOf
<1> HIDE DEF T
<1> QED BY <1>1, <1>2, MaxOfBounded DEF T

EventsStep ==
  \/ UNCHANGED <<clearAsk, events, refused>>
  \/ /\ UNCHANGED <<clearAsk, refused>>
     /\ \E what \in EventKinds : events' = events \cup {Event(what, now)}
  \/ \E at \in Stamps : clearAsk' = at /\ UNCHANGED <<events, refused>>
  \/ DecideClear

LEMMA EventsMove == ASSUME [Next]_vars PROVE EventsStep
<1>1. CASE UNCHANGED vars
  BY <1>1 DEF vars, rowVars, requestVars, historyVars, EventsStep
<1>2. CASE MarkMoves \/ PositionCloses \/ AskConnection \/ NothingToTick \/ Crash \/ ReadMandate
  BY <1>2 DEF MarkMoves, PositionCloses, AskConnection, NothingToTick, Crash, ReadMandate,
              rowVars, requestVars, historyVars, EventsStep
<1>3. ASSUME NEW d, Deposit(d) PROVE EventsStep
  BY <1>3 DEF Deposit, rowVars, requestVars, historyVars, EventsStep
<1>4. ASSUME NEW at \in Stamps, PressClear(at) \/ PressMandate(at) PROVE EventsStep
  BY <1>4 DEF PressClear, PressMandate, rowVars, requestVars, historyVars, EventsStep
<1>5. ASSUME NEW sort, FillArrives(sort), UNCHANGED <<requestVars, historyVars>> PROVE EventsStep
  BY <1>5 DEF FillArrives, rowVars, requestVars, historyVars, EventsStep
<1>6. CASE OperatorClears
  BY <1>6 DEF OperatorClears, ClearHalt, requestVars, EventsStep, EventKinds
<1>7. CASE Admit
  BY <1>7 DEF Admit, Release, Connect, ConnectAccount, requestVars, historyVars, EventsStep, EventKinds
<1>8. CASE DecideClear
  BY <1>8 DEF EventsStep
<1>9. CASE Tick \/ TickThrows
  <2>1. UNCHANGED <<clearAsk, refused>>
    BY <1>9 DEF Tick, TickThrows, requestVars
  <2>2. UNCHANGED events \/ events' = events \cup {Event("halt", now)}
    BY <1>9 DEF Tick, TickThrows, HaltOn
  <2> QED BY <2>1, <2>2 DEF EventsStep, EventKinds
<1>10. CASE Ingest
  <2>1. UNCHANGED <<clearAsk, refused>>
    BY <1>10 DEF Ingest, requestVars
  <2>2. UNCHANGED events \/ events' = events \cup {Event("halt", now)}
    BY <1>10 DEF Ingest, BeginWalk, ReadPage, Conclude, WalkThrows, rowVars
  <2> QED BY <2>1, <2>2 DEF EventsStep, EventKinds
<1>11. CASE Moves
  BY <1>11, <1>2, <1>3, <1>4, <1>5, <1>6 DEF Moves
<1>12. CASE Pass
  BY <1>12, <1>2, <1>7, <1>8, <1>9, <1>10 DEF Pass
<1> QED BY <1>1, <1>11, <1>12 DEF Next

LEMMA StepsKeepDecisions ==
  ASSUME DecisionsAreKept, [Next]_vars
  PROVE  DecisionsAreKept'
<1>0. now \in Nat /\ now' \in Nat /\ now' >= now /\ MaxAhead \in Nat
  BY TimeRuns, AskAssumption DEF DecisionsAreKept
<1>a. /\ now <= Horizon /\ \A x \in Int : x <= Horizon => x <= Horizon'
  <2>1. now + MaxAhead \in Int /\ now' + MaxAhead \in Int
    BY <1>0
  <2>3. now <= now + MaxAhead
    BY <1>0
  <2>4. now + MaxAhead <= now' + MaxAhead
    <3>1. ASSUME NEW a \in Nat, NEW b \in Nat, NEW k \in Nat, b >= a PROVE a + k <= b + k
      BY <3>1
    <3> QED BY <1>0, <3>1
  <2>2. Horizon \in Int /\ Horizon' \in Int /\ now <= Horizon /\ Horizon <= Horizon'
    BY <2>1, <2>3, <2>4 DEF Horizon
  <2> QED BY <2>2
<1>1. CASE UNCHANGED <<clearAsk, events, refused>>
  BY <1>0, <1>a, <1>1 DEF DecisionsAreKept
<1>2. ASSUME UNCHANGED <<clearAsk, refused>>, NEW what \in EventKinds, events' = events \cup {Event(what, now)}
      PROVE  DecisionsAreKept'
  <2>1. Event(what, now).at = now
    BY DEF Event
  <2> QED BY <1>0, <1>a, <1>2, <2>1 DEF DecisionsAreKept
<1>3. ASSUME NEW at \in Stamps, clearAsk' = at, UNCHANGED <<events, refused>>
      PROVE  DecisionsAreKept'
  <2>1. at \in Int /\ at <= Horizon
    BY <1>0, <1>3 DEF Stamps, Horizon
  <2> QED BY <1>0, <1>a, <1>3, <2>1 DEF DecisionsAreKept
<1>4. CASE DecideClear
  <2> DEFINE at == Later(now, clearAsk)
  <2>1. /\ UNCHANGED clearAsk
        /\ \/ UNCHANGED <<events, refused>>
           \/ events' = events \cup {Event("unhalt", at)} /\ UNCHANGED refused
           \/ events' = events \cup {Event("unhalt-refused", at)} /\ refused' = refused \cup {clearAsk}
    BY <1>4 DEF DecideClear, ClearHalt, requestVars
  <2>2. at \in Nat /\ at <= Horizon /\ at >= clearAsk
    BY <1>0 DEF Later, Horizon, DecisionsAreKept
  <2>3. Event("unhalt-refused", at).what = "unhalt-refused" /\ Event("unhalt-refused", at).at = at
        /\ Event("unhalt", at).at = at
    BY DEF Event
  <2> HIDE DEF at
  <2> QED BY <1>0, <1>a, <2>1, <2>2, <2>3 DEF DecisionsAreKept
<1> QED BY <1>1, <1>2, <1>3, <1>4, EventsMove DEF EventsStep

(* A press that is taken is newer than every one that was refused.         *)
LEMMA RefusedAreOlder ==
  ASSUME DecisionsAreKept, clearAsk > LastDecision, clearAsk \in refused
  PROVE  FALSE
<1> DEFINE T == Instants({"unhalt", "unhalt-refused"})
<1>1. PICK e \in events : e.what = "unhalt-refused" /\ e.at >= clearAsk
  BY DEF DecisionsAreKept
<1>2. e.at \in T
  BY <1>1 DEF Instants
<1>3. LastDecision >= e.at /\ LastDecision \in T
  BY <1>2, LastInstant DEF LastDecision
<1>4. LastDecision \in Int /\ e.at \in Int /\ clearAsk \in Int
  BY <1>3 DEF Instants, DecisionsAreKept
<1> QED BY <1>1, <1>3, <1>4

(* What takes the halt off a row that stays.                               *)
LEMMA WhoClears ==
  ASSUME RowWhole, [Next]_vars, row.linked, row.halted, row'.linked, ~row'.halted
  PROVE  \/ OperatorClears
         \/ /\ DecideClear /\ ClearPending
            /\ MayClear("owner", Later(now, clearAsk), lastBeat)
<1> SUFFICES ASSUME ~OperatorClears
             PROVE  /\ DecideClear /\ ClearPending
                    /\ MayClear("owner", Later(now, clearAsk), lastBeat)
  OBVIOUS
<1>0. IsRow(row)
  BY DEF RowWhole
<1>1. CASE Admit
  BY <1>1 DEF Admit, Release, DisconnectAccount, NoRow, Connect, ConnectAccount
<1>2. CASE DecideClear
  BY <1>2 DEF DecideClear
<1>3. CASE ReadMandate
  BY <1>0, <1>3 DEF ReadMandate, ApplyMandate, IsRow
<1>4. CASE Tick \/ TickThrows
  <2>1. UNCHANGED row \/ \E found : HaltOn(RollDay(row, Equity), found)
    BY <1>4 DEF Tick, TickThrows
  <2>2. ASSUME NEW found, HaltOn(RollDay(row, Equity), found) PROVE row'.halted
    <3> DEFINE rolled == RollDay(row, Equity)
    <3>1. IsRow(rolled) /\ rolled.halted = row.halted
      BY <1>0, RollDayLemma
    <3>2. row' = SetHalt(rolled, found) \/ row' = rolled
      BY <2>2 DEF HaltOn
    <3> HIDE DEF rolled
    <3>3. row' = SetHalt(rolled, found) => row'.halted = TRUE
      BY <3>1, SetHaltLemma
    <3> QED BY <3>1, <3>2, <3>3
  <2> QED BY <2>1, <2>2
<1>5. CASE Conclude
  <2>1. row' = row \/ \E k : row' = SetHalt(row, k)
    BY <1>5 DEF Conclude
  <2>2. ASSUME NEW k, row' = SetHalt(row, k) PROVE row'.halted = TRUE
    BY <1>0, <2>2, SetHaltLemma
  <2> QED BY <2>1, <2>2
<1>6. CASE ~RowStep
  BY <1>6, OtherSteps
<1> QED BY <1>1, <1>2, <1>3, <1>4, <1>5, <1>6 DEF RowStep

-----------------------------------------------------------------------------
(* The day a halt fired on.  Where the clocks agree and an operator does   *)
(* not clear in the very instant of a tick, the events say which halt is   *)
(* in force: the first recorded after every clear.                         *)
Stands   == IF row.linked THEN row.halted ELSE saved.halted
KindNow  == IF row.linked THEN row.kind ELSE saved.kind
Noted(t) == /\ \E e \in events : e.what = "halt" /\ e.at = t
            /\ \A u \in events : u.what = "unhalt" => u.at < t

HaltsAreDated ==
  /\ managed => row.linked
  /\ walk.at # "idle" => row.linked /\ Step = "ingest"
  /\ firedOn = None \/ \E t \in Nat : t <= now /\ firedOn = Day(t)
  /\ \A u \in events : u.what = "unhalt" /\ Step = "tick" => u.at < now
  /\ ~Stands => \A t \in Nat : ~Noted(t)
  /\ Stands /\ KindNow = "untyped" => firedOn = None
  /\ Stands /\ KindNow = "daily-loss" /\ firedOn # None =>
       \E h \in Nat : Noted(h) /\ Day(h) = firedOn /\ \A t \in Nat : Noted(t) => h <= t

(* Then the halt the rule goes by is that one.                             *)
LEMMA HaltedAtIsNoted ==
  ASSUME DecisionsAreKept, NEW h \in Nat, Noted(h), \A t \in Nat : Noted(t) => h <= t
  PROVE  HaltedAt = h
<1> DEFINE since == LastOf(Instants({"unhalt"}), None)
           later == {t \in Instants({"halt"}) : t > since}
<1>1. since \in Int /\ (\A t \in Nat : (t > since) <=> \A u \in events : u.what = "unhalt" => u.at < t)
  <2>1. CASE Instants({"unhalt"}) = {}
    <3>1. since = -1
      BY <2>1 DEF LastOf, None
    <3>2. \A u \in events : u.what # "unhalt"
      BY <2>1 DEF Instants
    <3> QED BY <3>1, <3>2
  <2>2. CASE Instants({"unhalt"}) # {}
    <3>1. /\ since \in Instants({"unhalt"})
          /\ \A t \in Instants({"unhalt"}) : since >= t
      BY <2>2, LastInstant
    <3>2. PICK e \in events : e.what = "unhalt" /\ e.at = since
      BY <3>1 DEF Instants
    <3>3. \A u \in events : u.what = "unhalt" => u.at <= since /\ u.at \in Nat
      BY <3>1 DEF Instants, DecisionsAreKept
    <3> HIDE DEF since
    <3> QED BY <3>2, <3>3
  <2> QED BY <2>1, <2>2
<1>2. later = {t \in Nat : Noted(t)}
  <2>1. \A t : t \in Instants({"halt"}) <=> \E e \in events : e.what = "halt" /\ e.at = t
    BY DEF Instants
  <2>2. Instants({"halt"}) \subseteq Nat
    BY DEF Instants, DecisionsAreKept
  <2> HIDE DEF since
  <2> QED BY <1>1, <2>1, <2>2 DEF Noted
<1>3. Min(later) \in later /\ \A t \in later : Min(later) <= t
  <2>1. later \in SUBSET Nat /\ later # {}
    BY <1>2
  <2> HIDE DEF later
  <2> QED BY <2>1, MinOfNaturals
<1>4. HaltedAt = Min(later)
  BY <1>2 DEF HaltedAt
<1> HIDE DEF later
<1> QED BY <1>2, <1>3, <1>4

AtOneTime == MaxAhead = 0 /\ "tick" \notin Between

Seated == /\ managed => row.linked
          /\ walk.at # "idle" => row.linked /\ Step = "ingest"

Of(what, es) == {e \in es : e.what = what}

(* A step that records no halt and no clear, and neither halts nor clears. *)
CalmStep ==
  /\ UNCHANGED firedOn
  /\ Of("halt", events') = Of("halt", events) /\ Of("unhalt", events') = Of("unhalt", events)
  /\ Stands' = Stands
  /\ Stands => KindNow' = KindNow \/ firedOn = None \/ KindNow' \in StrictKinds

LEMMA NotedOf ==
  ASSUME NEW t
  PROVE  /\ Noted(t) <=> /\ \E e \in Of("halt", events) : e.at = t
                         /\ \A u \in Of("unhalt", events) : u.at < t
         /\ Noted(t)' <=> /\ \E e \in Of("halt", events') : e.at = t
                          /\ \A u \in Of("unhalt", events') : u.at < t
BY DEF Noted, Of

(* The clears recorded before a tick are of earlier instants.              *)
LEMMA ClearsAreEarlier ==
  ASSUME AtOneTime, DecisionsAreKept, HaltsAreDated, [Next]_vars,
         NEW u \in events, u.what = "unhalt", Step' = "tick"
  PROVE  u.at < now'
<1>0. now \in Nat /\ now' \in Nat /\ now' >= now
  BY TimeRuns DEF DecisionsAreKept
<1>1. CASE now' = now
  BY <1>1 DEF HaltsAreDated, Step
<1>2. CASE now' # now
  <2>1. u.at \in Nat /\ u.at <= now
    BY DEF AtOneTime, DecisionsAreKept, Horizon
  <2> QED BY <2>1, <1>2, <1>0
<1> QED BY <1>1, <1>2

LEMMA CalmKeepsDates ==
  ASSUME AtOneTime, DecisionsAreKept, HaltsAreDated, [Next]_vars, CalmStep, Seated'
  PROVE  HaltsAreDated'
<1>0. now \in Nat /\ now' \in Nat /\ now' >= now
  BY TimeRuns DEF DecisionsAreKept
<1>1. UNCHANGED firedOn /\ \A t : Noted(t)' <=> Noted(t)
  BY NotedOf DEF CalmStep
<1>2. firedOn' = None \/ \E t \in Nat : t <= now' /\ firedOn' = Day(t)
  BY <1>0, <1>1 DEF HaltsAreDated
<1>3. \A u \in events' : u.what = "unhalt" /\ Step' = "tick" => u.at < now'
  BY ClearsAreEarlier DEF CalmStep, Of
<1>4. ~Stands' => \A t \in Nat : ~Noted(t)'
  BY <1>1 DEF CalmStep, HaltsAreDated
<1>5. Stands' /\ KindNow' = "untyped" => firedOn' = None
  BY <1>1, StrictIsTyped DEF CalmStep, HaltsAreDated
<1>6. Stands' /\ KindNow' = "daily-loss" /\ firedOn' # None =>
        \E h \in Nat : Noted(h)' /\ Day(h) = firedOn' /\ \A t \in Nat : Noted(t)' => h <= t
  BY <1>1, StrictIsTyped DEF CalmStep, HaltsAreDated
<1> QED BY <1>2, <1>3, <1>4, <1>5, <1>6 DEF HaltsAreDated, Seated

(* A halt is recorded on an account that is halted already.                *)
LEMMA HaltedAgainKeepsDates ==
  ASSUME AtOneTime, DecisionsAreKept, HaltsAreDated, [Next]_vars, Seated',
         UNCHANGED firedOn, events' = events \cup {Event("halt", now)},
         Stands, Stands', KindNow' = KindNow \/ KindNow' \in StrictKinds
  PROVE  HaltsAreDated'
<1>0. now \in Nat /\ now' \in Nat /\ now' >= now
  BY TimeRuns DEF DecisionsAreKept
<1>1. firedOn' = None \/ \E t \in Nat : t <= now' /\ firedOn' = Day(t)
  BY <1>0 DEF HaltsAreDated
<1>2. Event("halt", now).what = "halt" /\ Event("halt", now).at = now
  BY DEF Event
<1>3. \A u \in events' : u.what = "unhalt" /\ Step' = "tick" => u.at < now'
  BY ClearsAreEarlier, <1>2
<1>4. \A t \in Nat : /\ Noted(t) => Noted(t)' /\ t <= now
                     /\ Noted(t)' => Noted(t) \/ t = now
  BY <1>0, <1>2 DEF Noted, AtOneTime, DecisionsAreKept, Horizon
<1>5. Stands' /\ KindNow' = "untyped" => firedOn' = None
  BY StrictIsTyped DEF HaltsAreDated
<1>6. Stands' /\ KindNow' = "daily-loss" /\ firedOn' # None =>
        \E h \in Nat : Noted(h)' /\ Day(h) = firedOn' /\ \A t \in Nat : Noted(t)' => h <= t
  <2> SUFFICES ASSUME KindNow' = "daily-loss", firedOn' # None
               PROVE  \E h \in Nat : Noted(h)' /\ Day(h) = firedOn' /\ \A t \in Nat : Noted(t)' => h <= t
    OBVIOUS
  <2>1. PICK h \in Nat : Noted(h) /\ Day(h) = firedOn /\ \A t \in Nat : Noted(t) => h <= t
    BY StrictIsTyped DEF HaltsAreDated
  <2> QED BY <2>1, <1>4
<1> QED BY <1>1, <1>3, <1>5, <1>6 DEF HaltsAreDated, Seated

(* A tick or a walk halts an account that is not: nothing was noted since  *)
(* the last clear, so this halt is the first.                              *)
LEMMA FreshHaltKeepsDates ==
  ASSUME AtOneTime, DecisionsAreKept, HaltsAreDated, [Next]_vars, Seated',
         firedOn' = Day(now), events' = events \cup {Event("halt", now)},
         ~Stands, Stands', KindNow' # "untyped", KindNow' \in StrictKinds \/ Step = "tick"
  PROVE  HaltsAreDated'
<1>0. now \in Nat /\ now' \in Nat /\ now' >= now
  BY TimeRuns DEF DecisionsAreKept
<1>1. \E t \in Nat : t <= now' /\ firedOn' = Day(t)
  BY <1>0
<1>2. Event("halt", now).what = "halt" /\ Event("halt", now).at = now
  BY DEF Event
<1>3. \A u \in events' : u.what = "unhalt" /\ Step' = "tick" => u.at < now'
  BY ClearsAreEarlier, <1>2
<1>4. \A t \in Nat : Noted(t)' => t = now
  <2> SUFFICES ASSUME NEW t \in Nat, Noted(t)', t # now PROVE Noted(t)
    BY DEF HaltsAreDated
  <2> QED BY <1>2 DEF Noted
<1>5. ASSUME Step = "tick", NEW h \in Nat, h = now PROVE Noted(h)'
  <2>1. \A u \in events : u.what = "unhalt" => u.at < h
    BY <1>5 DEF HaltsAreDated
  <2> QED BY <1>2, <1>5, <2>1 DEF Noted
<1>6. KindNow' = "daily-loss" /\ firedOn' # None =>
        \E h \in Nat : Noted(h)' /\ Day(h) = firedOn' /\ \A t \in Nat : Noted(t)' => h <= t
  <2> SUFFICES ASSUME KindNow' = "daily-loss"
               PROVE  \E h \in Nat : Noted(h)' /\ Day(h) = firedOn' /\ \A t \in Nat : Noted(t)' => h <= t
    OBVIOUS
  <2>1. PICK h \in Nat : h = now
    BY <1>0
  <2>2. Noted(h)'
    BY <2>1, <1>5, StrictIsTyped
  <2> QED BY <2>1, <2>2, <1>4
<1> QED BY <1>1, <1>3, <1>6 DEF HaltsAreDated, Seated

(* A clear is recorded, of the instant it is made.                         *)
LEMMA ClearKeepsDates ==
  ASSUME AtOneTime, DecisionsAreKept, HaltsAreDated, [Next]_vars, Seated',
         firedOn' = None, events' = events \cup {Event("unhalt", now)}, ~Stands',
         Step' = "tick" => now' > now
  PROVE  HaltsAreDated'
<1>0. now \in Nat /\ now' \in Nat /\ now' >= now
  BY TimeRuns DEF DecisionsAreKept
<1>1. Event("unhalt", now).what = "unhalt" /\ Event("unhalt", now).at = now
  BY DEF Event
<1>2. \A u \in events' : u.what = "unhalt" /\ Step' = "tick" => u.at < now'
  <2> SUFFICES ASSUME NEW u \in events', u.what = "unhalt", Step' = "tick" PROVE u.at < now'
    OBVIOUS
  <2>1. CASE u \in events
    BY <2>1, ClearsAreEarlier
  <2>2. CASE u = Event("unhalt", now)
    BY <2>2, <1>0, <1>1
  <2> QED BY <2>1, <2>2
<1>3. \A t \in Nat : ~Noted(t)'
  <2> SUFFICES ASSUME NEW t \in Nat, Noted(t)' PROVE FALSE
    OBVIOUS
  <2>1. PICK e \in events' : e.what = "halt" /\ e.at = t
    BY DEF Noted
  <2>2. e \in events /\ e.at <= now
    BY <2>1, <1>0, <1>1 DEF AtOneTime, DecisionsAreKept, Horizon
  <2>3. now < t
    BY <1>1 DEF Noted
  <2> QED BY <2>1, <2>2, <2>3, <1>0
<1> QED BY <1>2, <1>3 DEF HaltsAreDated, Seated

LEMMA NothingHappens ==
  ASSUME UNCHANGED <<row, saved, events, firedOn>>
  PROVE  CalmStep
BY DEF CalmStep, Stands, KindNow

(* Nobody else acts in front of a tick, and a walk is over when its slot   *)
(* is.                                                                     *)
LEMMA SeatsAreKept ==
  ASSUME AtOneTime, RowWhole, HaltsAreDated, [Next]_vars
  PROVE  Seated'
<1>0. IsRow(row) /\ Seated
  BY DEF RowWhole, HaltsAreDated, Seated
<1>1. CASE UNCHANGED <<now, row, managed, walk>>
  BY <1>0, <1>1 DEF Seated, Step
<1>2. CASE MarkMoves \/ PositionCloses \/ AskConnection
  BY <1>1, <1>2 DEF MarkMoves, PositionCloses, AskConnection, rowVars, ingestVars, processVars
<1>3. ASSUME NEW d, Deposit(d) PROVE UNCHANGED <<now, row, managed, walk>>
  BY <1>3 DEF Deposit, rowVars, ingestVars, processVars
<1>4. ASSUME NEW at, PressClear(at) \/ PressMandate(at) PROVE UNCHANGED <<now, row, managed, walk>>
  BY <1>4 DEF PressClear, PressMandate, rowVars, ingestVars, processVars
<1>5. ASSUME NEW sort, FillArrives(sort), UNCHANGED processVars PROVE UNCHANGED <<now, row, managed, walk>>
  BY <1>5 DEF FillArrives, rowVars, processVars
<1>6. CASE OperatorClears
  <2>1. row'.linked = row.linked
    BY <1>0, <1>6 DEF OperatorClears, ClearHalt, IsRow
  <2> QED BY <1>0, <1>6, <2>1 DEF OperatorClears, Seated, Step, ingestVars, processVars
<1>7. CASE Step # "ingest" /\ walk' = walk /\ (managed' => row'.linked)
  BY <1>0, <1>7 DEF Seated
<1>8. CASE Admit
  <2>1. Step # "ingest" /\ walk' = walk
    BY <1>8 DEF Admit
  <2>2. Release => managed' = FALSE
    BY DEF Release
  <2>3. Connect => row'.linked
    BY DEF Connect, ConnectAccount, Written
  <2>4. UNCHANGED <<row, processVars>> => (managed' => row'.linked)
    BY <1>0 DEF processVars, Seated
  <2> QED BY <1>7, <1>8, <2>1, <2>2, <2>3, <2>4 DEF Admit
<1>9. CASE DecideClear \/ ReadMandate
  <2>1. Step # "ingest" /\ walk' = walk /\ managed' = managed
    BY <1>9 DEF DecideClear, ReadMandate, ingestVars, processVars
  <2>2. row'.linked = row.linked
    BY <1>0, <1>9 DEF DecideClear, ReadMandate, ClearHalt, ApplyMandate, IsRow
  <2> QED BY <1>0, <1>7, <2>1, <2>2 DEF Seated
<1>10. CASE Tick \/ TickThrows
  <2>1. Step # "ingest" /\ walk' = walk /\ managed' = managed
    BY <1>10 DEF Tick, TickThrows, ingestVars
  <2>2. UNCHANGED row \/ \E found : HaltOn(RollDay(row, Equity), found)
    BY <1>10 DEF Tick, TickThrows
  <2>3. ASSUME NEW found, HaltOn(RollDay(row, Equity), found) PROVE row'.linked = row.linked
    <3> DEFINE rolled == RollDay(row, Equity)
    <3>1. IsRow(rolled) /\ rolled.linked = row.linked
      BY <1>0, RollDayLemma
    <3> HIDE DEF rolled
    <3>2. HaltOn(rolled, found)
      BY <2>3 DEF rolled
    <3> QED BY <3>1, <3>2, HaltOnLemma
  <2> QED BY <1>0, <1>7, <2>1, <2>2, <2>3 DEF Seated
<1>11. CASE NothingToTick
  <2>1. Step # "ingest" /\ UNCHANGED <<row, managed, walk>>
    BY <1>11 DEF NothingToTick, ingestVars, processVars
  <2> QED BY <1>0, <1>7, <2>1 DEF Seated
<1>12. CASE Crash
  BY <1>12 DEF Crash, NoWalk, Seated
<1>13. CASE Ingest
  <2>1. managed' = managed /\ Step = "ingest"
    BY <1>13 DEF Ingest, processVars
  <2>2. CASE (managed /\ BeginWalk) \/ ReadPage
    <3>1. UNCHANGED <<now, row>> /\ (managed \/ walk.at # "idle")
      BY <2>2 DEF BeginWalk, ReadPage, rowVars
    <3>2. row.linked /\ Step' = "ingest"
      BY <1>0, <2>1, <2>2, <3>1 DEF Seated, Step
    <3> QED BY <2>1, <3>1, <3>2 DEF Seated
  <2>3. CASE Conclude
    <3>1. walk'.at = "idle" /\ row'.linked = row.linked
      BY <1>0, <2>3 DEF Conclude, NoWalk, SetHalt, IsRow
    <3> QED BY <1>0, <2>1, <3>1 DEF Seated
  <2>4. CASE WalkThrows
    BY <1>0, <2>1, <2>4 DEF WalkThrows, NoWalk, Seated
  <2>5. CASE walk.at = "idle" /\ UNCHANGED <<row, ingestVars>>
    BY <1>0, <2>1, <2>5 DEF Seated, ingestVars
  <2> QED BY <1>13, <2>2, <2>3, <2>4, <2>5 DEF Ingest
<1>14. CASE UNCHANGED vars
  BY <1>1, <1>14 DEF vars, rowVars, ingestVars, processVars
<1>15. CASE Moves
  BY <1>15, <1>1, <1>2, <1>3, <1>4, <1>5, <1>6 DEF Moves
<1>16. CASE Pass
  BY <1>16, <1>8, <1>9, <1>10, <1>11, <1>12, <1>13 DEF Pass
<1> QED BY <1>14, <1>15, <1>16 DEF Next

LEMMA HaltIsWritten ==
  ASSUME NEW r, IsRow(r), NEW k, row' = SetHalt(r, k)
  PROVE  row'.halted = TRUE /\ row'.kind = k /\ row'.linked = r.linked
<1>1. PICK s : s = row'
  OBVIOUS
<1>2. s = SetHalt(r, k)
  BY <1>1
<1>3. s.halted = TRUE /\ s.kind = k /\ s.linked = r.linked
  BY <1>2 DEF SetHalt, IsRow
<1> QED BY <1>1, <1>3

(* What a tick writes of the halts: nothing, a kind on a halt that had     *)
(* none, or the first halt of its day.                                     *)
LEMMA HaltOnKeepsDates ==
  ASSUME AtOneTime, DecisionsAreKept, HaltsAreDated, RowWhole, [Next]_vars,
         Step = "tick", managed, UNCHANGED saved,
         NEW found, found \in StrictKinds \cup {"none", "daily-loss"},
         HaltOn(RollDay(row, Equity), found)
  PROVE  HaltsAreDated'
<1> DEFINE rolled == RollDay(row, Equity)
<1>0. IsRow(row) /\ row.linked /\ Seated'
  BY SeatsAreKept DEF RowWhole, HaltsAreDated
<1>1. IsRow(rolled) /\ rolled.linked = row.linked /\ rolled.halted = row.halted /\ rolled.kind = row.kind
  BY <1>0, RollDayLemma
<1>2. HaltOn(rolled, found)
  OBVIOUS
<1> HIDE DEF rolled
<1>3. row'.linked = row.linked
  BY <1>1, <1>2, HaltOnLemma
<1>4. Stands = row.halted /\ KindNow = row.kind /\ Stands' = row'.halted /\ KindNow' = row'.kind
  BY <1>0, <1>3 DEF Stands, KindNow
<1>5. CASE /\ found # "none" /\ ~rolled.halted
           /\ row' = SetHalt(rolled, found)
           /\ events' = events \cup {Event("halt", now)}
           /\ firedOn' = Day(now)
  <2>1. row'.halted = TRUE /\ row'.kind = found
    BY <1>1, <1>5, HaltIsWritten
  <2>2. ~Stands /\ Stands' /\ KindNow' # "untyped"
    BY <1>1, <1>4, <1>5, <2>1, StrictIsTyped
  <2> QED BY <1>0, <1>5, <2>2, FreshHaltKeepsDates
<1>6. CASE /\ found # "none" /\ rolled.halted /\ rolled.kind = "untyped"
           /\ row' = SetHalt(rolled, found)
           /\ UNCHANGED <<events, firedOn>>
  <2>1. row'.halted = TRUE /\ row'.kind = found
    BY <1>1, <1>6, HaltIsWritten
  <2>2. Stands /\ Stands' /\ firedOn = None
    BY <1>1, <1>4, <1>6, <2>1 DEF HaltsAreDated
  <2>3. Stands' = Stands
    BY <2>1, <1>1, <1>4, <1>6, <2>2 DEF Stands
  <2> QED BY <1>0, <1>6, <2>2, <2>3, CalmKeepsDates DEF CalmStep
<1>7. CASE row' = rolled /\ UNCHANGED <<events, firedOn>>
  <2>1. Stands' = Stands /\ KindNow' = KindNow
    BY <1>1, <1>4, <1>7
  <2> QED BY <1>0, <1>7, <2>1, CalmKeepsDates DEF CalmStep
<1> QED BY <1>2, <1>5, <1>6, <1>7 DEF HaltOn

(* What a walk writes of them: the news are strangers', and their halt     *)
(* takes the place of a halt that stands.                                  *)
LEMMA ConcludeKeepsDates ==
  ASSUME AtOneTime, DecisionsAreKept, HaltsAreDated, RowWhole, [Next]_vars,
         Conclude, firedOn' = IF row'.halted /\ ~row.halted THEN Day(now) ELSE firedOn
  PROVE  HaltsAreDated'
<1>0. IsRow(row) /\ row.linked /\ Seated' /\ UNCHANGED saved
  BY SeatsAreKept DEF RowWhole, HaltsAreDated, Conclude
<1>1. CASE UNCHANGED <<row, events>>
  <2>1. UNCHANGED firedOn
    BY <1>1
  <2> QED BY <1>0, <1>1, <2>1, NothingHappens, CalmKeepsDates
<1>2. CASE row' = SetHalt(row, KindOf(walk.news)) /\ events' = events \cup {Event("halt", now)}
  <2>1. row'.halted = TRUE /\ row'.linked /\ row'.kind \in StrictKinds
    BY <1>0, <1>2, HaltIsWritten, NewsIsStrict
  <2>2. (Stands <=> row.halted) /\ Stands' /\ KindNow' \in StrictKinds
    BY <1>0, <2>1 DEF Stands, KindNow
  <2>3. CASE row.halted
    <3>1. UNCHANGED firedOn
      BY <2>3
    <3> QED BY <1>0, <1>2, <2>2, <2>3, <3>1, HaltedAgainKeepsDates
  <2>4. CASE ~row.halted
    <3>1. firedOn' = Day(now)
      BY <2>1, <2>4
    <3>2. KindNow' # "untyped"
      BY <2>2, StrictIsTyped
    <3> QED BY <1>0, <1>2, <2>2, <2>4, <3>1, <3>2, FreshHaltKeepsDates
  <2> QED BY <2>3, <2>4
<1> QED BY <1>1, <1>2 DEF Conclude

(* An unlink puts the halt by, and the connect after it takes it out.      *)
LEMMA AdmitKeepsDates ==
  ASSUME AtOneTime, DecisionsAreKept, HaltsAreDated, RowWhole, [Next]_vars, Admit
  PROVE  HaltsAreDated'
<1>0. IsRow(row) /\ Seated'
  BY SeatsAreKept DEF RowWhole
<1>1. CASE Release
  <2>1. /\ row.linked /\ row'.linked = FALSE /\ UNCHANGED <<events, firedOn>>
        /\ saved'.halted = row.halted /\ saved'.kind = row.kind
    BY <1>1 DEF Release, DisconnectAccount, NoRow
  <2>2. Stands' = Stands /\ KindNow' = KindNow
    BY <2>1 DEF Stands, KindNow
  <2> QED BY <1>0, <2>1, <2>2, CalmKeepsDates DEF CalmStep
<1>2. CASE Connect
  <2>1. UNCHANGED <<saved, firedOn>>
    BY <1>2 DEF Connect, historyVars
  <2>2. CASE row.linked
    <3>1. UNCHANGED <<row, events>>
      BY <1>2, <2>2 DEF Connect, ConnectAccount
    <3> QED BY <1>0, <2>1, <3>1, NothingHappens, CalmKeepsDates
  <2>3. CASE ~row.linked
    <3>1. /\ row' = Written
          /\ events' = IF saved.halted THEN events \cup {Event("halt", now)} ELSE events
      BY <1>2, <2>3 DEF Connect, ConnectAccount
    <3>2. row'.linked /\ row'.halted = saved.halted /\ row'.kind = saved.kind
      BY <3>1 DEF Written
    <3>3. Stands' = Stands /\ KindNow' = KindNow /\ (Stands <=> saved.halted)
      BY <2>3, <3>2 DEF Stands, KindNow
    <3>4. CASE saved.halted
      <4>1. events' = events \cup {Event("halt", now)} /\ Stands /\ Stands'
        BY <3>1, <3>3, <3>4
      <4> QED BY <1>0, <2>1, <3>3, <4>1, HaltedAgainKeepsDates
    <3>5. CASE ~saved.halted
      BY <1>0, <2>1, <3>1, <3>3, <3>5, CalmKeepsDates DEF CalmStep
    <3> QED BY <3>4, <3>5
  <2> QED BY <2>2, <2>3
<1>3. CASE UNCHANGED <<row, saved, events, historyVars>>
  BY <1>0, <1>3, NothingHappens, CalmKeepsDates DEF historyVars
<1> QED BY <1>1, <1>2, <1>3 DEF Admit

(* A clear, by an operator or by the owner.                                *)
LEMMA ClearsKeepDates ==
  ASSUME AtOneTime, DecisionsAreKept, HaltsAreDated, RowWhole, [Next]_vars,
         (Step \in Between /\ OperatorClears) \/ DecideClear
  PROVE  HaltsAreDated'
<1>0. IsRow(row) /\ Seated' /\ now \in Nat
  BY SeatsAreKept DEF RowWhole, DecisionsAreKept
<1>1. CASE Step \in Between /\ OperatorClears
  <2>1. /\ UNCHANGED now /\ firedOn' = None /\ events' = events \cup {Event("unhalt", now)}
        /\ row' = [row EXCEPT !.halted = FALSE, !.kind = "untyped"] /\ row.linked
    BY <1>1 DEF OperatorClears, ClearHalt
  <2>2. row'.linked = row.linked /\ row'.halted = FALSE
    BY <1>0, <2>1 DEF IsRow
  <2>3. ~Stands'
    BY <2>1, <2>2 DEF Stands
  <2>4. Step' # "tick"
    BY <1>1, <2>1 DEF AtOneTime, Step
  <2> QED BY <1>0, <2>1, <2>3, <2>4, ClearKeepsDates
<1>2. CASE DecideClear
  <2> DEFINE at == Later(now, clearAsk)
  <2>0. UNCHANGED saved /\ now' = now + 1
    BY <1>2 DEF DecideClear
  <2>1. CASE UNCHANGED <<row, events, firedOn>>
    BY <1>0, <2>0, <2>1, NothingHappens, CalmKeepsDates
  <2>2. CASE /\ ClearPending /\ firedOn' = None /\ events' = events \cup {Event("unhalt", at)}
             /\ row' = [row EXCEPT !.halted = FALSE, !.kind = "untyped"]
    <3>1. at = now
      BY <1>0 DEF Later, AtOneTime, DecisionsAreKept, Horizon
    <3>2. row.linked /\ row'.linked = row.linked /\ row'.halted = FALSE
      BY <1>0, <2>2 DEF IsRow, ClearPending
    <3>3. ~Stands'
      BY <3>2 DEF Stands
    <3>4. now' > now
      BY <1>0, <2>0
    <3> HIDE DEF at
    <3>5. events' = events \cup {Event("unhalt", now)}
      BY <2>2, <3>1
    <3> QED BY <1>0, <2>2, <3>3, <3>4, <3>5, ClearKeepsDates
  <2>3. CASE UNCHANGED <<row, firedOn>> /\ events' = events \cup {Event("unhalt-refused", at)}
    <3>1. Event("unhalt-refused", at).what = "unhalt-refused"
      BY DEF Event
    <3>2. Of("halt", events') = Of("halt", events) /\ Of("unhalt", events') = Of("unhalt", events)
      <4> HIDE DEF at
      <4> QED BY <2>3, <3>1 DEF Of
    <3>3. CalmStep
      BY <2>0, <2>3, <3>2 DEF CalmStep, Stands, KindNow
    <3> QED BY <1>0, <3>3, CalmKeepsDates
  <2> QED BY <1>2, <2>1, <2>2, <2>3 DEF DecideClear, ClearHalt
<1> QED BY <1>1, <1>2

LEMMA StepsKeepDates ==
  ASSUME AtOneTime, DecisionsAreKept, HaltsAreDated, RowWhole, [Next]_vars
  PROVE  HaltsAreDated'
<1>0. IsRow(row) /\ Seated'
  BY SeatsAreKept DEF RowWhole
<1>1. CASE UNCHANGED <<row, saved, events, firedOn>>
  BY <1>0, <1>1, NothingHappens, CalmKeepsDates
<1>2. CASE UNCHANGED vars
  BY <1>1, <1>2 DEF vars, rowVars, historyVars
<1>3. CASE MarkMoves \/ PositionCloses \/ AskConnection \/ NothingToTick \/ Crash
  BY <1>1, <1>3 DEF MarkMoves, PositionCloses, AskConnection, NothingToTick, Crash,
                    rowVars, historyVars
<1>4. ASSUME NEW d, Deposit(d) PROVE HaltsAreDated'
  BY <1>1, <1>4 DEF Deposit, rowVars, historyVars
<1>5. ASSUME NEW at, PressClear(at) \/ PressMandate(at) PROVE HaltsAreDated'
  BY <1>1, <1>5 DEF PressClear, PressMandate, rowVars, historyVars
<1>6. ASSUME NEW sort, FillArrives(sort), UNCHANGED historyVars PROVE HaltsAreDated'
  BY <1>1, <1>6 DEF FillArrives, rowVars, historyVars
<1>7. CASE (Step \in Between /\ OperatorClears) \/ DecideClear
  BY <1>7, ClearsKeepDates
<1>8. CASE Admit
  BY <1>8, AdmitKeepsDates
<1>9. CASE ReadMandate
  <2>1. UNCHANGED <<saved, events, firedOn>>
    BY <1>9 DEF ReadMandate
  <2>2. row'.linked = row.linked /\ row'.halted = row.halted /\ row'.kind = row.kind
    BY <1>0, <1>9 DEF ReadMandate, ApplyMandate, IsRow
  <2>3. CalmStep
    BY <2>1, <2>2 DEF CalmStep, Stands, KindNow
  <2> QED BY <1>0, <2>3, CalmKeepsDates
<1>10. CASE Tick \/ TickThrows
  <2>1. Step = "tick" /\ managed /\ UNCHANGED saved
    BY <1>10 DEF Tick, TickThrows
  <2>2. \/ UNCHANGED <<row, events, firedOn>>
        \/ \E strange \in Strange : HaltOn(RollDay(row, Equity), Found(RollDay(row, Equity), strange))
    BY <1>10 DEF Tick, TickThrows
  <2>3. ASSUME NEW strange \in Strange, HaltOn(RollDay(row, Equity), Found(RollDay(row, Equity), strange))
        PROVE  HaltsAreDated'
    <3> DEFINE found == Found(RollDay(row, Equity), strange)
    <3>1. found \in StrictKinds \cup {"none", "daily-loss"}
      BY StrangeAssumption DEF Found, StrictKinds
    <3> HIDE DEF found
    <3>2. HaltOn(RollDay(row, Equity), found)
      BY <2>3 DEF found
    <3> QED BY <2>1, <3>1, <3>2, HaltOnKeepsDates
  <2> QED BY <1>1, <2>1, <2>2, <2>3
<1>11. CASE Ingest
  <2>1. CASE Conclude /\ firedOn' = IF row'.halted /\ ~row.halted THEN Day(now) ELSE firedOn
    BY <2>1, ConcludeKeepsDates
  <2>2. CASE (BeginWalk \/ ReadPage \/ WalkThrows) /\ UNCHANGED firedOn
    BY <1>1, <2>2 DEF BeginWalk, ReadPage, WalkThrows, rowVars
  <2> QED BY <1>1, <1>11, <2>1, <2>2 DEF Ingest
<1>12. CASE Step \in Between /\ Moves
  BY <1>12, <1>3, <1>4, <1>5, <1>6, <1>7 DEF Moves
<1>13. CASE Pass
  BY <1>13, <1>3, <1>7, <1>8, <1>9, <1>10, <1>11 DEF Pass
<1> QED BY <1>2, <1>12, <1>13 DEF Next

LEMMA ClearsInitially ==
  ASSUME Init
  PROVE  DecisionsAreKept /\ HaltsAreDated
<1>1. now \in Nat /\ events = {} /\ clearAsk = -1 /\ refused = {} /\ managed = FALSE
      /\ walk.at = "idle" /\ firedOn = None
  BY DayAssumption DEF Init, RowInit, IngestInit, NoWalk, None
<1>2. clearAsk <= Horizon
  <2>1. MaxAhead \in Nat
    BY AskAssumption
  <2> QED BY <1>1, <2>1 DEF Horizon
<1>3. DecisionsAreKept
  BY <1>1, <1>2 DEF DecisionsAreKept
<1>4. HaltsAreDated
  BY <1>1 DEF HaltsAreDated, Noted
<1> QED BY <1>3, <1>4

(* A press of Clear that takes a halt off, by the owner or by an operator, *)
(* where the clocks agree and nobody else acts between a tick's read of    *)
(* the clock and its write (exec/changes.ts, serviceUnhalt; risk/halt.ts,  *)
(* canClearHalt; db.ts, haltedAt and lastHaltDecisionAt).                  *)
LEMMA StepsAreEarned ==
  ASSUME AtOneTime, DecisionsAreKept, HaltsAreDated, RowWhole, [Next]_vars
  PROVE  /\ DailyLossCleared => firedOn < Day(now)
         /\ ClearedByPress => clearAsk \notin refused
<1>0. now \in Nat
  BY DEF DecisionsAreKept
<1>1. ASSUME DailyLossCleared PROVE firedOn < Day(now)
  <2> DEFINE at == IF OperatorClears THEN now ELSE Later(now, clearAsk)
  <2>0. row.linked /\ row.halted /\ row.kind = "daily-loss" /\ row'.linked /\ ~row'.halted
    BY <1>1 DEF DailyLossCleared
  <2>1. \E actor \in {"operator", "owner"}, equity \in {heartbeat, lastBeat} : MayClear(actor, now, equity)
    <3>1. Later(now, clearAsk) = now
      BY <1>0 DEF Later, AtOneTime, DecisionsAreKept, Horizon
    <3> QED BY <2>0, <3>1, WhoClears DEF OperatorClears
  <2>2. \E equity \in {heartbeat, lastBeat} : Expired(now, equity)
    BY <2>0, <2>1, StrictIsTyped DEF MayClear
  <2>3. HaltedAt # None => Day(HaltedAt) # Day(now)
    BY <2>2 DEF Expired
  <2>4. CASE firedOn = None
    <3>1. Day(now) \in Nat
      BY <1>0, DaysFollow
    <3> QED BY <2>4, <3>1 DEF None
  <2>5. CASE firedOn # None
    <3>1. PICK t \in Nat : t <= now /\ firedOn = Day(t)
      BY <2>5 DEF HaltsAreDated
    <3>2. Day(t) \in Nat /\ Day(now) \in Nat /\ Day(t) <= Day(now)
      BY <1>0, <3>1, DaysFollow
    <3>3. PICK h \in Nat : Noted(h) /\ Day(h) = firedOn /\ \A x \in Nat : Noted(x) => h <= x
      BY <2>0, <2>5 DEF HaltsAreDated, Stands, KindNow
    <3>4. HaltedAt = h
      BY <3>3, HaltedAtIsNoted
    <3>5. firedOn # Day(now)
      BY <2>3, <3>3, <3>4 DEF None
    <3> QED BY <3>1, <3>2, <3>5
  <2> QED BY <2>4, <2>5
<1>2. ASSUME ClearedByPress PROVE clearAsk \notin refused
  <2>1. ~OperatorClears
    BY <1>2 DEF ClearedByPress, OperatorClears
  <2>2. row.linked
    <3>1. Step = "clear" /\ row' # row
      BY <1>2 DEF ClearedByPress
    <3>2. DecideClear
      BY <3>1, <2>1, OtherSteps DEF RowStep, Admit, ReadMandate, Tick, TickThrows
    <3> QED BY <3>1, <3>2 DEF DecideClear, ClearPending
  <2>3. ClearPending
    BY <1>2, <2>1, <2>2, WhoClears DEF ClearedByPress
  <2> QED BY <2>3, RefusedAreOlder DEF ClearPending
<1> QED BY <1>1, <1>2

(* An owner's Clear takes the end of the day its halt fired on and a press *)
(* nobody refused: the rule reads the instant of the halt back from the    *)
(* events, and it is the day the halt in force fired on, through every     *)
(* unlink, reconnect and crash in between (risk/halt.ts, canClearHalt).    *)
THEOREM ClearsMustBeEarned ==
  ASSUME MaxAhead = 0, "tick" \notin Between
  PROVE  Spec => ClearsAreEarned
<1>0. AtOneTime
  BY DEF AtOneTime
<1>1. Init => DecisionsAreKept /\ HaltsAreDated
  BY ClearsInitially
<1>2. DecisionsAreKept /\ [Next]_vars => DecisionsAreKept'
  BY StepsKeepDecisions
<1>3. DecisionsAreKept /\ HaltsAreDated /\ RowWhole /\ [Next]_vars => HaltsAreDated'
  BY <1>0, StepsKeepDates
<1>4. DecisionsAreKept /\ HaltsAreDated /\ RowWhole /\ [Next]_vars
      => /\ DailyLossCleared => firedOn < Day(now)
         /\ ClearedByPress => clearAsk \notin refused
  BY <1>0, StepsAreEarned
<1>5. Spec => [][DailyLossCleared => firedOn < Day(now)]_vars
  BY <1>1, <1>2, <1>3, <1>4, RowAlwaysWhole, PTL DEF Spec
<1>6. Spec => [][ClearedByPress => clearAsk \notin refused]_vars
  BY <1>1, <1>2, <1>3, <1>4, RowAlwaysWhole, PTL DEF Spec
<1> QED BY <1>5, <1>6 DEF ClearsAreEarned, NoClearOnTheDayItFired, RefusedPressesStaySpent

-----------------------------------------------------------------------------
(* The day's losses.  Nothing was booked after the day of the baseline,    *)
(* and on that day what was traded since is what was booked and what the   *)
(* open trip shows.                                                        *)
LastDay == IF row.linked THEN row.day ELSE saved.day
Base    == IF row.linked THEN row.dayStart ELSE saved.dayStart

MoneyIsNumbers == /\ cash \in Int /\ result \in Int /\ traded \in Int
                  /\ booked \in [Days -> Int]

RowsAreDated ==
  /\ now \in Nat /\ mandateAsk \in Int /\ mandateAsk <= now
  /\ managed => row.linked
  /\ row.linked => row.day \in Nat
  /\ saved.day \in Nat \cup {None}
  /\ LastDay <= Day(now)

NothingTraded == ~held /\ ~intent /\ result = 0 /\ traded = 0
DayIsCounted == /\ traded = booked[LastDay] + result
                /\ held => intent
                /\ ~intent => result = 0

DayIsBooked ==
  /\ \A d \in Days : d > LastDay \/ (d = LastDay /\ Base = NoAmount) => booked[d] = 0
  /\ LastDay = None => NothingTraded
  /\ whole /\ LastDay = Day(now) => DayIsCounted

DayInv == RowWhole /\ MoneyIsNumbers /\ RowsAreDated /\ DayIsBooked

LEMMA LastDayIs ==
  ASSUME RowsAreDated
  PROVE  LastDay \in Int /\ LastDay >= -1 /\ Day(now) \in Nat
<1>1. Day(now) \in Nat
  BY DaysFollow DEF RowsAreDated
<1> QED BY <1>1 DEF RowsAreDated, LastDay, None

LEMMA TodayIsADay ==
  ASSUME RowsAreDated, now < MaxNow
  PROVE  Day(now) \in Days /\ Days \subseteq Nat /\ IsFiniteSet(Days)
<1>1. MaxNow + MaxAhead \in Nat /\ now \in Nat /\ now <= MaxNow + MaxAhead
  BY DayAssumption, AskAssumption DEF RowsAreDated
<1>2. Day(now) \in Nat /\ Day(MaxNow + MaxAhead) \in Nat /\ Day(now) <= Day(MaxNow + MaxAhead)
  BY <1>1, DaysFollow
<1> HIDE DEF Days
<1>3. Days = 0..Day(MaxNow + MaxAhead)
  BY DEF Days
<1>4. IsFiniteSet(Days)
  BY <1>2, <1>3, FS_Interval
<1> QED BY <1>2, <1>3, <1>4

(* A step that leaves the account's money and its baseline.                *)
LEMMA QuietKeepsTheDay ==
  ASSUME RowsAreDated, DayIsBooked, now' \in Nat, now' >= now,
         LastDay' = LastDay, Base' = Base,
         UNCHANGED <<booked, held, intent, result, traded, whole>>
  PROVE  DayIsBooked' /\ LastDay' <= Day(now')
<1>1. Day(now) \in Nat /\ Day(now') \in Nat /\ Day(now) <= Day(now')
  BY DaysFollow DEF RowsAreDated
<1>2. LastDay \in Int /\ LastDay <= Day(now)
  BY LastDayIs DEF RowsAreDated
<1>3. LastDay' <= Day(now')
  BY <1>1, <1>2
<1>4. \A d \in Days : d > LastDay' \/ (d = LastDay' /\ Base' = NoAmount) => booked'[d] = 0
  BY DEF DayIsBooked
<1>5. LastDay' = None => NothingTraded'
  BY DEF DayIsBooked, NothingTraded
<1>6. whole' /\ LastDay' = Day(now') => DayIsCounted'
  <2> SUFFICES ASSUME whole', LastDay' = Day(now') PROVE DayIsCounted'
    OBVIOUS
  <2>1. LastDay = Day(now)
    BY <1>1, <1>2
  <2>2. DayIsCounted
    BY <2>1 DEF DayIsBooked
  <2> QED BY <2>2 DEF DayIsCounted
<1> QED BY <1>3, <1>4, <1>5, <1>6 DEF DayIsBooked, Days

(* What is booked today, of an account whose baseline is of today or before. *)
LEMMA RealisedIs ==
  ASSUME NEW d0 \in Nat, booked \in [Days -> Int], Days \subseteq Nat, IsFiniteSet(Days), d0 \in Days,
         \A d \in Days : d > d0 => booked[d] = 0, NEW at, Day(at) = d0
  PROVE  RealisedToday(at) = booked[d0]
<1> DEFINE S == {d \in Days : d >= d0}
           w == [d \in S |-> booked[d]]
           g(f, s) == IF s = {} THEN 0 ELSE booked[CHOOSE x \in s : TRUE] + f[s \ {CHOOSE x \in s : TRUE}]
           Iter(f) == f = [s \in SUBSET S |-> g(f, s)]
           i == CHOOSE f : Iter(f)
<1>0. IsFiniteSet(S) /\ d0 \in S /\ S \subseteq Days
  <2>1. S \subseteq Days
    OBVIOUS
  <2>2. IsFiniteSet(S)
    BY <2>1, FS_Subset
  <2> QED BY <2>1, <2>2
<1>1. ASSUME NEW f, NEW s \in SUBSET S PROVE Adding(f, w, s) = g(f, s)
  <2>1. CASE s = {}
    BY <2>1 DEF Adding
  <2>2. CASE s # {}
    <3>1. (CHOOSE x \in s : TRUE) \in S
      BY <2>2
    <3> QED BY <2>2, <3>1 DEF Adding, AnyOf
  <2> QED BY <2>1, <2>2
<1>2. \A f : SumsUp(f, w, S) <=> Iter(f)
  <2> HIDE DEF g, w
  <2> QED BY <1>1 DEF SumsUp
<1>3. PICK h : SumsUp(h, w, S)
  BY <1>0, SumsExist
<1>4. Iter(i)
  <2>1. Iter(h)
    BY <1>2, <1>3
  <2> HIDE DEF Iter
  <2> QED BY <2>1
<1>5. Total(w, S) = i[S]
  <2>1. SumsUp(i, w, S)
    BY <1>2, <1>4
  <2> HIDE DEF w, i, S
  <2> QED BY <1>0, <2>1, TotalIs
<1>6. RealisedToday(at) = (CHOOSE f : f = [s \in SUBSET S |-> IF s = {} THEN 0 ELSE booked[CHOOSE x \in s : TRUE] + f[s \ {CHOOSE x \in s : TRUE}]])[S]
  BY DEF RealisedToday, MapThenSumSet, MapThenFoldSet
<1>7. RealisedToday(at) = Total(w, S)
  BY <1>5, <1>6
<1>8. \A d \in S : w[d] = booked[d] /\ w[d] \in Int
  BY <1>0
<1>9. \A d \in S \ {d0} : w[d] = 0
  BY <1>8
<1> HIDE DEF w, S
<1>10. Total(w, S) = Total(w, S \ {d0}) + w[d0]
  BY <1>0, <1>8, TotalWithout
<1>11. Total(w, S \ {d0}) = 0
  <2> DEFINE r == S \ {d0}
  <2>1. IsFiniteSet(r) /\ \A d \in r : w[d] = 0
    BY <1>0, <1>9, FS_Subset
  <2>2. Cardinality(r) \in Nat
    BY <2>1, FS_CardinalityType
  <2>3. Total(w, r) = Cardinality(r) * 0
    <3> HIDE DEF r
    <3> QED BY <2>1, TotalOfEquals
  <2> HIDE DEF r
  <2>4. Total(w, r) = 0
    BY <2>2, <2>3
  <2> QED BY <2>4 DEF r
<1> QED BY <1>0, <1>7, <1>8, <1>10, <1>11

-----------------------------------------------------------------------------
(* The steps that leave what the day is counted from.                      *)
SameDates == /\ row'.linked = row.linked /\ row'.day = row.day /\ row'.dayStart = row.dayStart
             /\ row'.mandateAt = row.mandateAt /\ saved' = saved
SameTrips == UNCHANGED <<booked, held, intent, result, traded, whole>>
DayStep == MarkMoves \/ PositionCloses \/ Admit \/ ReadMandate \/ Tick \/ TickThrows

LEMMA HaltKeepsDates ==
  ASSUME NEW r, IsRow(r), NEW k, NEW s, s = SetHalt(r, k)
  PROVE  /\ s.linked = r.linked /\ s.day = r.day /\ s.dayStart = r.dayStart
         /\ s.mandateAt = r.mandateAt
BY DEF SetHalt, IsRow

LEMMA ClearKeepsRow ==
  ASSUME NEW r, IsRow(r), NEW s, s = [r EXCEPT !.halted = FALSE, !.kind = "untyped"]
  PROVE  /\ s.linked = r.linked /\ s.day = r.day /\ s.dayStart = r.dayStart
         /\ s.mandateAt = r.mandateAt
BY DEF IsRow

LEMMA OtherStepsKeepDates ==
  ASSUME RowWhole, MoneyIsNumbers, [Next]_vars, ~DayStep
  PROVE  /\ SameDates /\ SameTrips /\ cash' \in Int /\ (managed' => managed)
         /\ mandateAsk' = mandateAsk \/ (now' = now /\ mandateAsk' \in Stamps)
<1>0. IsRow(row)
  BY DEF RowWhole
<1> DEFINE Goal == /\ SameDates /\ SameTrips /\ cash' \in Int /\ (managed' => managed)
                   /\ mandateAsk' = mandateAsk \/ (now' = now /\ mandateAsk' \in Stamps)
<1>1. CASE UNCHANGED vars
  BY <1>1 DEF vars, rowVars, venueVars, requestVars, processVars, historyVars, SameDates, SameTrips, MoneyIsNumbers
<1>2. ASSUME NEW d \in Deposits, Deposit(d) PROVE Goal
  <2>1. cash' \in Int
    BY <1>2, MoneyAssumption DEF Deposit, MoneyIsNumbers
  <2> QED BY <1>2, <2>1 DEF Deposit, rowVars, requestVars, processVars, historyVars, SameDates, SameTrips
<1>3. CASE AskConnection
  BY <1>3 DEF AskConnection, rowVars, venueVars, processVars, historyVars, SameDates, SameTrips, MoneyIsNumbers
<1>4. ASSUME NEW at \in Stamps, PressClear(at) \/ PressMandate(at) PROVE Goal
  BY <1>4 DEF PressClear, PressMandate, rowVars, venueVars, processVars, historyVars, SameDates, SameTrips,
              MoneyIsNumbers
<1>5. ASSUME NEW sort, FillArrives(sort), UNCHANGED <<requestVars, venueVars, processVars, historyVars>> PROVE Goal
  BY <1>5 DEF FillArrives, rowVars, requestVars, venueVars, processVars, historyVars, SameDates, SameTrips,
              MoneyIsNumbers
<1>6. ASSUME ClearHalt("operator", now) \/ ClearHalt("owner", Later(now, clearAsk)), saved' = saved PROVE SameDates
  BY <1>0, <1>6, ClearKeepsRow DEF ClearHalt, SameDates
<1>7. CASE OperatorClears
  <2>1. SameDates
    BY <1>6, <1>7 DEF OperatorClears
  <2> QED BY <1>7, <2>1 DEF OperatorClears, requestVars, venueVars, processVars, SameTrips, MoneyIsNumbers
<1>8. CASE DecideClear
  <2>1. saved' = saved /\ (ClearHalt("owner", Later(now, clearAsk)) \/ row' = row)
    BY <1>8 DEF DecideClear
  <2>2. SameDates
    BY <1>6, <2>1 DEF SameDates
  <2> QED BY <1>8, <2>2 DEF DecideClear, requestVars, venueVars, processVars, SameTrips, MoneyIsNumbers
<1>9. CASE NothingToTick
  BY <1>9 DEF NothingToTick, requestVars, venueVars, processVars, historyVars, SameDates, SameTrips, MoneyIsNumbers
<1>10. CASE Crash
  BY <1>10 DEF Crash, requestVars, venueVars, historyVars, SameDates, SameTrips, MoneyIsNumbers
<1>11. CASE Ingest
  <2>1. saved' = saved /\ (row' = row \/ \E k : row' = SetHalt(row, k))
    BY <1>11 DEF Ingest, BeginWalk, ReadPage, Conclude, WalkThrows, rowVars
  <2>2. SameDates
    <3>1. CASE row' = row
      BY <2>1, <3>1 DEF SameDates
    <3>2. ASSUME NEW k, row' = SetHalt(row, k) PROVE SameDates
      BY <1>0, <2>1, <3>2, HaltKeepsDates DEF SameDates
    <3> QED BY <2>1, <3>1, <3>2
  <2> QED BY <1>11, <2>2 DEF Ingest, requestVars, venueVars, processVars, SameTrips, MoneyIsNumbers
<1>12. CASE Moves
  BY <1>2, <1>3, <1>4, <1>5, <1>7, <1>12, ~DayStep DEF Moves, DayStep
<1>13. CASE Pass
  BY <1>8, <1>9, <1>10, <1>11, <1>13, ~DayStep DEF Pass, DayStep
<1> QED BY <1>1, <1>12, <1>13 DEF Next

LEMMA OtherStepsKeepTheDay ==
  ASSUME DayInv, RowWhole', MaxAhead = 0, [Next]_vars, ~DayStep
  PROVE  DayInv'
<1>1. RowWhole /\ MoneyIsNumbers /\ RowsAreDated /\ DayIsBooked
  BY DEF DayInv
<1>2. /\ SameDates /\ SameTrips /\ cash' \in Int /\ (managed' => managed)
      /\ mandateAsk' = mandateAsk \/ (now' = now /\ mandateAsk' \in Stamps)
  BY <1>1, OtherStepsKeepDates
<1>3. now \in Nat /\ now' \in Nat /\ now' >= now
  BY <1>1, TimeRuns DEF RowsAreDated
<1>4. LastDay' = LastDay /\ Base' = Base
  BY <1>2 DEF SameDates, LastDay, Base
<1>5. DayIsBooked' /\ LastDay' <= Day(now')
  BY <1>1, <1>2, <1>3, <1>4, QuietKeepsTheDay DEF SameTrips
<1>6. MoneyIsNumbers'
  BY <1>1, <1>2 DEF MoneyIsNumbers, SameTrips, Days
<1>7. mandateAsk' \in Int /\ mandateAsk' <= now'
  <2>1. CASE mandateAsk' = mandateAsk
    BY <1>1, <1>3, <2>1 DEF RowsAreDated
  <2>2. CASE now' = now /\ mandateAsk' \in now..now
    BY <1>3, <2>2
  <2>3. Stamps = now..now
    BY <1>3 DEF Stamps
  <2> QED BY <1>2, <2>1, <2>2, <2>3
<1>8. LastDay' <= Day(now)'
  BY <1>5 DEF Day
<1>9. RowsAreDated'
  BY <1>1, <1>2, <1>3, <1>7, <1>8 DEF RowsAreDated, SameDates
<1> QED BY <1>5, <1>6, <1>9 DEF DayInv

-----------------------------------------------------------------------------
LEMMA TripsKeepTheDay ==
  ASSUME DayInv, RowWhole', MarkMoves \/ PositionCloses, now < MaxNow
  PROVE  DayInv'
<1>1. RowWhole /\ MoneyIsNumbers /\ RowsAreDated /\ DayIsBooked
  BY DEF DayInv
<1>2. UNCHANGED <<now, row, saved, mandateAsk, intent, booked, managed, whole>>
  BY DEF MarkMoves, PositionCloses, rowVars, requestVars, processVars, historyVars
<1>3. RowsAreDated' /\ LastDay' = LastDay /\ Base' = Base
  BY <1>1, <1>2 DEF RowsAreDated, LastDay, Base, Day
<1>4. LastDay \in Int
  BY <1>1, LastDayIs
<1>5. CASE MarkMoves
  <2>1. PICK r \in Unrealised : result' = r /\ traded' = traded + r - result
    BY <1>5 DEF MarkMoves
  <2>2. r \in Int /\ held /\ held' = held /\ cash' = cash
    BY <1>5, MoneyAssumption DEF MarkMoves
  <2>3. MoneyIsNumbers'
    BY <1>1, <1>2, <2>1, <2>2 DEF MoneyIsNumbers, Days
  <2>4. LastDay # None
    BY <1>1, <2>2 DEF DayIsBooked, NothingTraded
  <2>5. whole' /\ LastDay' = Day(now)' => DayIsCounted'
    <3> SUFFICES ASSUME whole', LastDay' = Day(now)' PROVE DayIsCounted'
      OBVIOUS
    <3>1. DayIsCounted /\ intent
      BY <1>1, <1>2, <1>3, <2>2 DEF DayIsBooked, Day, DayIsCounted
    <3>2. LastDay = Day(now)
      BY <1>2, <1>3 DEF Day
    <3>3. booked[LastDay] \in Int
      BY <1>1, <3>2, TodayIsADay DEF MoneyIsNumbers
    <3>4. traded = booked[LastDay] + result /\ result \in Int
      BY <1>1, <3>1 DEF DayIsCounted, MoneyIsNumbers
    <3> QED BY <1>2, <1>3, <2>1, <2>2, <3>1, <3>3, <3>4 DEF DayIsCounted
  <2> QED BY <1>1, <1>2, <1>3, <2>3, <2>4, <2>5 DEF DayInv, DayIsBooked, Days
<1>6. CASE PositionCloses
  <2>1. /\ held /\ held' = FALSE /\ traded' = traded
        /\ cash' = (IF intent THEN cash ELSE cash + result)
        /\ result' = IF intent THEN result ELSE 0
    BY <1>6 DEF PositionCloses, historyVars
  <2>2. MoneyIsNumbers'
    BY <1>1, <1>2, <2>1 DEF MoneyIsNumbers, Days
  <2>3. LastDay # None
    BY <1>1, <2>1 DEF DayIsBooked, NothingTraded
  <2>4. whole' /\ LastDay' = Day(now)' => DayIsCounted'
    <3> SUFFICES ASSUME whole', LastDay' = Day(now)' PROVE DayIsCounted'
      OBVIOUS
    <3>1. DayIsCounted /\ intent
      BY <1>1, <1>2, <1>3, <2>1 DEF DayIsBooked, Day, DayIsCounted
    <3> QED BY <1>2, <1>3, <2>1, <3>1 DEF DayIsCounted
  <2> QED BY <1>1, <1>2, <1>3, <2>2, <2>3, <2>4 DEF DayInv, DayIsBooked, Days
<1> QED BY <1>5, <1>6

LEMMA AdmitKeepsTheDay ==
  ASSUME DayInv, RowWhole', Admit, now < MaxNow
  PROVE  DayInv'
<1>1. RowWhole /\ MoneyIsNumbers /\ RowsAreDated /\ DayIsBooked
  BY DEF DayInv
<1>2. now' = now + 1 /\ UNCHANGED mandateAsk /\ now \in Nat
  BY <1>1 DEF Admit, requestVars, RowsAreDated
<1>3. /\ Day(now) \in Nat /\ Day(now') \in Nat /\ Day(now) <= Day(now')
      /\ LastDay \in Int /\ LastDay <= Day(now)
  BY <1>1, <1>2, DaysFollow, LastDayIs DEF RowsAreDated
<1>4. mandateAsk' \in Int /\ mandateAsk' <= now' /\ now' \in Nat
  BY <1>1, <1>2 DEF RowsAreDated
<1>5. CASE Release
  <2>1. /\ row.linked /\ ~row'.linked /\ saved'.day = row.day /\ saved'.dayStart = row.dayStart
        /\ ~managed'
    BY <1>5 DEF Release, DisconnectAccount, NoRow
  <2>2. /\ ~intent' /\ held' = held /\ booked' = booked /\ traded' = traded
        /\ cash' = (IF intent /\ ~held THEN cash + result ELSE cash)
        /\ result' = IF intent /\ ~held THEN 0 ELSE result
    BY <1>5 DEF Release
  <2>3. whole' => whole /\ ~intent
    BY <1>5 DEF Release
  <2>4. LastDay' = LastDay /\ Base' = Base /\ LastDay \in Nat
    BY <1>1, <2>1 DEF LastDay, Base, RowsAreDated
  <2>5. MoneyIsNumbers'
    BY <1>1, <2>2 DEF MoneyIsNumbers, Days
  <2>6. RowsAreDated'
    <3>1. LastDay' <= Day(now)'
      BY <1>3, <2>4 DEF Day
    <3> QED BY <1>1, <1>4, <2>1, <3>1 DEF RowsAreDated
  <2>7. whole' /\ LastDay' = Day(now)' => DayIsCounted'
    <3> SUFFICES ASSUME whole', LastDay' = Day(now)' PROVE DayIsCounted'
      OBVIOUS
    <3>1. LastDay = Day(now)
      BY <1>3, <2>4 DEF Day
    <3>2. DayIsCounted /\ ~intent
      BY <1>1, <2>3, <3>1 DEF DayIsBooked
    <3> QED BY <2>2, <2>4, <3>2 DEF DayIsCounted
  <2>8. DayIsBooked'
    BY <1>1, <2>2, <2>4, <2>7 DEF DayIsBooked, Days, None
  <2> QED BY <2>5, <2>6, <2>8 DEF DayInv
<1>6. CASE Connect
  <2>1. SameTrips /\ cash' = cash /\ saved' = saved
    BY <1>6 DEF Connect, venueVars, historyVars, SameTrips
  <2>2. MoneyIsNumbers'
    BY <1>1, <2>1 DEF MoneyIsNumbers, SameTrips, Days
  <2>3. CASE row.linked
    <3>1. row' = row
      BY <1>6, <2>3 DEF Connect, ConnectAccount
    <3>2. LastDay' = LastDay /\ Base' = Base
      BY <2>1, <3>1 DEF LastDay, Base
    <3>3. DayIsBooked' /\ LastDay' <= Day(now')
      BY <1>1, <1>2, <1>4, <2>1, <3>2, QuietKeepsTheDay DEF SameTrips
    <3>4. LastDay' <= Day(now)'
      BY <3>3 DEF Day
    <3>5. RowsAreDated'
      BY <1>1, <1>4, <2>1, <2>3, <3>1, <3>4 DEF RowsAreDated
    <3> QED BY <2>2, <3>3, <3>5 DEF DayInv
  <2>4. CASE ~row.linked
    <3>1. /\ row'.linked /\ row'.dayStart = saved.dayStart
          /\ row'.day = IF saved.day = None THEN Day(now) ELSE saved.day
      BY <1>6, <2>4 DEF Connect, ConnectAccount, Written
    <3>2. /\ LastDay' = row'.day /\ Base' = Base /\ LastDay = saved.day
      BY <2>4, <3>1 DEF LastDay, Base
    <3>3. row'.day \in Nat /\ row'.day <= Day(now)
      BY <1>1, <1>3, <3>1, <3>2 DEF RowsAreDated
    <3>4. RowsAreDated'
      <4>1. LastDay' <= Day(now)'
        BY <1>3, <3>2, <3>3 DEF Day
      <4> QED BY <1>1, <1>4, <2>1, <3>1, <3>3, <4>1 DEF RowsAreDated
    <3>5. CASE saved.day # None
      <4>1. LastDay' = LastDay
        BY <3>1, <3>2, <3>5
      <4>2. DayIsBooked'
        BY <1>1, <1>2, <1>4, <2>1, <3>2, <4>1, QuietKeepsTheDay DEF SameTrips
      <4> QED BY <2>2, <3>4, <4>2 DEF DayInv
    <3>6. CASE saved.day = None
      <4>1. LastDay = None /\ NothingTraded
        BY <1>1, <3>2, <3>6 DEF DayIsBooked
      <4>2. Day(now) \in Days /\ \A d \in Days : d \in Nat
        BY <1>1, TodayIsADay
      <4>3. \A d \in Days : booked[d] = 0
        BY <1>1, <4>1, <4>2 DEF DayIsBooked, None
      <4>4. LastDay' = Day(now)
        BY <3>1, <3>2, <3>6
      <4>5. DayIsCounted'
        BY <2>1, <4>1, <4>2, <4>3, <4>4 DEF DayIsCounted, SameTrips, NothingTraded
      <4>6. DayIsBooked'
        BY <1>3, <2>1, <4>3, <4>4, <4>5 DEF DayIsBooked, SameTrips, Days, None
      <4> QED BY <2>2, <3>4, <4>6 DEF DayInv
    <3> QED BY <3>5, <3>6
  <2> QED BY <2>3, <2>4
<1>7. CASE UNCHANGED <<row, saved, processVars, venueVars, historyVars>>
  <2>1. SameTrips /\ cash' = cash /\ UNCHANGED <<row, saved, managed>>
    BY <1>7 DEF venueVars, historyVars, processVars, SameTrips
  <2>2. MoneyIsNumbers'
    BY <1>1, <2>1 DEF MoneyIsNumbers, SameTrips, Days
  <2>3. LastDay' = LastDay /\ Base' = Base
    BY <2>1 DEF LastDay, Base
  <2>4. DayIsBooked' /\ LastDay' <= Day(now')
    BY <1>1, <1>2, <1>4, <2>1, <2>3, QuietKeepsTheDay DEF SameTrips
  <2>5. LastDay' <= Day(now)'
    BY <2>4 DEF Day
  <2>6. RowsAreDated'
    BY <1>1, <1>4, <2>1, <2>5 DEF RowsAreDated
  <2> QED BY <2>2, <2>4, <2>6 DEF DayInv
<1> QED BY <1>5, <1>6, <1>7 DEF Admit

-----------------------------------------------------------------------------
(* A tick's roll.  On a row of an earlier day, or of none, the count begins *)
(* anew and nothing is booked yet.                                          *)
LEMMA RollsTheRow ==
  ASSUME RowWhole, NEW found, NEW equity, HaltOn(RollDay(row, equity), found)
  PROVE  /\ row'.linked = row.linked /\ row'.mandateAt = row.mandateAt
         /\ row'.day = Day(now)
         /\ row'.dayStart = IF Rolls THEN equity ELSE row.dayStart
<1> DEFINE rolled == RollDay(row, equity)
<1>1. /\ IsRow(rolled) /\ rolled.linked = row.linked /\ rolled.mandateAt = row.mandateAt
      /\ rolled.day = Day(now)
      /\ rolled.dayStart = IF Rolls THEN equity ELSE row.dayStart
  <2>1. IsRow(row)
    BY DEF RowWhole
  <2>2. IsRow(rolled) /\ rolled.linked = row.linked
    BY <2>1, RollDayLemma
  <2> QED BY <2>1, <2>2 DEF RollDay, IsRow, Rolls
<1>2. row' = rolled \/ row' = SetHalt(rolled, found)
  BY DEF HaltOn
<1> HIDE DEF rolled
<1>3. CASE row' = rolled
  BY <1>1, <1>3
<1>4. CASE row' = SetHalt(rolled, found)
  BY <1>1, <1>4, HaltKeepsDates
<1> QED BY <1>2, <1>3, <1>4

LEMMA RolledIsCounted ==
  ASSUME RowWhole, MoneyIsNumbers, RowsAreDated, DayIsBooked, now < MaxNow, row.linked,
         NEW tr, tr = (IF Rolls THEN 0 ELSE traded),
         NEW wh, wh = (IF Rolls THEN Whole ELSE whole)
  PROVE  /\ tr \in Int
         /\ wh => tr = booked[Day(now)] + result /\ (held => intent) /\ (~intent => result = 0)
         /\ \A d \in Days : d > Day(now) => booked[d] = 0
<1>1. /\ Day(now) \in Days /\ \A d \in Days : d \in Nat
      /\ LastDay \in Int /\ LastDay <= Day(now) /\ LastDay = row.day /\ Base = row.dayStart
  BY TodayIsADay, LastDayIs DEF RowsAreDated, LastDay, Base
<1>2. \A d \in Days : d > Day(now) => booked[d] = 0
  BY <1>1 DEF DayIsBooked
<1>3. CASE Rolls
  <2>1. booked[Day(now)] = 0
    BY <1>1, <1>3 DEF DayIsBooked, Rolls
  <2>2. tr = 0 /\ wh = Whole
    BY <1>3
  <2>3. wh => result = 0 /\ (held => intent)
    BY <2>2 DEF Whole
  <2> QED BY <1>2, <2>1, <2>2, <2>3
<1>4. CASE ~Rolls
  <2>1. LastDay = Day(now)
    BY <1>1, <1>4 DEF Rolls
  <2>2. tr = traded /\ wh = whole
    BY <1>4
  <2>3. whole => DayIsCounted
    BY <2>1 DEF DayIsBooked
  <2>4. wh => tr = booked[Day(now)] + result /\ (held => intent) /\ (~intent => result = 0)
    BY <2>1, <2>2, <2>3 DEF DayIsCounted
  <2> QED BY <1>2, <2>2, <2>4 DEF MoneyIsNumbers
<1> QED BY <1>3, <1>4

(* What a tick does to a trip: it books its result, opens one, or neither. *)
LEMMA TradesKeepTheCount ==
  ASSUME MoneyIsNumbers, Day(now) \in Days,
         NEW rolled, NEW found, Trades(rolled, found),
         intent /\ ~held => ~intent',
         NEW tr \in Int, NEW wh,
         wh => tr = booked[Day(now)] + result /\ (held => intent) /\ (~intent => result = 0),
         \A d \in Days : d > Day(now) => booked[d] = 0,
         \A d \in Days : d \in Nat
  PROVE  /\ cash' \in Int /\ result' \in Int /\ booked' \in [Days -> Int]
         /\ wh => tr = booked'[Day(now)] + result' /\ (held' => intent') /\ (~intent' => result' = 0)
         /\ \A d \in Days : d > Day(now) => booked'[d] = 0
<1>1. CASE UNCHANGED venueVars
  BY <1>1 DEF venueVars, MoneyIsNumbers
<1>2. CASE /\ intent
           /\ intent' = FALSE /\ held' = FALSE
           /\ cash' = cash + result /\ result' = 0
           /\ booked' = [booked EXCEPT ![Day(now)] = @ + result]
  <2>1. cash' \in Int /\ result' \in Int /\ booked' \in [Days -> Int]
    BY <1>2 DEF MoneyIsNumbers
  <2>2. booked'[Day(now)] = booked[Day(now)] + result
    BY <1>2 DEF MoneyIsNumbers
  <2>3. \A d \in Days : d > Day(now) => booked'[d] = 0
    <3> SUFFICES ASSUME NEW d \in Days, d > Day(now) PROVE booked'[d] = 0
      OBVIOUS
    <3>1. d # Day(now)
      OBVIOUS
    <3> QED BY <1>2, <3>1 DEF MoneyIsNumbers
  <2>4. booked[Day(now)] \in Int /\ result \in Int
    BY DEF MoneyIsNumbers
  <2> QED BY <1>2, <2>1, <2>2, <2>3, <2>4
<1>3. CASE /\ ~intent /\ ~held
           /\ intent' = TRUE /\ held' = TRUE
           /\ UNCHANGED <<cash, result, booked>>
  BY <1>3 DEF MoneyIsNumbers
<1> QED BY <1>1, <1>2, <1>3 DEF Trades

LEMMA TicksKeepTheDay ==
  ASSUME DayInv, RowWhole', Tick \/ TickThrows, now < MaxNow
  PROVE  DayInv'
<1>1. RowWhole /\ MoneyIsNumbers /\ RowsAreDated /\ DayIsBooked
  BY DEF DayInv
<1>2. now' = now + 1 /\ UNCHANGED <<mandateAsk, saved, managed>> /\ managed /\ now \in Nat
  BY <1>1 DEF Tick, TickThrows, requestVars, RowsAreDated
<1>3. row.linked
  BY <1>1, <1>2 DEF RowsAreDated
<1>4. /\ Day(now) \in Nat /\ Day(now') \in Nat /\ Day(now) <= Day(now')
      /\ Day(now) \in Days /\ \A d \in Days : d \in Nat
  BY <1>1, <1>2, DaysFollow, TodayIsADay
<1> DEFINE tr == IF Rolls THEN 0 ELSE traded
           wh == IF Rolls THEN Whole ELSE whole
<1>5. /\ tr \in Int
      /\ wh => tr = booked[Day(now)] + result /\ (held => intent) /\ (~intent => result = 0)
      /\ \A d \in Days : d > Day(now) => booked[d] = 0
  BY <1>1, <1>3, RolledIsCounted
<1>6. CASE /\ TickThrows
           /\ UNCHANGED <<row, traded, whole>>
  <2>1. SameTrips /\ cash' = cash
    BY <1>6 DEF TickThrows, venueVars, SameTrips
  <2>2. MoneyIsNumbers'
    BY <1>1, <1>6, <2>1 DEF MoneyIsNumbers, SameTrips, Days
  <2>3. LastDay' = LastDay /\ Base' = Base
    BY <1>2, <1>6 DEF LastDay, Base
  <2>4. DayIsBooked' /\ LastDay' <= Day(now')
    BY <1>1, <1>2, <2>1, <2>3, QuietKeepsTheDay DEF SameTrips
  <2>5. LastDay' <= Day(now)'
    BY <2>4 DEF Day
  <2>6. RowsAreDated'
    BY <1>1, <1>2, <1>6, <2>5 DEF RowsAreDated
  <2> QED BY <2>2, <2>4, <2>6 DEF DayInv
<1>7. CASE /\ \E found : HaltOn(RollDay(row, Equity), found)
           /\ traded' = tr /\ whole' = wh
           /\ \/ UNCHANGED venueVars
              \/ \E rolled, found : Trades(rolled, found) /\ (intent /\ ~held => ~intent')
  <2>1. /\ row'.linked /\ row'.day = Day(now)
        /\ row'.dayStart = IF Rolls THEN Equity ELSE row.dayStart
    BY <1>1, <1>3, <1>7, RollsTheRow
  <2>2. row'.dayStart # NoAmount
    BY <1>1, <2>1, AmountAssumption DEF Rolls, Equity, MoneyIsNumbers
  <2>3. LastDay' = Day(now) /\ Base' # NoAmount
    BY <2>1, <2>2 DEF LastDay, Base
  <2>4. /\ cash' \in Int /\ result' \in Int /\ booked' \in [Days -> Int]
        /\ wh => tr = booked'[Day(now)] + result' /\ (held' => intent') /\ (~intent' => result' = 0)
        /\ \A d \in Days : d > Day(now) => booked'[d] = 0
    <3>1. CASE UNCHANGED venueVars
      BY <1>1, <1>5, <3>1 DEF venueVars, MoneyIsNumbers
    <3>2. CASE \E rolled, found : Trades(rolled, found) /\ (intent /\ ~held => ~intent')
      <4> HIDE DEF tr, wh
      <4> QED BY <1>1, <1>4, <1>5, <3>2, TradesKeepTheCount
    <3> QED BY <1>7, <3>1, <3>2
  <2>5. MoneyIsNumbers'
    BY <1>5, <1>7, <2>4 DEF MoneyIsNumbers, Days
  <2>6. RowsAreDated'
    <3>1. LastDay' <= Day(now)'
      BY <1>4, <2>3 DEF Day
    <3> QED BY <1>1, <1>2, <1>4, <2>1, <3>1 DEF RowsAreDated
  <2>7. whole' /\ LastDay' = Day(now)' => DayIsCounted'
    <3> SUFFICES ASSUME whole' PROVE DayIsCounted'
      OBVIOUS
    <3>1. wh
      BY <1>7
    <3> HIDE DEF wh, tr
    <3>2. traded' = booked'[Day(now)] + result' /\ (held' => intent') /\ (~intent' => result' = 0)
      BY <1>7, <2>4, <3>1
    <3> QED BY <2>3, <3>2 DEF DayIsCounted
  <2>8. DayIsBooked'
    BY <1>4, <2>3, <2>4, <2>7 DEF DayIsBooked, Days, None
  <2> QED BY <2>5, <2>6, <2>8 DEF DayInv
<1>8. CASE Tick
  <2>1. /\ traded' = tr /\ whole' = wh
        /\ \E strange : HaltOn(RollDay(row, Equity), Found(RollDay(row, Equity), strange))
        /\ \E strange : Trades(RollDay(row, Equity), Found(RollDay(row, Equity), strange))
        /\ intent /\ ~held => ~intent'
    BY <1>8 DEF Tick
  <2> HIDE DEF tr, wh
  <2> QED BY <1>7, <2>1
<1>9. CASE TickThrows
  <2>1. \/ UNCHANGED <<row, traded, whole>>
        \/ /\ \E found : HaltOn(RollDay(row, Equity), found)
           /\ traded' = tr /\ whole' = wh
    BY <1>9 DEF TickThrows
  <2>2. UNCHANGED venueVars
    BY <1>9 DEF TickThrows
  <2> HIDE DEF tr, wh
  <2> QED BY <1>6, <1>7, <1>9, <2>1, <2>2
<1> QED BY <1>8, <1>9

-----------------------------------------------------------------------------
(* The mandate is read again on one clock: what it deducts from the new    *)
(* baseline is what is booked today, and the count goes on or begins anew. *)
RowAfterMandate == row' = [row EXCEPT !.mandateAt = now, !.day = Day(now),
                                      !.dayStart = Equity - RealisedToday(now)]

LEMMA MandateWritesTheRow ==
  ASSUME RowWhole, RowAfterMandate
  PROVE  /\ row'.linked = row.linked /\ row'.mandateAt = now /\ row'.day = Day(now)
         /\ row'.dayStart = Equity - RealisedToday(now)
BY DEF RowWhole, IsRow, RowAfterMandate

LEMMA MandateIsReadNow ==
  ASSUME RowsAreDated, ReadMandate
  PROVE  \/ /\ MandatePending /\ RowAfterMandate
            /\ traded' = IF row.day = Day(now) THEN traded ELSE 0
            /\ whole'  = IF row.day = Day(now) THEN whole ELSE Whole
         \/ UNCHANGED <<row, traded, whole>>
<1>1. Later(now, mandateAsk) = now
  BY DEF RowsAreDated, Later
<1> QED BY <1>1 DEF ReadMandate, ApplyMandate, RowAfterMandate

LEMMA MandateCounts ==
  ASSUME DayInv, ReadMandate, now < MaxNow, MandatePending, RowAfterMandate,
         traded' = IF row.day = Day(now) THEN traded ELSE 0,
         whole'  = IF row.day = Day(now) THEN whole ELSE Whole
  PROVE  /\ row'.dayStart = Equity - booked[Day(now)]
         /\ row.linked /\ row'.linked /\ row'.day = Day(now)
         /\ booked[Day(now)] \in Int /\ traded' \in Int
         /\ \A d \in Days : d > Day(now) => booked[d] = 0
         /\ whole' => traded' = booked[Day(now)] + result /\ (held => intent) /\ (~intent => result = 0)
<1>1. RowWhole /\ MoneyIsNumbers /\ RowsAreDated /\ DayIsBooked
  BY DEF DayInv
<1>2. row.linked /\ ~intent
  BY DEF MandatePending
<1>3. /\ Day(now) \in Days /\ Day(now) \in Nat /\ Days \subseteq Nat /\ IsFiniteSet(Days)
      /\ LastDay \in Int /\ LastDay <= Day(now) /\ LastDay = row.day
  <2>1. Day(now) \in Days /\ Days \subseteq Nat /\ IsFiniteSet(Days)
    BY <1>1, TodayIsADay
  <2>2. LastDay \in Int /\ Day(now) \in Nat
    BY <1>1, LastDayIs
  <2>3. LastDay <= Day(now) /\ LastDay = row.day
    BY <1>1, <1>2 DEF RowsAreDated, LastDay
  <2> QED BY <2>1, <2>2, <2>3
<1>4. \A d \in Days : d > Day(now) => booked[d] = 0
  BY <1>1, <1>3 DEF DayIsBooked
<1>5. RealisedToday(now) = booked[Day(now)]
  BY <1>1, <1>3, <1>4, RealisedIs DEF MoneyIsNumbers
<1>6. booked[Day(now)] \in Int
  BY <1>1, <1>3 DEF MoneyIsNumbers
<1>7. row'.linked /\ row'.day = Day(now) /\ row'.dayStart = Equity - booked[Day(now)]
  BY <1>1, <1>2, <1>5, MandateWritesTheRow
<1>8. /\ traded' \in Int
      /\ whole' => traded' = booked[Day(now)] + result /\ (held => intent) /\ (~intent => result = 0)
  <2>1. CASE row.day = Day(now)
    <3>1. traded' = traded /\ whole' = whole
      BY <2>1
    <3>2. whole => DayIsCounted
      BY <1>1, <1>3, <2>1 DEF DayIsBooked
    <3>3. whole' => traded' = booked[Day(now)] + result /\ (held => intent) /\ (~intent => result = 0)
      BY <1>3, <2>1, <3>1, <3>2 DEF DayIsCounted
    <3> QED BY <1>1, <3>1, <3>3 DEF MoneyIsNumbers
  <2>2. CASE row.day # Day(now)
    <3>1. booked[Day(now)] = 0
      BY <1>1, <1>3, <2>2 DEF DayIsBooked
    <3>2. traded' = 0 /\ whole' = Whole
      BY <2>2
    <3>3. whole' => result = 0 /\ (held => intent)
      BY <3>2 DEF Whole
    <3> QED BY <3>1, <3>2, <3>3
  <2> QED BY <2>1, <2>2
<1> QED BY <1>2, <1>4, <1>6, <1>7, <1>8

LEMMA MandateKeepsTheDay ==
  ASSUME DayInv, RowWhole', ReadMandate, now < MaxNow
  PROVE  DayInv'
<1>1. RowWhole /\ MoneyIsNumbers /\ RowsAreDated /\ DayIsBooked
  BY DEF DayInv
<1>2. now' = now + 1 /\ UNCHANGED <<mandateAsk, saved, managed, cash, result, held, intent, booked>> /\ now \in Nat
  BY <1>1 DEF ReadMandate, requestVars, venueVars, processVars, RowsAreDated
<1>3. /\ Day(now) \in Nat /\ Day(now') \in Nat /\ Day(now) <= Day(now')
      /\ Day(now) \in Days /\ \A d \in Days : d \in Nat
  BY <1>1, <1>2, DaysFollow, TodayIsADay
<1>4. CASE UNCHANGED <<row, traded, whole>>
  <2>1. SameTrips
    BY <1>2, <1>4 DEF SameTrips
  <2>2. MoneyIsNumbers'
    BY <1>1, <1>2, <1>4 DEF MoneyIsNumbers, Days
  <2>3. LastDay' = LastDay /\ Base' = Base
    BY <1>2, <1>4 DEF LastDay, Base
  <2>4. DayIsBooked' /\ LastDay' <= Day(now')
    BY <1>1, <1>2, <2>1, <2>3, QuietKeepsTheDay DEF SameTrips
  <2>5. LastDay' <= Day(now)'
    BY <2>4 DEF Day
  <2>6. RowsAreDated'
    BY <1>1, <1>2, <1>4, <2>5 DEF RowsAreDated
  <2> QED BY <2>2, <2>4, <2>6 DEF DayInv
<1>5. CASE /\ MandatePending /\ RowAfterMandate
           /\ traded' = IF row.day = Day(now) THEN traded ELSE 0
           /\ whole'  = IF row.day = Day(now) THEN whole ELSE Whole
  <2>1. /\ row'.dayStart = Equity - booked[Day(now)]
        /\ row'.linked /\ row'.day = Day(now)
        /\ booked[Day(now)] \in Int /\ traded' \in Int
        /\ \A d \in Days : d > Day(now) => booked[d] = 0
        /\ whole' => traded' = booked[Day(now)] + result /\ (held => intent) /\ (~intent => result = 0)
    BY <1>5, MandateCounts
  <2>2. row'.dayStart # NoAmount
    BY <1>1, <2>1, AmountAssumption DEF Equity, MoneyIsNumbers
  <2>3. LastDay' = Day(now) /\ Base' # NoAmount
    BY <2>1, <2>2 DEF LastDay, Base
  <2>4. MoneyIsNumbers'
    BY <1>1, <1>2, <2>1 DEF MoneyIsNumbers, Days
  <2>5. RowsAreDated'
    <3>1. LastDay' <= Day(now)'
      BY <1>3, <2>3 DEF Day
    <3> QED BY <1>1, <1>2, <1>3, <2>1, <3>1 DEF RowsAreDated
  <2>6. whole' /\ LastDay' = Day(now)' => DayIsCounted'
    BY <1>2, <2>1, <2>3 DEF DayIsCounted
  <2>7. DayIsBooked'
    BY <1>2, <1>3, <2>1, <2>3, <2>6 DEF DayIsBooked, Days, None
  <2> QED BY <2>4, <2>5, <2>7 DEF DayInv
<1> QED BY <1>1, <1>4, <1>5, MandateIsReadNow

LEMMA StepsKeepTheDay ==
  ASSUME DayInv, RowWhole', MaxAhead = 0, [Next]_vars
  PROVE  DayInv'
<1>1. CASE DayStep
  <2>1. CASE now < MaxNow
    BY <1>1, <2>1, TripsKeepTheDay, AdmitKeepsTheDay, TicksKeepTheDay, MandateKeepsTheDay DEF DayStep
  <2>2. CASE ~(now < MaxNow)
    <3>1. UNCHANGED vars
      BY <2>2 DEF Next
    <3>2. /\ UNCHANGED <<now, row, saved, mandateAsk, managed, cash>> /\ SameTrips
      BY <3>1 DEF vars, rowVars, venueVars, requestVars, processVars, historyVars, SameTrips
    <3>3. now' \in Nat /\ now' >= now /\ LastDay' = LastDay /\ Base' = Base
      BY <3>2 DEF DayInv, RowsAreDated, LastDay, Base
    <3>4. DayIsBooked' /\ LastDay' <= Day(now')
      BY <3>2, <3>3, QuietKeepsTheDay DEF DayInv, SameTrips
    <3>5. MoneyIsNumbers'
      BY <3>2 DEF DayInv, MoneyIsNumbers, SameTrips, Days
    <3>6. RowsAreDated'
      BY <3>2 DEF DayInv, RowsAreDated, LastDay, Day
    <3> QED BY <3>4, <3>5, <3>6 DEF DayInv
  <2> QED BY <2>1, <2>2
<1>2. CASE ~DayStep
  BY <1>2, OtherStepsKeepTheDay
<1> QED BY <1>1, <1>2

LEMMA DayInitially ==
  ASSUME Init
  PROVE  DayInv
<1>1. IsRow(row)
  BY RowInitially
<1>2. MoneyIsNumbers
  BY MoneyAssumption DEF Init, MoneyIsNumbers
<1>3. now = FirstNow /\ now \in Nat /\ saved.day = None /\ (row = OldRow \/ row = NoRow) /\ ~managed /\ mandateAsk = None
  BY DayAssumption DEF Init, RowInit, NothingSaved
<1>4. Day(now) \in Nat
  BY <1>3, DaysFollow
<1>5. \/ row.linked /\ row.day = Day(now)
      \/ ~row.linked
  BY <1>3 DEF OldRow, NoRow
<1>6. LastDay = None \/ LastDay = Day(now)
  BY <1>3, <1>5 DEF LastDay
<1>7. RowsAreDated
  BY <1>3, <1>4, <1>5, <1>6 DEF RowsAreDated, None
<1>8. /\ \A d \in Days : booked[d] = 0
      /\ ~held /\ ~intent /\ result = 0 /\ traded = 0
  BY DEF Init
<1>9. LastDay = Day(now) => DayIsCounted
  <2> SUFFICES ASSUME LastDay = Day(now) PROVE DayIsCounted
    OBVIOUS
  <2>1. Day(now) \in Days
    <3>1. MaxNow + MaxAhead \in Nat
      BY DayAssumption, AskAssumption
    <3>2. FirstNow <= MaxNow + MaxAhead
      BY <3>1, DayAssumption, AskAssumption
    <3> QED BY <1>3, <1>4, <3>1, <3>2, DaysFollow DEF Days
  <2> QED BY <1>8, <2>1 DEF DayIsCounted
<1>10. DayIsBooked
  BY <1>8, <1>9 DEF DayIsBooked, NothingTraded
<1> QED BY <1>1, <1>2, <1>7, <1>10 DEF DayInv, RowWhole

(* Only a re-read mandate dates the mandate anew on a row that stays.      *)
LEMMA OnlyTheMandateDates ==
  ASSUME RowWhole, MoneyIsNumbers, RowsAreDated, [Next]_vars, row.linked, row'.linked,
         row'.mandateAt # row.mandateAt
  PROVE  ReadMandate /\ now < MaxNow
<1>1. DayStep
  <2>1. CASE ~DayStep
    BY <2>1, OtherStepsKeepDates DEF SameDates
  <2> QED BY <2>1
<1>2. CASE MarkMoves \/ PositionCloses
  BY <1>2 DEF MarkMoves, PositionCloses, rowVars
<1>3. CASE Admit
  BY <1>3 DEF Admit, Release, Connect, DisconnectAccount, ConnectAccount, NoRow
<1>4. CASE Tick \/ TickThrows
  <2>1. row' = row \/ \E found : HaltOn(RollDay(row, Equity), found)
    BY <1>4 DEF Tick, TickThrows
  <2> QED BY <2>1, RollsTheRow
<1>5. now < MaxNow
  <2>1. CASE UNCHANGED vars
    BY <2>1 DEF vars, rowVars
  <2> QED BY <2>1 DEF Next
<1> QED BY <1>1, <1>2, <1>3, <1>4, <1>5 DEF DayStep

LEMMA RebasesCount ==
  ASSUME DayInv, [Next]_vars, row.linked, row'.linked, row'.mandateAt # row.mandateAt,
         whole', Day(row'.mandateAt) = Day(now)
  PROVE  row'.dayStart - Equity' >= 0 - traded'
<1>1. RowWhole /\ MoneyIsNumbers /\ RowsAreDated
  BY DEF DayInv
<1>2. ReadMandate /\ now < MaxNow
  BY <1>1, OnlyTheMandateDates
<1>3. /\ MandatePending /\ RowAfterMandate
      /\ traded' = IF row.day = Day(now) THEN traded ELSE 0
      /\ whole'  = IF row.day = Day(now) THEN whole ELSE Whole
  BY <1>1, <1>2, MandateIsReadNow
<1>4. /\ row'.dayStart = Equity - booked[Day(now)]
      /\ booked[Day(now)] \in Int /\ traded' \in Int
      /\ traded' = booked[Day(now)] + result /\ (~intent => result = 0)
  BY <1>2, <1>3, MandateCounts
<1>5. result = 0
  BY <1>3, <1>4 DEF MandatePending
<1>6. Equity' = Equity /\ Equity \in Int
  BY <1>1, <1>2 DEF ReadMandate, venueVars, Equity, MoneyIsNumbers
<1>7. traded' = booked[Day(now)]
  BY <1>4, <1>5
<1>8. PICK b \in Int : b = booked[Day(now)]
  BY <1>4
<1> QED BY <1>4, <1>6, <1>7, <1>8

(* An owner who signs the mandate again in the middle of a day does not    *)
(* wipe the day's losses out: the baseline it writes shows at least what   *)
(* was lost by trading since the day's own baseline was taken, however     *)
(* often the account was unlinked, crashed or halted in between (db.ts,    *)
(* applyMandate; exec/changes.ts, realisedToday).  The web tier's clock    *)
(* and the executor's are one.                                             *)
THEOREM RebasesKeepTheDaysLosses ==
  ASSUME MaxAhead = 0
  PROVE  Spec => RebaseKeepsTheDay
<1>1. Init => DayInv
  BY DayInitially
<1>2. DayInv /\ RowWhole' /\ [Next]_vars => DayInv'
  BY StepsKeepTheDay
<1>3. DayInv /\ [Next]_vars
      => (/\ row.linked /\ row'.linked /\ row'.mandateAt # row.mandateAt
          /\ whole' /\ Day(row'.mandateAt) = Day(now)
          => row'.dayStart - Equity' >= 0 - traded')
  BY RebasesCount
<1> QED BY <1>1, <1>2, <1>3, RowAlwaysWhole, PTL DEF Spec, RebaseKeepsTheDay
=============================================================================
