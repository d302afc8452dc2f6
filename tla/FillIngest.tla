----------------------------- MODULE FillIngest -----------------------------
(***************************************************************************)
(* The pass that reads an account's fills back from the venue              *)
(* (exec/fills.ts, ingestAccount) and halts the account on a liquidation   *)
(* or on a fill somebody else placed.  It walks the pages of               *)
(* userFillsByTime from its watermark, stores what it had not stored,      *)
(* moves the watermark, reads the funding, and only then halts on what the *)
(* walk counted: the count is a local of the pass, so an answer that never *)
(* comes or a crash between two awaits loses it.                           *)
(*                                                                         *)
(* Left out: the amounts a fill carries and what is settled from them, the *)
(* funding watermark, and the one-off rescan of ledgers older than the     *)
(* liquidation column; the first pass over an account starts Slack before  *)
(* its connect.                                                            *)
(***************************************************************************)
EXTENDS AccountRow

CONSTANTS
  Page,              \* PAGE, the most fills one answer carries
  Slack,             \* the minute of slack in earliestInterest
  FillSorts,         \* what attributeFill may say of a fill
  MaxFills,          \* bound: fills on the venue
  TradesUnlinked,    \* may the owner trade while the account is not linked
  MaxFaults          \* bound: calls that throw, crashes

ASSUME PageAssumption  == Page \in Nat \ {0} /\ Slack \in 0..FirstNow
ASSUME SortsAssumption == FillSorts \subseteq {"cloid", "foreign", "liquidation"}
ASSUME FillBounds      == MaxFills \in Nat /\ MaxFaults \in Nat /\ TradesUnlinked \in BOOLEAN

VARIABLES
  fills,      \* the fills the venue has of this account
  stored,     \* the rows of the fills table
  fillMark,   \* the watermark of the stream "fills"
  walk,       \* the locals of the pass
  answered,   \* history: fills a halt was raised for
  faults

fillVars   == <<fills, stored, fillMark>>
ingestVars == <<fillVars, walk, answered, faults>>

-----------------------------------------------------------------------------
Strangers == {"foreign", "liquidation"}

(* watched: the account was linked when it happened; fresh: a pass had     *)
(* completed its walk before it happened.                                  *)
Fill == [tid : Nat, at : Nat, sort : FillSorts, watched : BOOLEAN, fresh : BOOLEAN]

NoWalk == [at |-> "idle", backfill |-> FALSE, cursor |-> 0, latest |-> 0, news |-> {}]

IngestTypeOK ==
  /\ fills \subseteq Fill
  /\ stored \subseteq fills
  /\ fillMark \in Optional(Int)
  /\ walk \in [at : {"idle", "pages", "funding"}, backfill : BOOLEAN,
               cursor : Int, latest : Int, news : SUBSET fills]
  /\ answered \subseteq fills
  /\ faults \in 0..MaxFaults

IngestInit ==
  /\ fills = {} /\ stored = {} /\ fillMark = None
  /\ walk = NoWalk /\ answered = {} /\ faults = 0

-----------------------------------------------------------------------------
(* The venue.  The owner has always traded before the first connect;       *)
(* whether they also do while the account is unlinked is TradesUnlinked.   *)
FillArrives(sort) ==
  /\ Cardinality(fills) < MaxFills
  /\ row.linked \/ fillMark = None \/ TradesUnlinked
  /\ row.linked \/ sort = "foreign"
  /\ fills' = fills \cup {[tid |-> Cardinality(fills) + 1, at |-> now, sort |-> sort,
                           watched |-> row.linked, fresh |-> fillMark # None]}
  /\ UNCHANGED <<rowVars, stored, fillMark, walk, answered, faults>>

(* userFillsByTime: the oldest Page fills from an instant on.              *)
Older(f, g) == f.at < g.at \/ (f.at = g.at /\ f.tid < g.tid)
PageFrom(start) ==
  LET due == {f \in fills : f.at >= start}
  IN  {f \in due : Cardinality({g \in due : Older(g, f)}) < Page}

-----------------------------------------------------------------------------
From_PastTheMark == IF fillMark = None THEN row.since - Slack ELSE fillMark + 1

(* Resume at the watermark, not past it: fills may share an instant.       *)
From == IF fillMark = None THEN row.since - Slack ELSE fillMark

BeginWalk ==
  /\ walk.at = "idle"
  /\ LET from == From
     IN  walk' = [at |-> "pages", backfill |-> fillMark = None,
                  cursor |-> from, latest |-> from, news |-> {}]
  /\ UNCHANGED <<rowVars, fillVars, answered, faults>>

NewsOf_Backfill(page) == {f \in page \ stored : f.sort \in Strangers}
NewsOf_ForeignOnly(page) == {f \in page \ stored : f.sort = "foreign" /\ ~walk.backfill}

(* A fill is news when its row is new and the account was already watched. *)
NewsOf(page) ==
  {f \in page \ stored : f.sort \in Strangers /\ ~walk.backfill}

ReadPage ==
  /\ walk.at = "pages"
  /\ LET page   == PageFrom(walk.cursor)
         times  == {f.at : f \in page}
         latest == Max(times \cup {walk.latest})
         read   == [walk EXCEPT !.latest = latest, !.news = @ \cup NewsOf(page)]
     IN  /\ stored' = stored \cup page
         /\ \/ /\ Cardinality(page) < Page
               /\ fillMark' = Max({latest, fillMark})
               /\ walk' = [read EXCEPT !.at = "funding"]
            \/ /\ Cardinality(page) = Page
               /\ walk' = [read EXCEPT !.cursor = Max(times) + 1]
               /\ UNCHANGED fillMark
  /\ UNCHANGED <<rowVars, fills, answered, faults>>

(* A liquidation is the halt's kind even when somebody else traded too.    *)
KindOf(news) ==
  IF \E f \in news : f.sort = "liquidation" THEN "liquidation" ELSE "foreign-position"

(* The funding has answered; the halts follow.                             *)
Conclude ==
  /\ walk.at = "funding"
  /\ IF walk.news = {}
     THEN UNCHANGED <<row, events>>
     ELSE /\ row' = SetHalt(row, KindOf(walk.news))
          /\ events' = events \cup {Event("halt", now)}
  /\ answered' = answered \cup walk.news
  /\ walk' = NoWalk
  /\ now' = now + 1
  /\ UNCHANGED <<saved, fillVars, faults>>

(* userFillsByTime or userFunding throws; the runner logs it.              *)
WalkThrows ==
  /\ walk.at # "idle"
  /\ faults < MaxFaults
  /\ faults' = faults + 1
  /\ walk' = NoWalk
  /\ now' = now + 1
  /\ UNCHANGED <<row, saved, events, fillVars, answered>>
=============================================================================
