----------------------------- MODULE AccountRow -----------------------------
(***************************************************************************)
(* The row the ledger keeps for one account (store/db.ts, table accounts), *)
(* what survives its deletion (account_risk_state), the halt events it is  *)
(* read back from, and the rule that says who may clear a halt and when    *)
(* (risk/halt.ts, canClearHalt).  The operators are functions of the row,  *)
(* one for each statement of the Store; the modules that extend this one   *)
(* say who runs them.                                                      *)
(*                                                                         *)
(* Instants are integers, a UTC day is DayLength of them, and money is     *)
(* counted in a unit coarse enough for the daily loss cap to be the        *)
(* fraction LossNum / LossDen.                                             *)
(***************************************************************************)
EXTENDS Integers, FiniteSets, FiniteSetsExt

CONSTANTS
  DayLength,         \* instants in a UTC day
  LossNum, LossDen,  \* dailyLossPct
  NoAmount,          \* SQL NULL, for an amount: an equity may be any number, also -1
  Legacy,            \* whether the ledger may begin with an old halted row
  FirstNow, MaxNow   \* bound: the first and the last instant

ASSUME DayAssumption == DayLength \in Nat \ {0} /\ FirstNow \in Nat /\ MaxNow \in Nat /\ FirstNow <= MaxNow
ASSUME LegacyAssumption == Legacy \subseteq BOOLEAN
ASSUME CapAssumption == LossNum \in Nat \ {0} /\ LossDen \in Nat \ {0}
ASSUME AmountAssumption == NoAmount \notin Int

VARIABLES
  now,      \* the clock the executor reads
  row,      \* the accounts row
  saved,    \* the account_risk_state row
  events    \* the events of the kinds halt, unhalt and unhalt-refused

rowVars == <<now, row, saved, events>>

-----------------------------------------------------------------------------
None == -1           \* SQL NULL, for an instant or a day
Day(t) == t \div DayLength

StrictKinds == {"foreign-position", "foreign-order", "liquidation"}
Kinds == StrictKinds \cup {"daily-loss", "untyped"}

EventKinds == {"halt", "unhalt", "unhalt-refused"}
Event(what, at) == [what |-> what, at |-> at]

NoRow == [linked |-> FALSE, halted |-> FALSE, kind |-> "untyped", day |-> None,
          dayStart |-> NoAmount, since |-> None, mandateAt |-> None]
NothingSaved == [halted |-> FALSE, kind |-> "untyped", day |-> None, dayStart |-> NoAmount]

Optional(S) == S \cup {None}
Amounts == Int \cup {NoAmount}

RowTypeOK ==
  /\ now \in Nat
  /\ row \in [linked : BOOLEAN, halted : BOOLEAN, kind : Kinds, day : Optional(Nat),
              dayStart : Amounts, since : Optional(Nat), mandateAt : Optional(Nat)]
  /\ saved \in [halted : BOOLEAN, kind : Kinds, day : Optional(Nat), dayStart : Amounts]
  /\ events \subseteq [what : EventKinds, at : Nat]

(* A row halted before the ledger recorded kinds and halt events.          *)
OldRow == [linked |-> TRUE, halted |-> TRUE, kind |-> "untyped", day |-> Day(FirstNow),
           dayStart |-> NoAmount, since |-> FirstNow, mandateAt |-> FirstNow]

RowInit ==
  /\ now = FirstNow /\ saved = NothingSaved /\ events = {}
  /\ \E old \in Legacy : row = IF old THEN OldRow ELSE NoRow

-----------------------------------------------------------------------------
(* Reading the events back.  The halt in force is the first one recorded   *)
(* after the last clear; a decision is a clear or a refusal.               *)
Instants(whats) == {e.at : e \in {x \in events : x.what \in whats}}
LastOf(T, otherwise) == IF T = {} THEN otherwise ELSE Max(T)

HaltedAt ==
  LET since == LastOf(Instants({"unhalt"}), None)
      later == {t \in Instants({"halt"}) : t > since}
  IN  IF later = {} THEN None ELSE Min(later)

LastDecision == LastOf(Instants({"unhalt", "unhalt-refused"}), row.since)

(* dailyLossBreached: a baseline of nothing is never a loss.               *)
Breached(r, equity) ==
  r.dayStart # NoAmount /\ r.dayStart > 0 /\ (r.dayStart - equity) * LossDen >= LossNum * r.dayStart

(* canClearHalt.  Only a daily-loss halt is the owner's; the others are an *)
(* operator's without a time rule, and a halt nobody typed is an           *)
(* operator's under the daily-loss rules.                                  *)
Expired_LossOnly(at, equity) == equity # NoAmount => ~Breached(row, equity)

Expired(at, equity) ==
  /\ HaltedAt # None => Day(HaltedAt) # Day(at)
  /\ row.day # None => row.day = Day(at)
  /\ equity # NoAmount => ~Breached(row, equity)

MayClear(actor, at, equity) ==
  \/ actor = "operator" /\ row.kind \in StrictKinds
  \/ actor = "operator" /\ row.kind = "untyped" /\ Expired(at, equity)
  \/ row.kind = "daily-loss" /\ Expired(at, equity)

-----------------------------------------------------------------------------
(* The statements of the Store.                                            *)
SetHalt(r, kind) == [r EXCEPT !.halted = TRUE, !.kind = kind]

ClearHalt(actor, at) ==
  /\ row' = [row EXCEPT !.halted = FALSE, !.kind = "untyped"]
  /\ events' = events \cup {Event("unhalt", at)}

RollDay(r, equity) ==
  IF r.day # Day(now) \/ r.dayStart = NoAmount
  THEN [r EXCEPT !.day = Day(now), !.dayStart = equity] ELSE r

ApplyMandate_ForgivesTheDay(usable, realised, at) ==
  row' = [row EXCEPT !.mandateAt = at, !.day = Day(at), !.dayStart = usable]

ApplyMandate(usable, realised, at) ==
  row' = [row EXCEPT !.mandateAt = at, !.day = Day(at), !.dayStart = usable - realised]

(* connectAccount hands an existing row back and else writes one from the  *)
(* risk state the account carried out of its last disconnect.              *)
Written_FreshBaseline == [linked |-> TRUE, halted |-> saved.halted, kind |-> saved.kind,
            day |-> Day(now), dayStart |-> NoAmount, since |-> now, mandateAt |-> now]

Written == [linked |-> TRUE, halted |-> saved.halted, kind |-> saved.kind,
            day |-> IF saved.day = None THEN Day(now) ELSE saved.day,
            dayStart |-> saved.dayStart, since |-> now, mandateAt |-> now]

ConnectAccount ==
  IF row.linked
  THEN UNCHANGED <<row, events>>
  ELSE /\ row' = Written
       /\ events' = IF saved.halted THEN events \cup {Event("halt", now)} ELSE events

DisconnectAccount ==
  /\ saved' = [halted |-> row.halted, kind |-> row.kind,
               day |-> row.day, dayStart |-> row.dayStart]
  /\ row' = NoRow
=============================================================================
