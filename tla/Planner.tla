------------------------------ MODULE Planner ------------------------------
(***************************************************************************)
(* The pure part of one pass of the loop: what should rest on the venue    *)
(* for an intent (exec/plan.ts), what has to be done about the difference  *)
(* from what does rest (exec/reconcile.ts), and what stops the account     *)
(* outright (risk/governor.ts).                                            *)
(*                                                                         *)
(* An intent is handed over as a record                                    *)
(*   [id, coin, status, stop, late, forced]                                *)
(* of its row and of what this pass has found out about it: stop says that *)
(* its row carries a stop price, late that its horizon had passed when the *)
(* pass began, forced that the forecast behind it is gone or has turned.   *)
(***************************************************************************)
EXTENDS Venue

CONSTANT EntrySize     \* the lots an entry asks for (size_abs)

ASSUME EntrySizeAssumption == EntrySize \in Lots

(***************************************************************************)
(* plan.ts                                                                 *)
(***************************************************************************)

Want(n, role, sz) == [tag |-> n.id, coin |-> n.coin, role |-> role, sz |-> sz]

(* The pass is closing this intent rather than holding it.  (The slip lets *)
(* hold_to_target outlive the horizon.)                                    *)
IsClosing_NoHorizon(n, held) == n.forced \/ n.status = "closing"

IsClosing(n, held) ==
  \/ n.forced
  \/ n.status = "closing"
  \/ n.late /\ (held > 0 \/ n.status = "pending")

(* The orders that should exist for the intent, given the lots held.  The  *)
(* first two forms are slips: a plan that does not ask what is held before *)
(* it enters, and one that does not ask before it protects.                *)
Desired_EntersAnyway(n, held) ==
  IF n.status = "pending" /\ ~n.late THEN {Want(n, "entry", EntrySize)}
  ELSE {Want(n, r, held) : r \in {"tp", "sl"}}

Desired_ProtectsNothing(n, held) ==
  IF held = 0 /\ n.status = "pending" THEN {Want(n, "entry", EntrySize)}
  ELSE {Want(n, r, held) : r \in {"tp", "sl"}}

Desired(n, held) ==
  IF held = 0
  THEN IF n.status = "pending" /\ ~IsClosing(n, held) THEN {Want(n, "entry", EntrySize)} ELSE {}
  ELSE IF IsClosing(n, held)
       THEN {Want(n, "close", held)}
       ELSE {Want(n, r, held) : r \in {"tp"} \cup (IF n.stop THEN {"sl"} ELSE {})}

(***************************************************************************)
(* reconcile.ts                                                            *)
(***************************************************************************)

Action == [kind : {"place", "cancel"}, why : {"desired", "unwanted", "wrong-size", "duplicate"},
           oid : 0..MaxOrders, tag : Ids, coin : Coins, role : Roles, sz : Lots]

Place(w) == [kind |-> "place", why |-> "desired", oid |-> 0,
             tag |-> w.tag, coin |-> w.coin, role |-> w.role, sz |-> w.sz]

Cancel(o, why) == [kind |-> "cancel", why |-> why, oid |-> o.oid,
                   tag |-> o.tag, coin |-> o.coin, role |-> o.role, sz |-> o.sz]

SameKey(x, y) == x.tag = y.tag /\ x.role = y.role

(* Of the orders that carry the same intent and role, the code keeps the   *)
(* one the venue lists first: lead holds one order of every such key.      *)
Leads(orders) ==
  {lead \in SUBSET Ours(orders) :
     \A o \in Ours(orders) : Cardinality({l \in lead : SameKey(l, o)}) = 1}

(* The slip: an exit of any size will do.                                  *)
Matched_AnySize(o, wanted) == \E w \in wanted : SameKey(o, w)

Matched(o, wanted) == \E w \in wanted : SameKey(o, w) /\ o.sz = w.sz

(* Why a resting order of ours has to go, or "keep".  (The slip forgets    *)
(* the orders of intents that want nothing any more.)                      *)
Verdict_KeepsUnwanted(o, lead, wanted) ==
  IF o \in lead THEN "keep" ELSE "duplicate"

Verdict(o, lead, wanted) ==
  IF o \notin lead                          THEN "duplicate"
  ELSE IF ~ \E w \in wanted : SameKey(o, w) THEN "unwanted"
  ELSE IF ~ Matched(o, wanted)              THEN "wrong-size"
  ELSE "keep"

(* The slip goes through all the orders on the account.                    *)
Reconcile_All(wanted, orders, lead) ==
  {Cancel(o, Verdict(o, lead, wanted)) :
     o \in {r \in orders : Verdict(r, lead, wanted) # "keep"}}

Reconcile(wanted, orders, lead) ==
  {Cancel(o, Verdict(o, lead, wanted)) :
     o \in {r \in Ours(orders) : Verdict(r, lead, wanted) # "keep"}}
  \cup
  {Place(w) : w \in {v \in wanted : ~ \E o \in lead : Matched(o, {v})}}

(* Stops before targets, entries last; a re-size before everything.        *)
Rank(a) ==
  IF a.kind = "cancel"
  THEN IF a.why = "wrong-size" THEN 0 ELSE 3
  ELSE CASE a.role \in {"sl", "close"} -> 1
         [] a.role = "tp"              -> 2
         [] a.role = "entry"           -> 4

(* loop.ts: what a halted pass still does.  (The slip: nothing at all.)    *)
UnderHalt_Frozen(actions) == {}

UnderHalt(actions) ==
  {a \in actions : IF a.kind = "cancel" THEN a.why \in {"wrong-size", "duplicate"}
                                        ELSE a.role # "entry"}

(***************************************************************************)
(* governor.ts haltCheck.  cond is what the pass was handed beside the     *)
(* account: the operator's halt file, a breached daily-loss cap, or none.  *)
(***************************************************************************)
Conditions == {"none", "operator", "daily-loss"}

ForeignPositions(p, claimed) == {c \in Coins : p[c] # 0 /\ c \notin claimed}

StickyHalt_PositionsOnly(cond, p, claimed, orders) ==
  cond # "operator" /\ (ForeignPositions(p, claimed) # {} \/ cond = "daily-loss")

StickyHalt(cond, p, claimed, orders) ==
  /\ cond # "operator"
  /\ \/ ForeignPositions(p, claimed) # {}
     \/ orders # Ours(orders)
     \/ cond = "daily-loss"

Halts(cond, p, claimed, orders) ==
  cond = "operator" \/ StickyHalt(cond, p, claimed, orders)

=============================================================================
