------------------------------- MODULE Venue -------------------------------
(***************************************************************************)
(* The exchange account of one owner, as the execution loop sees it: a net *)
(* position per coin and the orders that rest against it.  The venue is    *)
(* not under src/; what is modelled here is what the code relies on, which *)
(* src/src/exec/paper.ts states by simulating it and                       *)
(* src/src/hl/orders.ts by decoding its answers.                           *)
(*                                                                         *)
(* Sizes are counted in lots and prices are left out: whether a trigger    *)
(* fires and how much of an order fills is the venue's choice.             *)
(***************************************************************************)
EXTENDS Integers, FiniteSets

CONSTANTS
  Coins,       \* the markets of this account
  Ids,         \* the intents that can ever exist on it: 1..n
  MaxOrders    \* bound: orders resting at once

ASSUME IdsAssumption       == Ids \subseteq Nat \ {0}
ASSUME MaxOrdersAssumption == MaxOrders \in Nat \ {0}

VARIABLES
  pos,         \* pos[c]: the net position in c, positive when long
  book         \* the resting orders

venueVars == <<pos, book>>

(***************************************************************************)
(* An order is known by its slot oid (its client order id, which ends in   *)
(* fresh random bytes), and by the tag and role that id carries: the       *)
(* intent that asked for it, or NoTag when the order is not ours.  Entries *)
(* and closes are immediate-or-cancel and never rest; a target and a stop  *)
(* rest as reduce-only triggers.                                           *)
(***************************************************************************)
NoTag == 0
Roles == {"entry", "tp", "sl", "close"}
Lots  == Nat \ {0}

Order ==
  [oid : 1..MaxOrders, tag : Ids, coin : Coins, role : {"tp", "sl"}, sz : Lots]
  \cup
  [oid : 1..MaxOrders, tag : {NoTag}, coin : Coins, role : {"foreign"}, sz : Lots]

Held(p, c)   == IF p[c] < 0 THEN -p[c] ELSE p[c]
Lesser(a, b) == IF a < b THEN a ELSE b
Ours(orders) == {o \in orders : o.tag # NoTag}
FreeSlots(used) == (1..MaxOrders) \ {o.oid : o \in used}

VenueTypeOK ==
  /\ pos \in [Coins -> Int]
  /\ book \subseteq Order

VenueInit ==
  /\ pos = [c \in Coins |-> 0]
  /\ book = {}

(***************************************************************************)
(* What a fill of k lots does to the positions p.  A reduce-only fill does *)
(* nothing against a flat coin or a position that points its own way, and  *)
(* never takes a position through flat; any other fill nets into it.       *)
(***************************************************************************)
Signed(buy, k) == IF buy THEN k ELSE -k

Reduced(p, c, buy, k) ==
  IF (buy /\ p[c] >= 0) \/ (~buy /\ p[c] <= 0)
  THEN p
  ELSE [p EXCEPT ![c] = @ + Signed(buy, Lesser(k, Held(p, c)))]

Netted(p, c, buy, k) == [p EXCEPT ![c] = @ + Signed(buy, k)]

(***************************************************************************)
(* Steps the venue and the account's owner take by themselves.             *)
(***************************************************************************)

(* A resting trigger fires, and k lots of it fill, before it leaves the    *)
(* book: its limit caps the slippage, so k may be less than its size.      *)
TriggerFires(o, k, buy) ==
  /\ o \in Ours(book)
  /\ book' = book \ {o}
  /\ pos' = Reduced(pos, o.coin, buy, k)

(* The venue takes a position away: a liquidation fills no order of ours.  *)
Liquidates(c) ==
  /\ pos[c] # 0
  /\ pos' = [pos EXCEPT ![c] = 0]
  /\ UNCHANGED book

(* The owner holds the master key and trades the account by hand, ...      *)
UserTrades(c, q) ==
  /\ pos[c] # q
  /\ pos' = [pos EXCEPT ![c] = q]
  /\ UNCHANGED book

(* ... rests an order of their own (one at a time is enough), ...          *)
UserPlaces(c, n) ==
  /\ book \subseteq Ours(book)
  /\ n \in FreeSlots(book)
  /\ book' = book \cup {[oid |-> n, tag |-> NoTag, coin |-> c,
                         role |-> "foreign", sz |-> 1]}
  /\ UNCHANGED pos

(* ... or takes one off the book, theirs or ours.                          *)
UserCancels(o) ==
  /\ o \in book
  /\ book' = book \ {o}
  /\ UNCHANGED pos

=============================================================================
