---------------------------- MODULE AccessQueue ----------------------------
(***************************************************************************)
(* The access queue (exec/queue.ts, web/queue.ts): who waits, in which     *)
(* order, who is past the queue, and what one pass of it decides.  The     *)
(* rows of the queue are the web tier's, the admissions, accounts and      *)
(* connections are the ledger's; both processes read all of them and each  *)
(* writes its own.  Only Front, which extends this module, has steps.      *)
(*                                                                         *)
(* An address is an integer, which is also its place in the alphabet.  Of  *)
(* invited_at, posted_at and x_user_id only presence matters.              *)
(***************************************************************************)
EXTENDS Integers, FiniteSets, FiniteSetsExt

CONSTANTS
  Accounts,     \* the addresses
  MaxLive,      \* LIVE_MANDATE.maxLiveAccounts
  HoldTime,     \* SLOT_HOLD_HOURS
  Allowlist     \* HL_LIVE_ACCOUNT

ASSUME AccountsAssumption == Accounts \subseteq Nat /\ Accounts # {} /\ IsFiniteSet(Accounts)
ASSUME SlotAssumption == MaxLive \in Nat \ {0} /\ HoldTime \in Nat \ {0}
ASSUME AllowlistAssumption == Allowlist \subseteq Accounts

VARIABLES
  clock,
  entry,        \* queue_entries
  admission,    \* admissions.expires_at
  acct,         \* accounts
  conn          \* connections

queueVars == <<clock, entry, admission, acct, conn>>

-----------------------------------------------------------------------------
None == -1           \* SQL NULL

NoEntry   == [joined |-> None, invited |-> FALSE, posted |-> FALSE, linked |-> FALSE, by |-> None]
NoAccount == [limits |-> None, at |-> None]
NoConn    == [status |-> "none", agent |-> None, limits |-> None]

Queued    == {a \in Accounts : entry[a].joined # None}
Connected == {a \in Accounts : acct[a] # NoAccount}
InFlight  == {a \in Accounts : conn[a].status \notin {"none", "disconnected"}}

(* withLapses: an admission that ran out without its holder connecting     *)
(* takes the place of the day they joined.                                 *)
LapsedAt(a) ==
  IF admission[a] # None /\ a \notin Connected /\ admission[a] <= clock THEN admission[a] ELSE None

InLineSince(a) == Max({entry[a].joined, LapsedAt(a)})

(* referralCounts, over the rows it is given: the people who came through  *)
(* a link and linked an X account; a referral of oneself is dropped.       *)
Referrals(a, rows) == Cardinality({b \in rows \ {a} : entry[b].by = a /\ entry[b].linked})

(* queueOrder of some rows: four tiers and then the address.               *)
Rank(a, rows) == << IF entry[a].invited THEN 0 ELSE 1,
                    IF entry[a].posted  THEN 0 ELSE 1,
                    -Referrals(a, rows), InLineSince(a), a >>

Before(a, b, rows) ==
  LET x == Rank(a, rows)
      y == Rank(b, rows)
  IN  \E i \in 1..5 : x[i] < y[i] /\ \A j \in 1..(i - 1) : x[j] = y[j]

(* The place of a among some of those rows.                                *)
Place(a, some, rows) == 1 + Cardinality({b \in some : Before(b, a, rows)})

-----------------------------------------------------------------------------
(* admissionState, which the web tier asks before it records a request and *)
(* the executor before it mints a key.                                     *)
AdmissionState(a) ==
  CASE a \in Allowlist                                   -> "pinned"
    [] a \notin Allowlist /\ a \in Connected             -> "connected"
    [] a \notin Allowlist \cup Connected /\ a \in InFlight -> "in-flight"
    [] OTHER -> IF admission[a] = None THEN "queued"
                ELSE IF admission[a] > clock THEN "admitted" ELSE "lapsed"

Admitted(a) == AdmissionState(a) \in {"pinned", "connected", "in-flight", "admitted"}

(* stillWaiting, and positionOf in queueStatus: the place the screen shows *)
(* counts the referrals among those who still wait.                        *)
StillWaiting == {a \in Queued : ~Admitted(a)}
PositionShown(a) == IF a \in StillWaiting THEN Place(a, StillWaiting, StillWaiting) ELSE None

-----------------------------------------------------------------------------
(* planAdmissions.  A slot is used by a live account or by an admission    *)
(* that holds one; the connected, the connecting and the pinned do not     *)
(* wait.                                                                   *)
Held == {a \in Accounts : admission[a] > clock} \ Connected

Past_InFlightWait(live) == live \cup Held \cup Allowlist \cup (Queued \cap Connected)

Past(live) == live \cup Held \cup Allowlist \cup (Queued \cap (Connected \cup InFlight))

Free_LiveOnly(live) == IF Cardinality(live) >= MaxLive THEN 0 ELSE MaxLive - Cardinality(live)

Free(live) ==
  LET used == Cardinality(live \cup Held)
  IN  IF used >= MaxLive THEN 0 ELSE MaxLive - used

WaitingBehind(live) == Queued \ Past(live)
ToAdmit(live) == {a \in WaitingBehind(live) : Place(a, WaitingBehind(live), Queued) <= Free(live)}

(* serviceQueue.                                                           *)
ServiceQueue(live) ==
  admission' = [a \in Accounts |-> IF a \in ToAdmit(live) THEN clock + HoldTime ELSE admission[a]]
=============================================================================
