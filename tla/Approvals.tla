------------------------------ MODULE Approvals -----------------------------
(***************************************************************************)
(* The two signatures an account's owner gives on the page: the agent's    *)
(* approval, which is renewed by clearing the old entry and approving the  *)
(* same address again, and the builder fee's.  The web tier prepares a     *)
(* plan, the wallet signs its steps, and the web tier relays each to the   *)
(* venue.  Plans wait in memory, one of each kind a wallet, and a relay    *)
(* keeps the plan it began with while tabs, the owner on the venue, the    *)
(* clock and a restart of the web tier change everything else.             *)
(***************************************************************************)
EXTENDS Naturals, Sequences, FiniteSets

CONSTANTS
  Tabs,
  PlanTTL, Valid,  \* ticks a plan waits, and an approval lasts
  LastHour, MaxPlans, MaxMishaps \* bounds

ASSUME ValidAssumption == Valid \in Nat \ {0}

VARIABLES
  hour,
  held,        \* until when the venue holds the agent's address, or None
  plans,       \* every plan prepared, in order
  pending,     \* the plan waiting, by kind, or None
  tab,         \* what each tab is doing and says
  relays,      \* relays the web tier is awaiting
  taken,       \* <<plan, step>> the venue took (history)
  mishaps      \* acts on the venue by hand, and restarts of the web tier

approvalVars == <<hour, held, plans, pending, tab, relays, taken, mishaps>>

None == 0
Kinds == {"agent", "fee"}
Quiet == [at |-> "idle", kind |-> "agent", plan |-> None, step |-> 1, existing |-> FALSE]

ApprovalInit ==
  /\ hour = 1 /\ held \in {None, 2}
  /\ plans = <<>> /\ pending = [k \in Kinds |-> None]
  /\ tab = [t \in Tabs |-> Quiet]
  /\ relays = {} /\ taken = {} /\ mishaps = 0

Says(t, what) == tab' = [tab EXCEPT ![t].at = what]

-----------------------------------------------------------------------------
(* What is asked of the owner. *)

\* The plan: an address the venue holds is cleared first.
Order(kind, existing) ==
  IF kind = "fee" THEN <<"fee">> ELSE IF existing THEN <<"remove", "approve">> ELSE <<"approve">>
NewPlan(kind, existing) ==
  [kind |-> kind, at |-> hour, order |-> Order(kind, existing), until |-> hour + Valid, done |-> {}]

\* The venue's approvals are read, and awaited, before an agent's plan is made.
PrepareBegins(t) ==
  /\ tab[t].at \in {"idle", "failed", "cleared", "approved"} /\ Len(plans) < MaxPlans
  /\ \E k \in Kinds : tab' = [tab EXCEPT ![t] = [Quiet EXCEPT !.at = "preparing", !.kind = k, !.existing = held # None]]
  /\ UNCHANGED <<hour, held, plans, pending, relays, taken, mishaps>>

PrepareEnds(t) ==
  /\ tab[t].at = "preparing"
  /\ plans' = Append(plans, NewPlan(tab[t].kind, tab[t].existing))
  /\ pending' = [pending EXCEPT ![tab[t].kind] = Len(plans')]
  /\ tab' = [tab EXCEPT ![t].at = "signing", ![t].plan = Len(plans'), ![t].existing = FALSE]
  /\ UNCHANGED <<hour, held, relays, taken, mishaps>>

\* What a tab says of a step that failed: "the old entry was already cleared"
\* once a plan's first step was a removal and went through.
Failure(t) == IF tab[t].plan # None /\ tab[t].step > 1 THEN "cleared" ELSE "failed"
Fails(t) == Says(t, Failure(t))

OwnerDeclines(t) ==
  /\ tab[t].at \in {"preparing", "signing"} /\ Fails(t)
  /\ UNCHANGED <<hour, held, plans, pending, relays, taken, mishaps>>

TabIsReloaded(t) ==
  /\ tab[t].at # "idle" /\ tab' = [tab EXCEPT ![t] = Quiet]
  /\ UNCHANGED <<hour, held, plans, pending, relays, taken, mishaps>>

-----------------------------------------------------------------------------
(* The relay. *)

StepOf(t) == plans[tab[t].plan].order[tab[t].step]
Waiting(t) == pending[tab[t].kind]
Lapsed(p) == hour - plans[p].at > PlanTTL
FirstUndone(p) == CHOOSE i \in 1..Len(plans[p].order) :
                    /\ plans[p].order[i] \notin plans[p].done
                    /\ \A j \in 1..i - 1 : plans[p].order[j] \in plans[p].done
InOrder(p, step) ==
  /\ step \in {plans[p].order[i] : i \in 1..Len(plans[p].order)} \ plans[p].done
  /\ plans[p].kind = "fee" \/ plans[p].order[FirstUndone(p)] = step

\* The tab sends its signature; the plan is the one that waits at that moment.
RelayBegins(t) ==
  /\ tab[t].at = "signing"
  /\ LET p == Waiting(t)
     IN  IF p # None /\ ~Lapsed(p) /\ InOrder(p, StepOf(t))
         THEN /\ relays' = relays \cup {[tab |-> t, plan |-> p, signed |-> tab[t].plan, step |-> StepOf(t), answer |-> "none"]}
              /\ Says(t, "sending") /\ UNCHANGED pending
         ELSE /\ pending' = IF p # None /\ Lapsed(p) THEN [pending EXCEPT ![tab[t].kind] = None] ELSE pending
              /\ Fails(t) /\ UNCHANGED relays
  /\ UNCHANGED <<hour, held, plans, taken, mishaps>>

\* A tab hears only the relay it waits for.
Listens(r) == tab[r.tab].at = "sending" /\ tab[r.tab].plan = r.signed /\ StepOf(r.tab) = r.step

\* The signature is over another plan's words, so another signer is recovered.
RelayIsNotTheirs(r) ==
  /\ r.answer = "none" /\ r.signed # r.plan /\ relays' = relays \ {r}
  /\ IF Listens(r) THEN Fails(r.tab) ELSE UNCHANGED tab
  /\ UNCHANGED <<hour, held, plans, pending, taken, mishaps>>

\* The venue takes an action once, and will not approve an address it holds.
VenueAccepts(r) ==
  /\ <<r.plan, r.step>> \notin taken
  /\ CASE r.step = "remove" -> held # None
       [] r.step = "approve" -> held = None
       [] r.step = "fee" -> TRUE

\* A refusal comes back as HTTP 200, and is read from the body.
ReadExchangeResponse_ByStatus(accepted) == TRUE
ReadExchangeResponse(accepted) == accepted

RelayReachesVenue(r) ==
  /\ r.answer = "none" /\ r.signed = r.plan
  /\ \E heard \in BOOLEAN : \* or the answer is lost, or late
       relays' = (relays \ {r}) \cup
                 {[r EXCEPT !.answer = IF heard /\ ReadExchangeResponse(VenueAccepts(r)) THEN "ok" ELSE "error"]}
  /\ IF VenueAccepts(r)
     THEN /\ taken' = taken \cup {<<r.plan, r.step>>}
          /\ held' = CASE r.step = "remove" -> None [] r.step = "approve" -> plans[r.plan].until [] OTHER -> held
     ELSE UNCHANGED <<taken, held>>
  /\ UNCHANGED <<hour, plans, pending, tab, mishaps>>

RelayIsUnreachable(r) ==
  /\ r.answer = "none" /\ r.signed = r.plan
  /\ relays' = (relays \ {r}) \cup {[r EXCEPT !.answer = "error"]}
  /\ UNCHANGED <<hour, held, plans, pending, tab, taken, mishaps>>

\* The answer: the step is done on the plan the relay began with; a finished
\* plan empties its wallet's place, whatever waits there by now.
AllDone(p, done) == \A i \in 1..Len(plans[p].order) : plans[p].order[i] \in done

RelayEnds(r) ==
  /\ r.answer # "none" /\ relays' = relays \ {r}
  /\ IF r.answer = "ok"
     THEN LET done == plans[r.plan].done \cup {r.step}
          IN  /\ plans' = [plans EXCEPT ![r.plan].done = done]
              /\ pending' = IF AllDone(r.plan, done)
                            THEN [pending EXCEPT ![plans[r.plan].kind] = None] ELSE pending
              /\ IF ~Listens(r) THEN UNCHANGED tab
                 ELSE IF tab[r.tab].step < Len(plans[r.plan].order)
                 THEN tab' = [tab EXCEPT ![r.tab].at = "signing", ![r.tab].step = @ + 1]
                 ELSE Says(r.tab, "approved")
     ELSE /\ UNCHANGED <<plans, pending>>
          /\ IF Listens(r) THEN Fails(r.tab) ELSE UNCHANGED tab
  /\ UNCHANGED <<hour, held, taken, mishaps>>

-----------------------------------------------------------------------------
(* Everything else. *)

Mishap == mishaps < MaxMishaps /\ mishaps' = mishaps + 1

OwnerActsOnVenue ==
  /\ Mishap
  /\ held' = IF held = None THEN hour + Valid ELSE None
  /\ UNCHANGED <<hour, plans, pending, tab, relays, taken>>

VenuePrunes ==
  /\ held # None /\ held <= hour /\ held' = None
  /\ UNCHANGED <<hour, plans, pending, tab, relays, taken, mishaps>>

WebRestarts ==
  /\ Mishap
  /\ pending' = [k \in Kinds |-> None] /\ relays' = {}
  /\ tab' = [t \in Tabs |-> IF tab[t].at \in {"sending", "preparing"} THEN [tab[t] EXCEPT !.at = Failure(t)] ELSE tab[t]]
  /\ UNCHANGED <<hour, held, plans, taken>>

HourGoes ==
  /\ hour < LastHour /\ hour' = hour + 1
  /\ UNCHANGED <<held, plans, pending, tab, relays, taken, mishaps>>

ApprovalNext ==
  \/ \E t \in Tabs : PrepareBegins(t) \/ PrepareEnds(t) \/ OwnerDeclines(t) \/ TabIsReloaded(t) \/ RelayBegins(t)
  \/ \E r \in relays : RelayIsNotTheirs(r) \/ RelayReachesVenue(r) \/ RelayIsUnreachable(r) \/ RelayEnds(r)
  \/ OwnerActsOnVenue \/ VenuePrunes \/ WebRestarts \/ HourGoes

ApprovalSpec == ApprovalInit /\ [][ApprovalNext]_approvalVars

-----------------------------------------------------------------------------
(* A tab's last word is true of the venue: "Approved" is said of a plan whose
   last step the venue took, and "the old entry was already cleared" of one
   whose removal it took; refusals that arrive as success, plans replaced by
   another tab's and answers that come late never make a tab say otherwise. *)
TabsAreRight ==
  \A t \in Tabs :
    /\ tab[t].at = "approved" => <<tab[t].plan, StepOf(t)>> \in taken
    /\ tab[t].at = "cleared" => <<tab[t].plan, "remove">> \in taken
=============================================================================
