------------------------------- MODULE Wizard -------------------------------
(***************************************************************************)
(* The connect screen: one button that walks as far along the handshake as *)
(* it can in one press (deposit, referral, fee, start, key, agent), while  *)
(* polls overwrite what it decides from and repaint what it shows.  Every  *)
(* step of the walk is awaited, and the person may leave and come back.    *)
(***************************************************************************)
EXTENDS Naturals, Sequences, FiniteSets

CONSTANTS
  Comers,    \* how people come: is the account funded, is the fee owed, its referral slot
  MaxMishaps \* bound: departures, and calls or prompts that fail

VARIABLES
  server,   \* what the account is: step, funds, deposit sent, fee, referral slot, agent
  page,     \* what the screen decides from: last, bal, feeOwed, ref, refChoice, approved
  screen,   \* the phase last painted, and whether its button is enabled
  box,      \* what the referral box holds
  showing,  \* whether the view is on screen
  busy, timer,
  chains,   \* chains of `advance` under way: the step each awaits
  reading,  \* reads in flight, by what they read
  gone, mishaps

wizardVars == <<server, page, screen, box, showing, busy, timer, chains, reading, gone, mishaps>>

NotRead == "not read"
Reads == {"status", "balance", "fee", "referral"}
NoChoice == "undecided"
Skipped == "skipped"

AnswerTo(r) ==
  CASE r = "status" -> server.step
    [] r = "balance" -> IF server.funded THEN "enough" ELSE "short"
    [] r = "fee" -> IF server.feeOwed THEN "owed" ELSE "clear"
    [] r = "referral" -> server.slot

\* The status and the fee may be old by the time they are heard; a balance only
\* ever becomes enough, and the referral's slot stays.
Asked(r) == IF r \in {"balance", "referral"} THEN "asked" ELSE AnswerTo(r)

WizardInit ==
  /\ \E c \in Comers : server = [step |-> "choose", funded |-> c.funded, sent |-> FALSE,
                               feeOwed |-> c.feeOwed, slot |-> c.slot, agent |-> FALSE]
  /\ page = [last |-> NotRead, bal |-> NotRead, feeOwed |-> FALSE, ref |-> NotRead,
             refChoice |-> NoChoice, approved |-> FALSE]
  /\ screen = [phase |-> "active", on |-> FALSE] /\ box = "" /\ showing = TRUE
  /\ busy = FALSE /\ timer = FALSE /\ chains = {} /\ gone = 0 /\ mishaps = 0
  /\ reading = [r \in Reads |-> IF r = "status" THEN AnswerTo(r) ELSE NotRead]

-----------------------------------------------------------------------------
(* What the button is for. *)

ReferralOffered(pg) ==
  pg.ref = "none" /\ pg.bal = "enough" /\ pg.last \notin {NotRead, "active"}

Pending(pg) == IF pg.last = "choose" THEN "start" ELSE pg.last
Phase_ApprovedFirst(pg) ==
  IF pg.last \in {NotRead, "active"} THEN "active"
  ELSE IF pg.bal = "short" THEN "fund"
  ELSE IF ReferralOffered(pg) /\ pg.refChoice = NoChoice THEN "referral"
  ELSE IF pg.last = "approve" /\ pg.approved THEN "arming"
  ELSE IF pg.feeOwed THEN "fee"
  ELSE Pending(pg)

Phase(pg) ==
  IF pg.last \in {NotRead, "active"} THEN "active"
  ELSE IF pg.bal = "short" THEN "fund" \* a balance nobody could read holds nobody up
  ELSE IF ReferralOffered(pg) /\ pg.refChoice = NoChoice THEN "referral"
  ELSE IF pg.feeOwed THEN "fee"
  ELSE IF pg.last = "approve" /\ pg.approved THEN "arming"
  ELSE Pending(pg)

\* The button, the panels and the box are painted together; an empty box is
\* filled with the desk's own code as its question is shown.
FilledBox(pg) == IF ReferralOffered(pg) /\ box = "" /\ pg.refChoice = NoChoice THEN "ours" ELSE box
PaintAction(pg) ==
  /\ screen' = [phase |-> Phase(pg), on |-> ~busy' /\ Phase(pg) \notin {"active", "minting", "arming"}]
  /\ box' = FilledBox(pg)

-----------------------------------------------------------------------------
(* The walk. *)

Walk == <<"fund", "referral", "fee", "start", "minting", "approve">>
After(step) == {Walk[j] : j \in {j \in 1..6 : \E i \in 1..j - 1 : Walk[i] = step}}

\* A step that is somebody's decision is taken only by a press that began on it.
IsTheirDecision(entry) == entry = "referral"

\* Where a chain that began at `entry` goes next, with the page as it is then:
\* a step it awaits, or "ends".
GoesOn(pg, code, steps, entry) ==
  LET told == [pg EXCEPT !.refChoice = code]
      Next(p, s) == [page |-> p, awaits |-> IF Phase(p) \in s THEN Phase(p) ELSE "ends"]
  IN  IF Phase(pg) # "referral" \/ "referral" \notin steps THEN Next(pg, steps \ {"referral"})
      ELSE IF ~IsTheirDecision(entry) \/ code = "" THEN [page |-> pg, awaits |-> "ends"]
      ELSE Next(told, After("referral"))

\* A chain that ends lets the button go and has the screen read again.
ChainEnds(c) ==
  /\ chains' = chains \ {c} /\ busy' = FALSE
  /\ reading' = [reading EXCEPT !["status"] = IF @ = NotRead THEN AnswerTo("status") ELSE @]
MovesTo(c, step) == chains' = (chains \ {c}) \cup {[c EXCEPT !.awaits = step]} /\ UNCHANGED <<busy, reading>>
\* Only a chain that began at the deposit still has the referral ahead of it.
Proceeds(c, pg, steps) ==
  LET next == GoesOn(pg, box, steps, "fund")
  IN  page' = next.page /\ IF next.awaits = "ends" THEN ChainEnds(c) ELSE MovesTo(c, next.awaits)

\* The press paints before it walks: the box it reads has been filled by then.
Press ==
  /\ showing /\ screen.on /\ ~busy /\ Phase(page) # "active"
  /\ \E choice \in {page.refChoice} \cup IF screen.phase = "referral" THEN {Skipped} ELSE {} :
       LET pg == [page EXCEPT !.refChoice = choice]
           next == GoesOn(pg, FilledBox(pg), {Walk[j] : j \in 1..6}, Phase(pg))
       IN  /\ page' = next.page
           /\ IF next.awaits = "ends"
              THEN ChainEnds([id |-> gone]) \* nothing to do, or an empty box
              ELSE /\ chains' = chains \cup {[id |-> gone, awaits |-> next.awaits]}
                   /\ busy' = TRUE /\ UNCHANGED reading
           /\ screen' = [phase |-> Phase(pg), on |-> FALSE] /\ box' = FilledBox(pg)
  /\ UNCHANGED <<server, showing, timer, gone, mishaps>>

Mishap == mishaps < MaxMishaps /\ mishaps' = mishaps + 1

\* The wallet declines, or a call fails.
ChainFails(c) ==
  /\ Mishap /\ ChainEnds(c)
  /\ UNCHANGED <<server, page, screen, box, showing, timer, gone>>

DepositIsSent(c) ==
  /\ c.awaits = "fund" /\ MovesTo(c, "credit")
  /\ server' = [server EXCEPT !.sent = TRUE]
  /\ UNCHANGED <<page, screen, box, showing, timer, gone, mishaps>>

\* A look at the balance while waiting for the credit; the wait ends with the view.
CreditIsLookedFor(c) ==
  /\ c.awaits = "credit"
  /\ IF server.funded THEN Proceeds(c, [page EXCEPT !.bal = "enough"], After("fund"))
     ELSE page' = [page EXCEPT !.bal = "short"] /\ ~showing /\ ChainEnds(c)
  /\ UNCHANGED <<server, screen, box, showing, timer, gone, mishaps>>

\* An account past `choose` needed nothing but the fee.
FeeIsApproved(c) ==
  /\ c.awaits = "fee"
  /\ server' = [server EXCEPT !.feeOwed = FALSE]
  /\ LET pg == [page EXCEPT !.feeOwed = FALSE]
     IN  IF pg.last # "choose" THEN page' = pg /\ ChainEnds(c) ELSE Proceeds(c, pg, After("fee"))
  /\ UNCHANGED <<screen, box, showing, timer, gone, mishaps>>

ConnectIsAsked(c) ==
  /\ c.awaits = "start"
  /\ server' = [server EXCEPT !.step = IF @ = "choose" THEN "minting" ELSE @]
  /\ LET pg == [page EXCEPT !.last = server'.step] IN Proceeds(c, pg, After("start")) /\ PaintAction(pg)
  /\ UNCHANGED <<showing, timer, gone, mishaps>>

\* A look at the status while waiting for the key: keyWaitVerdict.
KeyIsLookedFor(c) ==
  /\ c.awaits = "minting"
  /\ LET pg == [page EXCEPT !.last = server.step]
     IN  /\ IF server.step = "approve" THEN Proceeds(c, pg, After("minting"))
            ELSE page' = pg /\ (server.step = "active" \/ ~showing) /\ ChainEnds(c)
         /\ PaintAction(pg)
  /\ UNCHANGED <<server, showing, timer, gone, mishaps>>

AgentIsApproved(c) ==
  /\ c.awaits = "approve" /\ ChainEnds(c)
  /\ server' = [server EXCEPT !.agent = TRUE]
  /\ page' = [page EXCEPT !.approved = TRUE] /\ PaintAction(page')
  /\ UNCHANGED <<showing, timer, gone, mishaps>>

-----------------------------------------------------------------------------
(* The reads. *)

TimerFires ==
  /\ timer /\ showing /\ reading["status"] = NotRead
  /\ reading' = [reading EXCEPT !["status"] = AnswerTo("status")]
  /\ UNCHANGED <<server, page, screen, box, showing, busy, timer, chains, gone, mishaps>>

\* The status is painted, the other three are asked for and the timer is set.
StatusArrives ==
  /\ reading["status"] # NotRead
  /\ reading' = [r \in Reads |-> IF r = "status" THEN NotRead
                                 ELSE IF reading[r] = NotRead THEN Asked(r) ELSE reading[r]]
  /\ timer' = (showing /\ reading["status"] # "active")
  /\ UNCHANGED busy
  /\ page' = [page EXCEPT !.last = reading["status"]] /\ PaintAction(page')
  /\ UNCHANGED <<server, showing, chains, gone, mishaps>>

StatusFails ==
  /\ reading["status"] # NotRead /\ Mishap /\ reading' = [reading EXCEPT !["status"] = NotRead]
  /\ UNCHANGED <<server, page, screen, box, showing, busy, timer, chains, gone>>

\* A read is answered with what it saw, or it fails and leaves nothing known.
Arrives(r, field, known, unknown) ==
  /\ reading[r] # NotRead /\ reading' = [reading EXCEPT ![r] = NotRead]
  /\ \/ page' = [page EXCEPT ![field] = known] /\ UNCHANGED mishaps
     \/ page' = [page EXCEPT ![field] = unknown] /\ Mishap
  /\ UNCHANGED <<server, showing, busy, timer, chains, gone>>

\* A balance repaints the figures and not the button.
BalanceArrives == Arrives("balance", "bal", AnswerTo("balance"), NotRead) /\ UNCHANGED <<screen, box>>
FeeArrives == Arrives("fee", "feeOwed", reading["fee"] = "owed", FALSE) /\ PaintAction(page')
ReferralArrives == Arrives("referral", "ref", AnswerTo("referral"), NotRead) /\ PaintAction(page')

-----------------------------------------------------------------------------
(* The person and the desk. *)

Leave ==
  /\ showing /\ showing' = FALSE /\ busy' = FALSE /\ timer' = FALSE
  /\ page' = [page EXCEPT !.approved = FALSE]
  /\ UNCHANGED <<server, screen, box, chains, reading>>
Leaves == Mishap /\ gone' = gone + 1 /\ Leave

\* A screen that has stopped reading is left and opened again.
GivesUp == ~timer /\ reading["status"] = NotRead /\ chains = {} /\ page.last # "active" /\ Leave /\ UNCHANGED <<gone, mishaps>>

Returns ==
  /\ ~showing /\ showing' = TRUE
  /\ reading' = [reading EXCEPT !["status"] = IF @ = NotRead THEN AnswerTo("status") ELSE @]
  /\ UNCHANGED <<server, page, screen, box, busy, timer, chains, gone, mishaps>>

Credited ==
  /\ server.sent /\ ~server.funded /\ server' = [server EXCEPT !.funded = TRUE]
  /\ UNCHANGED <<page, screen, box, showing, busy, timer, chains, reading, gone, mishaps>>

DeskPasses ==
  /\ \/ server.step = "minting" /\ server' = [server EXCEPT !.step = "approve"]
     \/ /\ server.step = "approve" /\ server.agent /\ server.funded /\ ~server.feeOwed
        /\ server' = [server EXCEPT !.step = "active"]
  /\ UNCHANGED <<page, screen, box, showing, busy, timer, chains, reading, gone, mishaps>>

ChainGoesOn(c) ==
  \/ DepositIsSent(c) \/ CreditIsLookedFor(c) \/ FeeIsApproved(c)
  \/ ConnectIsAsked(c) \/ KeyIsLookedFor(c) \/ AgentIsApproved(c)

PageGoesOn ==
  \/ TimerFires \/ StatusArrives \/ BalanceArrives \/ FeeArrives \/ ReferralArrives

WizardNext ==
  \/ Press \/ Leaves \/ GivesUp \/ Returns \/ Credited \/ DeskPasses
  \/ PageGoesOn \/ StatusFails
  \/ \E c \in chains : ChainFails(c) \/ ChainGoesOn(c)

\* The desk and the chain pass, every read comes back, and a person who wants
\* to be connected signs, presses a button that is offered, and comes back.
WizardFair ==
  /\ WF_wizardVars(DeskPasses) /\ WF_wizardVars(Credited)
  /\ WF_wizardVars(TimerFires) /\ WF_wizardVars(StatusArrives) /\ WF_wizardVars(BalanceArrives)
  /\ WF_wizardVars(FeeArrives) /\ WF_wizardVars(ReferralArrives)
  /\ SF_wizardVars(Press) /\ WF_wizardVars(GivesUp) /\ WF_wizardVars(Returns)
  /\ WF_wizardVars(\E c \in chains : ChainGoesOn(c))

WizardSpec == WizardInit /\ [][WizardNext]_wizardVars
WizardFairSpec == WizardSpec /\ WizardFair

-----------------------------------------------------------------------------
(* No state of the screen is a dead end: whatever the polls, failures and
   departures make of the button, somebody who signs what is asked and presses
   what is offered is connected. *)
EverybodyGetsThrough == <>(server.step = "active")

(* A code is never applied "without anybody being asked": it is chosen by a
   press made once its question had been painted. *)
NobodyIsReferredUnasked ==
  [][page'.refChoice # page.refChoice => screen.phase = "referral"]_wizardVars

(* "The chain is running.  One at a time, and the button says so rather than
   queueing a second wallet prompt behind the first." *)
OneChainAtATime == Cardinality(chains) <= 1
=============================================================================
