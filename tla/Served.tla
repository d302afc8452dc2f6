-------------------------------- MODULE Served --------------------------------
(***************************************************************************)
(* The desk a web process serves one account (web/desk.ts buildDesk, the   *)
(* /api/desk route of web/server.ts): the ledger is read, the venue's      *)
(* answer is awaited, and what is built of the two is kept for some        *)
(* seconds.  Meanwhile the executor opens and closes positions, others     *)
(* trade at the venue, and the owner presses buttons that drop what is     *)
(* kept.                                                                   *)
(***************************************************************************)
EXTENDS Naturals, FiniteSets

CONSTANTS
  Markets,
  DeskTTL,             \* seconds a payload is kept
  LastSecond, MaxBuilds, MaxMoves \* bounds

VARIABLES
  second,
  linked, mode,        \* the account's row: whether it is there, live or paper
  paused, mayClear,    \* halted, and whether canClearHalt lets the owner clear it
  intent,              \* [Markets -> none | pending | open]
  position,            \* the positions of the account's own book
  others,              \* positions others opened at the venue
  waiting, presses,    \* presses not served yet, and how many were made
  slipped,             \* the last press found a build under way (history)
  builds,              \* builds awaiting the venue, with what each read
  kept,                \* deskCache: none or one payload, and when it was put there
  asked, moves

servedVars == <<second, linked, mode, paused, mayClear, intent, position, others, waiting, presses, slipped,
                builds, kept, asked, moves>>
accountVars == <<linked, mode, paused, mayClear, intent, position, others, waiting, presses, slipped, moves>>

\* "limits" stands for /api/mandate as well, which is served the same way.
Buttons == {"limits", "clear"}

ServedInit ==
  /\ second = 0 /\ linked = TRUE /\ mode \in {"live", "paper"}
  /\ paused \in BOOLEAN /\ mayClear \in BOOLEAN
  /\ intent = [c \in Markets |-> "none"] /\ position = {} /\ others = {}
  /\ waiting = {} /\ presses = 0 /\ slipped = FALSE /\ builds = {} /\ kept = {} /\ asked = 0 /\ moves = 0

\* Mutant: an intent whose order is still being placed is not read.
LiveIntents_Open == {c \in Markets : intent[c] = "open"}
LiveIntents == {c \in Markets : intent[c] # "none"}

\* What stands at the venue: a paper book is not there.
AtVenue == others \cup (IF mode = "live" THEN position ELSE {})
\* The positions in it that the desk never opened.
Strangers == IF mode = "live" THEN others \ position ELSE {}

Moves == moves < MaxMoves /\ moves' = moves + 1

\* Builds remember, for the properties alone, which markets' intents moved under them.
Touched(c) == builds' = {[b EXCEPT !.touched = @ \cup {c}] : b \in builds}

-----------------------------------------------------------------------------
(* The executor, and others at the venue. *)

Books(c, s) == intent' = [intent EXCEPT ![c] = s] /\ Touched(c)
Rest == UNCHANGED <<second, mode, mayClear, others, presses, slipped, kept, asked>>

IntentIsWritten(c) ==
  /\ linked /\ ~paused /\ intent[c] = "none" /\ Moves /\ Books(c, "pending")
  /\ Rest /\ UNCHANGED <<linked, paused, position, waiting>>

OrderFills(c) ==
  /\ intent[c] = "pending" /\ c \notin position /\ position' = position \cup {c} /\ Touched(c)
  /\ Rest /\ UNCHANGED <<linked, paused, intent, waiting, moves>>

FillIsRecorded(c) ==
  /\ intent[c] = "pending" /\ c \in position /\ Books(c, "open")
  /\ Rest /\ UNCHANGED <<linked, paused, position, waiting, moves>>

PositionCloses(c) ==
  /\ intent[c] = "open" /\ c \in position /\ position' = position \ {c} /\ Touched(c)
  /\ Rest /\ UNCHANGED <<linked, paused, intent, waiting, moves>>

CloseIsRecorded(c) ==
  /\ intent[c] = "open" /\ c \notin position /\ Books(c, "none")
  /\ Rest /\ UNCHANGED <<linked, paused, position, waiting, moves>>

\* A press is served: a cleared halt trades again.
PressIsServed(k) ==
  /\ k \in waiting /\ waiting' = waiting \ {k}
  /\ paused' = (paused /\ (k # "clear" \/ ~mayClear))
  /\ Rest /\ UNCHANGED <<linked, intent, position, builds, moves>>

\* Unlinked: the row goes, its intents are released, its positions stay.
AccountIsUnlinked ==
  /\ linked /\ Moves /\ linked' = FALSE /\ waiting' = {} /\ paused' = FALSE
  /\ intent' = [c \in Markets |-> "none"]
  /\ builds' = {[b EXCEPT !.touched = Markets] : b \in builds}
  /\ Rest /\ UNCHANGED <<position>>

OthersTrade(c) ==
  /\ Moves /\ others' = (others \cup {c}) \ (others \cap {c})
  /\ Touched(c)
  /\ UNCHANGED <<second, linked, mode, paused, mayClear, intent, position, waiting, presses, slipped, kept, asked>>

-----------------------------------------------------------------------------
(* The routes. *)

KeptAfterPress == {}

\* /api/settings, /api/mandate and /api/halt/clear.
OwnerPushes(k) ==
  /\ linked /\ presses < 2 /\ (k = "clear" => paused /\ mayClear)
  /\ waiting' = waiting \cup {k} /\ presses' = presses + 1
  /\ slipped' = (builds # {})
  /\ kept' = KeptAfterPress
  /\ UNCHANGED <<second, linked, mode, paused, mayClear, intent, position, others, builds, asked, moves>>

Fresh(p) == second - p.at < DeskTTL

\* haltBlock: whether the owner may clear the halt, and whether a press to do so waits.
HaltBlock == IF paused THEN [clearable |-> mayClear, pending |-> "clear" \in waiting]
             ELSE [clearable |-> FALSE, pending |-> FALSE]

\* An account without a row is told so and nothing else is read for it.
BaseOf(b) == [at |-> second, linked |-> b.linked, halted |-> b.halted, halt |-> b.halt, waits |-> b.waits,
              presses |-> b.presses, positions |-> {}, awaiting |-> {}, foreign |-> {}, mode |-> b.mode,
              \* What stood at the venue when it was read, and what moved since the ledger was (history).
              truth |-> {}, touched |-> b.touched]

Foreign(b, venue) == IF b.mode = "paper" THEN {} ELSE venue \ b.intents

\* The paper book is read after the venue has answered, like the venue's own.
BookOf(b, venue) == IF b.mode = "paper" THEN position ELSE venue

Payload(b) ==
  IF ~b.linked THEN BaseOf(b)
  ELSE [BaseOf(b) EXCEPT !.positions = b.intents,
                         !.awaiting = b.intents \ BookOf(b, AtVenue),
                         !.foreign = Foreign(b, AtVenue),
                         !.truth = Strangers]

\* What is read of the ledger before the venue is asked.
LedgerHalf ==
  [n |-> asked, linked |-> linked, mode |-> mode, halted |-> paused, halt |-> HaltBlock,
   waits |-> waiting, presses |-> presses, intents |-> LiveIntents, touched |-> {}]

\* /api/desk with nothing fresh to serve; only a linked account waits for the venue.
BuildBegins ==
  /\ asked < MaxBuilds /\ \A p \in kept : ~Fresh(p)
  /\ asked' = asked + 1
  /\ IF linked THEN builds' = builds \cup {LedgerHalf} /\ UNCHANGED kept
     ELSE kept' = {Payload(LedgerHalf)} /\ UNCHANGED builds
  /\ UNCHANGED <<second, accountVars>>

BuildEnds ==
  /\ \E b \in builds : builds' = builds \ {b} /\ kept' = {Payload(b)}
  /\ UNCHANGED <<second, accountVars, asked>>

\* The venue does not answer: the call is refused and what is kept stays.
BuildFails ==
  /\ \E b \in builds : builds' = builds \ {b}
  /\ UNCHANGED <<second, accountVars, kept, asked>>

SecondPasses ==
  /\ second < LastSecond /\ second' = second + 1
  /\ \E v \in BOOLEAN : mayClear' = v
  /\ UNCHANGED <<linked, mode, paused, intent, position, others, waiting, presses, slipped, builds, kept, asked, moves>>

ServedNext ==
  \/ \E c \in Markets : \/ IntentIsWritten(c) \/ OrderFills(c) \/ FillIsRecorded(c)
                        \/ PositionCloses(c) \/ CloseIsRecorded(c) \/ OthersTrade(c)
  \/ \E k \in Buttons : OwnerPushes(k) \/ PressIsServed(k)
  \/ AccountIsUnlinked \/ BuildBegins \/ BuildEnds \/ BuildFails \/ SecondPasses

ServedSpec == ServedInit /\ [][ServedNext]_servedVars

-----------------------------------------------------------------------------
(* A button pressed is not shown unpressed (server.ts deskCache.delete):    *)
(* whatever fresh payload the desk would serve has seen every press that  *)
(* was made while no build was under way.  One that was under way puts back *)
(* a payload built before the press, and it is served until it is stale.   *)
PressIsShown == \A p \in kept : Fresh(p) /\ linked /\ ~slipped => p.presses = presses

(* The desk says how many positions it did not open (desk.ts:829-838, what *)
(* the executor halts on), from a ledger and a venue read at two moments:  *)
(* in every market whose intent or position did not move in between, what  *)
(* it counts is a stranger's, and a stranger's position is counted unless  *)
(* an intent of its own in that market hides it.                           *)
StrangersAreSaid ==
  \A p \in kept : \A c \in Markets \ p.touched :
    /\ c \in p.foreign => c \in p.truth
    /\ c \in p.truth /\ p.linked => c \in p.foreign \cup p.positions

(* A served desk is true (web/desk.ts, web/server.ts), though it is built from
   reads of several moments and kept for later requests. *)
ServedIsTrue == PressIsShown /\ StrangersAreSaid
=============================================================================
