------------------------------- MODULE MCLive -------------------------------
(***************************************************************************)
(* The two machines of which something must come about: the connect screen *)
(* in front of a person, and the loop over the account once it is managed. *)
(* They share no state here; the scene chosen at the start says which one  *)
(* moves, and the other is pinned where nothing is expected of it.         *)
(***************************************************************************)
EXTENDS MCTick, Wizard

VARIABLE scene

(* The longest walk: nothing deposited, the fee owed, the referral's slot  *)
(* free.  The shorter ones are its ends.                                   *)
ThoseWhoCome == {[funded |-> FALSE, feeOwed |-> TRUE, slot |-> "none"]}

(* A screen behind which everything is done.                               *)
Settled ==
  /\ server = [step |-> "active", funded |-> TRUE, sent |-> FALSE, feeOwed |-> FALSE, slot |-> "none", agent |-> TRUE]
  /\ page = [last |-> "active", bal |-> "enough", feeOwed |-> FALSE, ref |-> "none",
             refChoice |-> Skipped, approved |-> FALSE]
  /\ screen = [phase |-> "active", on |-> FALSE] /\ box = "" /\ showing = TRUE
  /\ busy = FALSE /\ timer = FALSE /\ chains = {} /\ gone = 0 /\ mishaps = MaxMishaps
  /\ reading = [r \in Reads |-> NotRead]

LiveInit ==
  /\ scene \in {"loop", "screen"} /\ Init
  /\ IF scene = "screen" THEN WizardInit ELSE Settled

LiveNext ==
  \/ scene = "loop" /\ Next /\ UNCHANGED <<wizardVars, scene>>
  \/ scene = "screen" /\ WizardNext /\ UNCHANGED <<vars, scene>>

OfTheLoop == WF_vars(scene = "loop" /\ LoopStep) /\ SF_vars(scene = "loop" /\ CloseFills)
LiveSpec == LiveInit /\ [][LiveNext]_<<vars, wizardVars, scene>> /\ OfTheLoop /\ WizardFair
=============================================================================
