------------------------------ MODULE SpeedLimit ----------------------------
(***************************************************************************)
(* The speed limit on the money constants.  The executor fingerprints the  *)
(* constants it was built with at each boot, writes a ledger row when they *)
(* moved and then the fingerprint file, and refuses a second move inside a *)
(* block of SampleFloor trades: the desk then manages exits and opens      *)
(* nothing.  A boot may be killed or throw between its writes; the unit    *)
(* starts it again, and the file may be lost.                              *)
(***************************************************************************)
EXTENDS Naturals, FiniteSets

CONSTANTS
  Leaves, Settings,   \* the money constants, and what one may be
  SampleFloor,        \* trades in a block
  Legacy,             \* whether a file without a predecessor may be found at first
  MaxBoots, MaxLosses \* bounds: boots, files lost

ASSUME ZeroIsNoSetting == 0 \notin Settings /\ Settings \subseteq Nat
ASSUME SomethingIsSet == Leaves # {}

VARIABLES
  compiled,   \* the constants of the build that runs next
  override,   \* CONFIG_OVERRIDE: the constants its hash names, or Unset
  file,       \* config-fingerprint.json, or NoFile
  rows,       \* the ledger's 'config' rows
  block,      \* trades opened since file.at and closed
  desk,       \* the process: up, halted for opening, and whether its boot threw
  refused,    \* constants refused since the limit last let a boot through (history)
  boots, losses

speedVars == <<compiled, override, file, rows, block, desk, refused, boots, losses>>

Constants == [Leaves -> Settings]
Unset == [k \in Leaves |-> 0]   \* no constants
NoFile == [at |-> 0, values |-> Unset, previous |-> Unset, refused |-> Unset]
Down == [up |-> FALSE, halted |-> FALSE, threw |-> FALSE]

SpeedInit ==
  /\ compiled \in Constants /\ override = Unset
  /\ \/ file = NoFile /\ rows = {}
     \/ /\ Legacy
        /\ file = [at |-> 1, values |-> compiled, previous |-> Unset, refused |-> Unset]
        /\ rows = {[at |-> 1, values |-> compiled]}
  /\ block = 0 /\ desk = Down /\ refused = {} /\ boots = 1 /\ losses = 0

-----------------------------------------------------------------------------
(* What the limit says of a boot. *)

Changed == file = NoFile \/ file.values # compiled
Standing == ~Changed /\ file.refused = compiled
Overrides == override = compiled
NotReverts ==
  {k \in Leaves : file.values[k] # compiled[k] /\ file.previous[k] # compiled[k]}

\* A move is let through if there is no block to be inside of, the block is
\* complete, every leaf that moved moved back, or somebody named this desk.
MoveAllowed ==
  \/ file = NoFile \/ file.previous = Unset
  \/ block >= SampleFloor
  \/ NotReverts = {}
  \/ Overrides
SpeedOk_MovesOnly == ~Changed \/ MoveAllowed
SpeedOk == IF Changed THEN MoveAllowed ELSE ~Standing \/ Overrides

Now == boots + 1

\* The file a boot leaves: a move is its own block, whatever the limit said; an
\* unmoved desk is given a predecessor, or has its refusal cleared.
FileAfter ==
  IF Changed
  THEN [at |-> Now, values |-> compiled,
        previous |-> IF file = NoFile THEN compiled ELSE file.values,
        refused |-> IF SpeedOk THEN Unset ELSE compiled]
  ELSE [file EXCEPT !.previous = IF @ = Unset THEN file.values ELSE @,
                    !.refused = IF Standing /\ Overrides THEN Unset ELSE @]
RowsAfter == rows \cup IF Changed THEN {[at |-> Now, values |-> compiled]} ELSE {}
BlockAfter == IF Changed THEN 0 ELSE block
RefusedAfter == IF SpeedOk THEN {} ELSE refused \cup {compiled}

-----------------------------------------------------------------------------
(* The executor's boots. *)

Boots == ~desk.up /\ boots < MaxBoots /\ boots' = boots + 1
Comes(halted, threw) == desk' = [up |-> TRUE, halted |-> halted, threw |-> threw]

BootEnds ==
  /\ Boots /\ Comes(~SpeedOk, FALSE)
  /\ rows' = RowsAfter /\ file' = FileAfter /\ block' = BlockAfter /\ refused' = RefusedAfter
  /\ UNCHANGED <<compiled, override, losses>>

\* A throw is never fatal, and leaves the limit unarmed for this boot: before
\* the row, between the row and the file, or after the file.
BootThrows ==
  /\ Boots /\ Changed /\ Comes(FALSE, TRUE)
  /\ \/ UNCHANGED <<rows, file, block, refused>>
     \/ rows' = RowsAfter /\ UNCHANGED <<file, block, refused>>
     \/ rows' = RowsAfter /\ file' = FileAfter /\ block' = BlockAfter /\ refused' = RefusedAfter
  /\ UNCHANGED <<compiled, override, losses>>

\* Killed between the row and the file, or after the file.
BootIsKilled ==
  /\ Boots /\ desk' = Down
  /\ rows' = RowsAfter
  /\ \/ UNCHANGED <<file, block, refused>>
     \/ file' = FileAfter /\ block' = BlockAfter /\ refused' = RefusedAfter
  /\ UNCHANGED <<compiled, override, losses>>

Stops ==
  /\ desk.up /\ desk' = Down
  /\ UNCHANGED <<compiled, override, file, rows, block, refused, boots, losses>>

\* A desk that opens closes trades; one that is halted adds none.
TradeCloses ==
  /\ desk.up /\ ~desk.halted /\ block < SampleFloor /\ block' = block + 1
  /\ UNCHANGED <<compiled, override, file, rows, desk, refused, boots, losses>>

Deploys ==
  /\ \E c \in Constants \ {compiled} : compiled' = c
  /\ UNCHANGED <<override, file, rows, block, desk, refused, boots, losses>>

OperatorSetsOverride ==
  /\ override' \in {Unset, compiled} /\ override' # override
  /\ UNCHANGED <<compiled, file, rows, block, desk, refused, boots, losses>>

FileIsLost ==
  /\ ~desk.up /\ file # NoFile /\ losses < MaxLosses /\ losses' = losses + 1
  /\ file' = NoFile
  /\ UNCHANGED <<compiled, override, rows, block, desk, refused, boots>>

SpeedNext ==
  \/ BootEnds \/ BootThrows \/ BootIsKilled \/ Stops
  \/ TradeCloses \/ Deploys \/ OperatorSetsOverride \/ FileIsLost

SpeedSpec == SpeedInit /\ [][SpeedNext]_speedVars

-----------------------------------------------------------------------------
(* A restart does not clear a refusal: a boot that reads its file through, on
   the constants the file says were refused and with no word for them, opens
   nothing, whatever was killed, thrown or started in between. *)
RestartDoesNotClear ==
  [][(desk'.up /\ ~desk.up /\ ~desk'.threw /\ compiled \in refused /\ losses = 0
      /\ file.values = compiled /\ override # compiled) => desk'.halted]_speedVars

(* While the desk runs on a boot that ended, the ledger holds the row of the
   move it runs on, dated as the file dates it: no move goes unrecorded, and
   the web tier, which counts the block from the ledger's last row, never takes
   it for complete before the executor does. *)
LedgerKnowsTheDesk ==
  (desk.up /\ ~desk.threw) => [at |-> file.at, values |-> file.values] \in rows

(* "A desk under a standing refusal opens nothing until a person says the
   hash": constants refused since the desk last opened do not open it again
   without a completed block or an override. *)
RefusedStaysRefused ==
  [][(desk'.up /\ ~desk.up /\ ~desk'.threw /\ ~desk'.halted) =>
       \/ compiled \notin refused \/ override = compiled
       \/ block >= SampleFloor \/ losses > 0]_speedVars

(* What a boot leaves is answered for (ops/config-event.ts): no restart opens a
   desk on refused constants, and none runs on constants its ledger has no row of. *)
BootsAnswerForTheDesk == RestartDoesNotClear /\ []LedgerKnowsTheDesk
=============================================================================
