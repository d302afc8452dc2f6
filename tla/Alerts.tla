------------------------------- MODULE Alerts -------------------------------
(***************************************************************************)
(* When an alarm speaks: on the edge into a bad state, again every Repeat, *)
(* and once on the way out.  The watchdog and the executor share it, each  *)
(* with a state file of its own.                                           *)
(***************************************************************************)
EXTENDS Integers

CONSTANT Repeat   \* WATCHDOG_REPEAT_HOURS, and edgeAlert's twelve hours

ASSUME RepeatAssumption == Repeat \in Nat \ {0}

Never == 0        \* before the first instant
NoRecord == [firing |-> FALSE, sent |-> Never]

Decide_Strictly(prev, firing, now) ==
  CASE firing /\ ~prev.firing -> "onset"
    [] firing /\ prev.firing  -> IF now - prev.sent > Repeat THEN "repeat" ELSE "none"
    [] ~firing /\ prev.firing -> "resolved"
    [] OTHER                  -> "none"
Decide(prev, firing, now) ==
  CASE firing /\ ~prev.firing -> "onset"
    [] firing /\ prev.firing  -> IF now - prev.sent >= Repeat THEN "repeat" ELSE "none"
    [] ~firing /\ prev.firing -> "resolved"
    [] OTHER                  -> "none"

ApplyDecision_AlwaysStamped(prev, firing, now) == [firing |-> firing, sent |-> now]
ApplyDecision(prev, firing, now) ==
  [firing |-> firing, sent |-> IF Decide(prev, firing, now) # "none" THEN now ELSE prev.sent]

\* What the channel last heard, once a decision made on "prev" is sent.
Told(was, prev, firing, now) ==
  IF Decide(prev, firing, now) = "none" THEN was ELSE [firing |-> firing, sent |-> now]
=============================================================================
