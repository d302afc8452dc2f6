------------------------------- MODULE Outage -------------------------------
(***************************************************************************)
(* The alarms the executor raises itself, for one account: its tick has    *)
(* thrown ErrorAlertAfter times running, and its agent's approval is about *)
(* to lapse, looked at once in ExpiryCheck.  The count of failures is in   *)
(* the process's memory and the state of the alarms in a file, saved after *)
(* each; the unit starts a process that dies.                              *)
(***************************************************************************)
EXTENDS Alerts

CONSTANTS
  ErrorAlertAfter,   \* ERROR_ALERT_AFTER
  ExpiryCheck,       \* EXPIRY_CHECK_MS
  WarnBefore,        \* RISK_PARAMS.agentExpiryWarnDays
  Lasts,             \* how long an approval lasts
  LastTick, MaxRestarts   \* bounds: the clock, restarts of the process

ASSUME OutageAssumption == /\ ErrorAlertAfter \in Nat \ {0} /\ Lasts \in Nat \ {0}
                           /\ WarnBefore \in 0..Lasts

VARIABLES
  instant,      \* the time
  errors,       \* consecutiveErrors, in memory
  checkedAt,    \* lastExpiryCheckMs, in memory
  validUntil,   \* the approval on the venue
  cached,       \* the copy the running process holds
  edges,        \* exec-alert-state.json
  channel,      \* what was last sent under each key
  looked,       \* when an expiry check last ended
  well,         \* the process's last tick of the account ended well
  restarts

outageVars == <<instant, errors, checkedAt, validUntil, cached, edges, channel, looked, well, restarts>>

ExecKeys == {"acct-error", "agent-expiry"}

OutageInit ==
  /\ instant = 1 /\ errors = 0 /\ checkedAt = Never
  /\ validUntil = Lasts /\ cached = Lasts
  /\ edges = [k \in ExecKeys |-> NoRecord] /\ channel = [k \in ExecKeys |-> NoRecord]
  /\ looked = Never /\ well = FALSE /\ restarts = 0

\* expiryStatus: firing from WarnBefore on, and for good once it has lapsed; an
\* agent the venue does not list has no expiry to tell.
ExpiryState(until, t) ==
  CASE until = Never          -> "unknown"
    [] until \in 1..t         -> "lapsed"
    [] until > t /\ until - t < WarnBefore -> "warning"
    [] OTHER                  -> "healthy"
Expiring(until, t) == ExpiryState(until, t) \in {"lapsed", "warning"}

\* edgeAlert: the message, then the file.
EdgeAlert(k, firing) ==
  /\ channel' = [channel EXCEPT ![k] = Told(@, edges[k], firing, instant)]
  /\ edges' = [edges EXCEPT ![k] = ApplyDecision(@, firing, instant)]

TickThrows ==
  /\ errors < ErrorAlertAfter   \* beyond it the count changes nothing
  /\ errors' = errors + 1 /\ well' = FALSE
  /\ IF errors' = ErrorAlertAfter THEN EdgeAlert("acct-error", TRUE) ELSE UNCHANGED <<edges, channel>>
  /\ UNCHANGED <<instant, checkedAt, validUntil, cached, looked, restarts>>

TickEnds ==
  /\ errors' = 0 /\ well' = TRUE
  /\ IF errors >= ErrorAlertAfter THEN EdgeAlert("acct-error", FALSE) ELSE UNCHANGED <<edges, channel>>
  /\ UNCHANGED <<instant, checkedAt, validUntil, cached, looked, restarts>>

\* The stamp is set before the read, so a read that fails waits as long.
ExpiryIsChecked ==
  /\ checkedAt = Never \/ instant - checkedAt >= ExpiryCheck
  /\ checkedAt' = instant
  /\ \/ /\ cached' = validUntil /\ looked' = instant
        /\ EdgeAlert("agent-expiry", Expiring(validUntil, instant))
     \/ UNCHANGED <<cached, looked, edges, channel>>
  /\ UNCHANGED <<instant, errors, validUntil, well, restarts>>

\* Killed between the message and the file, or anywhere else.
Restarted ==
  /\ restarts < MaxRestarts /\ restarts' = restarts + 1
  /\ errors' = 0 /\ well' = FALSE /\ checkedAt' = Never /\ cached' = validUntil
  /\ \/ UNCHANGED channel
     \/ /\ errors + 1 = ErrorAlertAfter
        /\ channel' = [channel EXCEPT !["acct-error"] = Told(@, edges["acct-error"], TRUE, instant)]
     \/ /\ checkedAt = Never \/ instant - checkedAt >= ExpiryCheck
        /\ channel' = [channel EXCEPT !["agent-expiry"] =
                         Told(@, edges["agent-expiry"], Expiring(validUntil, instant), instant)]
  /\ UNCHANGED <<instant, validUntil, edges, looked>>

OwnerRenews ==
  /\ validUntil' = instant + Lasts
  /\ UNCHANGED <<instant, errors, checkedAt, cached, edges, channel, looked, well, restarts>>

OwnerRevokes ==
  /\ validUntil # Never /\ validUntil' = Never
  /\ UNCHANGED <<instant, errors, checkedAt, cached, edges, channel, looked, well, restarts>>

TimeGoes ==
  /\ instant < LastTick /\ instant' = instant + 1
  /\ UNCHANGED <<errors, checkedAt, validUntil, cached, edges, channel, looked, well, restarts>>

OutageNext ==
  TickThrows \/ TickEnds \/ ExpiryIsChecked \/ Restarted \/ OwnerRenews \/ OwnerRevokes \/ TimeGoes

OutageSpec == OutageInit /\ [][OutageNext]_outageVars

-----------------------------------------------------------------------------
(* Each time the executor has looked, an approval about to lapse has been said
   to be within the last Repeat and one check, whatever restarts there were:
   the edge survives the process, and the hourly look does not spend a repeat. *)
LapseIsForetold ==
  (looked # Never /\ looked = instant /\ Expiring(validUntil, instant)) =>
     instant - channel["agent-expiry"].sent < Repeat

(* Once an account's tick ends well, it is not on the channel as failing. *)
RecoveryIsSaid == well => ~channel["acct-error"].firing

(* ... as long as the process that raised the alarm is the one that sees the
   end of it; and while an account is failing the channel says so. *)
OutagesAreTold ==
  /\ restarts = 0 => RecoveryIsSaid
  /\ errors >= ErrorAlertAfter => channel["acct-error"].firing

(* An owner hears in time that the desk is about to stop trading for them
   (exec/runner.ts): the approval that lapses, the tick that keeps failing. *)
OwnersHearInTime == LapseIsForetold /\ OutagesAreTold
=============================================================================
