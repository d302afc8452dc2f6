----------------------------- MODULE DeskProofs -----------------------------
(***************************************************************************)
(* What holds of the machines of the desk's operations for any constants   *)
(* of the build, any alarms, clocks and payloads, and any restarts: the    *)
(* speed limit on the money constants, the executor's own alarms, the      *)
(* watchdog's, the recorder's archive and meter, the public record of the  *)
(* rules, the reading of what was traded on which feed, the money of the   *)
(* positions, and the watch on the feed's own estimate.                    *)
(***************************************************************************)
EXTENDS Sigma, Feed, Watch, Outage, SpeedLimit, Rulebook, Reading, Budget, Extrema

-----------------------------------------------------------------------------
(* The speed limit.  What the file names was compiled once, so no file is  *)
(* taken for the one that is missing; while none was lost it still says of *)
(* the refused constants it names that they are.                           *)
FileIsSaid ==
  /\ compiled \in Constants /\ refused \subseteq Constants /\ losses \in Nat
  /\ file = [at |-> file.at, values |-> file.values, previous |-> file.previous, refused |-> file.refused]
  /\ file # NoFile => file.values \in Constants /\ [at |-> file.at, values |-> file.values] \in rows
  /\ desk.up /\ ~desk.threw => file # NoFile
  /\ losses = 0 => \A c \in refused : file.values = c => file.refused = c

LEMMA UnsetIsNone == \A c \in Constants : c # Unset
<1> SUFFICES ASSUME NEW c \in Constants, c = Unset PROVE FALSE
  OBVIOUS
<1>1. PICK k \in Leaves : TRUE
  BY SomethingIsSet
<1>2. c[k] \in Settings /\ c[k] = 0
  BY DEF Constants, Unset
<1> QED BY <1>2, ZeroIsNoSetting

LEMMA FilesSay ==
  ASSUME FileIsSaid, NEW f, f = FileAfter
  PROVE  /\ f = [at |-> f.at, values |-> f.values, previous |-> f.previous, refused |-> f.refused]
         /\ f # NoFile /\ f.values = compiled /\ [at |-> f.at, values |-> f.values] \in RowsAfter
         /\ ~SpeedOk => f.refused = compiled
<1>1. CASE Changed
  <2>1. f = [at |-> Now, values |-> compiled,
             previous |-> IF file = NoFile THEN compiled ELSE file.values,
             refused |-> IF SpeedOk THEN Unset ELSE compiled]
    BY <1>1 DEF FileAfter
  <2>2. f.values # Unset /\ NoFile.values = Unset
    BY <2>1, UnsetIsNone DEF FileIsSaid, NoFile
  <2> QED BY <1>1, <2>1, <2>2 DEF RowsAfter
<1>2. CASE ~Changed
  <2>1. /\ f = [at |-> f.at, values |-> f.values, previous |-> f.previous, refused |-> f.refused]
        /\ f.at = file.at /\ f.values = file.values
        /\ f.refused = IF Standing /\ Overrides THEN Unset ELSE file.refused
    BY <1>2 DEF FileAfter, FileIsSaid
  <2>2. file # NoFile /\ file.values = compiled
    BY <1>2 DEF Changed
  <2>3. f.values # Unset /\ NoFile.values = Unset
    BY <2>1, <2>2, UnsetIsNone DEF FileIsSaid, NoFile
  <2>4. ~SpeedOk => f.refused = compiled
    BY <1>2, <2>1 DEF SpeedOk, Standing
  <2> QED BY <2>1, <2>2, <2>3, <2>4 DEF FileIsSaid, RowsAfter
<1> QED BY <1>1, <1>2

LEMMA BootsKeepFile ==
  ASSUME FileIsSaid, UNCHANGED <<compiled, losses>>, file' = FileAfter, rows' = RowsAfter, refused' = RefusedAfter
  PROVE  FileIsSaid'
<1> DEFINE f == file'
<1>1. f = FileAfter
  OBVIOUS
<1> HIDE DEF f
<1>2. /\ f = [at |-> f.at, values |-> f.values, previous |-> f.previous, refused |-> f.refused]
      /\ f # NoFile /\ f.values = compiled /\ [at |-> f.at, values |-> f.values] \in RowsAfter
      /\ ~SpeedOk => f.refused = compiled
  BY <1>1, FilesSay
<1>3. \A c \in refused' : f.values = c => f.refused = c
  BY <1>2 DEF RefusedAfter
<1>4. refused' \subseteq Constants /\ compiled' \in Constants
  BY DEF RefusedAfter, FileIsSaid
<1> QED BY <1>2, <1>3, <1>4 DEF FileIsSaid, f

LEMMA SpeedStepsKeepFile == ASSUME FileIsSaid, [SpeedNext]_speedVars PROVE FileIsSaid'
<1>1. CASE BootEnds
  BY <1>1, BootsKeepFile DEF BootEnds
<1>2. CASE BootThrows
  <2>1. desk'.threw /\ UNCHANGED <<compiled, losses>> /\ rows \subseteq rows'
    BY <1>2 DEF BootThrows, Comes, RowsAfter
  <2>2. CASE UNCHANGED <<file, refused>>
    BY <2>1, <2>2 DEF FileIsSaid
  <2>3. CASE rows' = RowsAfter /\ file' = FileAfter /\ refused' = RefusedAfter
    BY <2>1, <2>3, BootsKeepFile
  <2> QED BY <1>2, <2>2, <2>3 DEF BootThrows
<1>3. CASE BootIsKilled
  <2>1. ~desk'.up /\ UNCHANGED <<compiled, losses>> /\ rows \subseteq rows' /\ rows' = RowsAfter
    BY <1>3 DEF BootIsKilled, Down, RowsAfter
  <2>2. CASE UNCHANGED <<file, refused>>
    BY <2>1, <2>2 DEF FileIsSaid
  <2>3. CASE file' = FileAfter /\ refused' = RefusedAfter
    BY <2>1, <2>3, BootsKeepFile
  <2> QED BY <1>3, <2>2, <2>3 DEF BootIsKilled
<1>4. CASE Stops \/ TradeCloses \/ Deploys \/ OperatorSetsOverride \/ UNCHANGED speedVars
  BY <1>4 DEF Stops, Down, TradeCloses, Deploys, OperatorSetsOverride, speedVars, FileIsSaid
<1>5. CASE FileIsLost
  <2>1. losses' # 0 /\ file' = NoFile /\ ~desk'.up /\ UNCHANGED <<compiled, refused>>
    BY <1>5 DEF FileIsLost, FileIsSaid
  <2> QED BY <1>5, <2>1 DEF FileIsLost, FileIsSaid, NoFile
<1> QED BY <1>1, <1>2, <1>3, <1>4, <1>5 DEF SpeedNext

(* No restart opens the desk on constants whose refusal its file carries,  *)
(* and the ledger has a row of what a desk runs on, whatever boots threw   *)
(* or were killed in between (ops/config-event.ts).                        *)
THEOREM BootsAnswer == SpeedSpec => BootsAnswerForTheDesk
<1>1. SpeedInit => FileIsSaid
  <2> SUFFICES ASSUME SpeedInit PROVE FileIsSaid
    OBVIOUS
  <2>1. ~desk.up /\ refused = {} /\ compiled \in Constants /\ losses = 0
    BY DEF SpeedInit, Down
  <2>2. CASE file = NoFile
    BY <2>1, <2>2 DEF FileIsSaid, NoFile
  <2>3. CASE /\ file = [at |-> 1, values |-> compiled, previous |-> Unset, refused |-> Unset]
             /\ rows = {[at |-> 1, values |-> compiled]}
    BY <2>1, <2>3 DEF FileIsSaid
  <2> QED BY <2>2, <2>3 DEF SpeedInit
<1>2. FileIsSaid /\ [SpeedNext]_speedVars => FileIsSaid'
  BY SpeedStepsKeepFile
<1>3. FileIsSaid => LedgerKnowsTheDesk
  BY DEF FileIsSaid, LedgerKnowsTheDesk
<1>4. FileIsSaid /\ [SpeedNext]_speedVars
      => (desk'.up /\ ~desk.up /\ ~desk'.threw /\ compiled \in refused /\ losses = 0
          /\ file.values = compiled /\ override # compiled => desk'.halted)
  <2> SUFFICES ASSUME FileIsSaid, [SpeedNext]_speedVars, desk'.up, ~desk.up, ~desk'.threw, compiled \in refused,
                      losses = 0, file.values = compiled, override # compiled
               PROVE  desk'.halted
    OBVIOUS
  <2>1. BootEnds
    BY DEF SpeedNext, BootThrows, Comes, BootIsKilled, Stops, Down, TradeCloses, Deploys, OperatorSetsOverride,
           FileIsLost, speedVars
  <2>2. file # NoFile
    BY UnsetIsNone DEF FileIsSaid, NoFile
  <2>3. file.refused = compiled
    BY DEF FileIsSaid
  <2>4. ~SpeedOk
    BY <2>2, <2>3 DEF SpeedOk, Changed, Standing, Overrides
  <2> QED BY <2>1, <2>4 DEF BootEnds, Comes
<1>5. SpeedSpec => RestartDoesNotClear
  BY <1>1, <1>2, <1>4, PTL DEF SpeedSpec, RestartDoesNotClear
<1>6. SpeedSpec => []LedgerKnowsTheDesk
  BY <1>1, <1>2, <1>3, PTL DEF SpeedSpec
<1> QED BY <1>5, <1>6 DEF BootsAnswerForTheDesk

-----------------------------------------------------------------------------
(* The executor's own alarms.  The channel has heard of an edge whatever   *)
(* the file says of it, for the message goes out before the file: without  *)
(* a restart the two agree.                                                *)
LEMMA TellingIsKept ==
  ASSUME NEW prev, NEW was, NEW firing \in BOOLEAN, NEW t \in Nat,
         prev.sent \in Nat, was.sent \in Nat, prev.sent <= was.sent, was.sent <= t,
         NEW next, next = ApplyDecision(prev, firing, t),
         NEW told, told = Told(was, prev, firing, t)
  PROVE  /\ next.firing = firing /\ next.sent \in Nat /\ told.sent \in Nat
         /\ next.sent <= told.sent /\ told.sent <= t /\ was.sent <= told.sent
         /\ firing => t - told.sent < Repeat
         /\ (told.firing = firing) \/ (told = was /\ prev.firing /\ firing) \/ (told = was /\ ~prev.firing /\ ~firing)
<1>1. CASE Decide(prev, firing, t) # "none"
  <2>1. next = [firing |-> firing, sent |-> t] /\ told = [firing |-> firing, sent |-> t]
    BY <1>1 DEF ApplyDecision, Told
  <2> QED BY <2>1, RepeatAssumption
<1>2. CASE Decide(prev, firing, t) = "none"
  <2>1. next = [firing |-> firing, sent |-> prev.sent] /\ told = was
    BY <1>2 DEF ApplyDecision, Told
  <2>2. firing => prev.firing /\ t - prev.sent < Repeat
    BY <1>2, RepeatAssumption DEF Decide
  <2>3. ~firing => ~prev.firing
    BY <1>2 DEF Decide
  <2> QED BY <2>1, <2>2, <2>3, RepeatAssumption
<1> QED BY <1>1, <1>2

Alarm == "acct-error"
Lapse == "agent-expiry"

RecordsAreKept ==
  /\ instant \in Nat \ {0} /\ errors \in Nat /\ validUntil \in Nat /\ restarts \in Nat
  /\ looked \in Nat /\ looked <= instant
  /\ edges = [k \in ExecKeys |-> edges[k]] /\ channel = [k \in ExecKeys |-> channel[k]]
  /\ \A k \in ExecKeys : /\ edges[k].sent \in Nat /\ channel[k].sent \in Nat
                         /\ edges[k].sent <= channel[k].sent /\ channel[k].sent <= instant

AlarmIsTold ==
  /\ edges[Alarm].firing => channel[Alarm].firing
  /\ errors >= ErrorAlertAfter => edges[Alarm].firing
  /\ restarts = 0 => /\ channel[Alarm].firing => errors >= ErrorAlertAfter
                     /\ well => errors < ErrorAlertAfter

LapseIsTold ==
  looked = instant /\ Expiring(validUntil, instant) => instant - channel[Lapse].sent < Repeat

OutageInv == RecordsAreKept /\ AlarmIsTold /\ LapseIsTold

(* What is sent under a key, whether or not the file is written after it.  *)
Sends(k, firing) == channel' = [channel EXCEPT ![k] = Told(@, edges[k], firing, instant)]

LEMMA SendingKeepsRecords ==
  ASSUME RecordsAreKept, NEW k \in ExecKeys, NEW firing \in BOOLEAN, Sends(k, firing), UNCHANGED instant,
         edges' = edges \/ EdgeAlert(k, firing)
  PROVE  /\ channel' = [j \in ExecKeys |-> channel'[j]] /\ edges' = [j \in ExecKeys |-> edges'[j]]
         /\ \A j \in ExecKeys \ {k} : channel'[j] = channel[j] /\ edges'[j] = edges[j]
         /\ \A j \in ExecKeys : /\ edges'[j].sent \in Nat /\ channel'[j].sent \in Nat
                                /\ edges'[j].sent <= channel'[j].sent /\ channel'[j].sent <= instant
                                /\ channel[j].sent <= channel'[j].sent
         /\ firing => instant - channel'[k].sent < Repeat
         /\ EdgeAlert(k, firing) => edges'[k].firing = firing
         /\ \/ channel'[k].firing = firing
            \/ channel'[k] = channel[k] /\ edges[k].firing /\ firing
            \/ channel'[k] = channel[k] /\ ~edges[k].firing /\ ~firing
<1> DEFINE prev == edges[k]
           was == channel[k]
           next == ApplyDecision(prev, firing, instant)
           told == Told(was, prev, firing, instant)
<1>1. prev.sent \in Nat /\ was.sent \in Nat /\ prev.sent <= was.sent /\ was.sent <= instant /\ instant \in Nat
  BY DEF RecordsAreKept
<1>2. /\ channel'[k] = told /\ \A j \in ExecKeys \ {k} : channel'[j] = channel[j]
      /\ channel' = [j \in ExecKeys |-> channel'[j]]
  BY DEF Sends, RecordsAreKept
<1>3. /\ edges' = edges \/ edges'[k] = next
      /\ \A j \in ExecKeys \ {k} : edges'[j] = edges[j]
      /\ edges' = [j \in ExecKeys |-> edges'[j]]
  BY DEF EdgeAlert, RecordsAreKept
<1> HIDE DEF prev, was, next, told
<1>4. /\ next.firing = firing /\ next.sent \in Nat /\ told.sent \in Nat
      /\ next.sent <= told.sent /\ told.sent <= instant /\ was.sent <= told.sent
      /\ firing => instant - told.sent < Repeat
      /\ (told.firing = firing) \/ (told = was /\ prev.firing /\ firing) \/ (told = was /\ ~prev.firing /\ ~firing)
  BY <1>1, TellingIsKept DEF next, told
<1>5. /\ edges'[k].sent \in Nat /\ channel'[k].sent \in Nat
      /\ edges'[k].sent <= channel'[k].sent /\ channel'[k].sent <= instant
      /\ channel[k].sent <= channel'[k].sent
  BY <1>1, <1>2, <1>3, <1>4 DEF prev, was
<1>6. \A j \in ExecKeys \ {k} : /\ edges'[j].sent \in Nat /\ channel'[j].sent \in Nat
                                /\ edges'[j].sent <= channel'[j].sent /\ channel'[j].sent <= instant
                                /\ channel[j].sent <= channel'[j].sent
  BY <1>2, <1>3 DEF RecordsAreKept
<1>7. EdgeAlert(k, firing) => edges'[k].firing = firing
  <2>1. EdgeAlert(k, firing) => edges'[k] = next
    BY DEF EdgeAlert, RecordsAreKept, next, prev
  <2> QED BY <2>1, <1>4
<1>8. \/ channel'[k].firing = firing
      \/ channel'[k] = channel[k] /\ edges[k].firing /\ firing
      \/ channel'[k] = channel[k] /\ ~edges[k].firing /\ ~firing
  BY <1>2, <1>4 DEF prev, was
<1> QED BY <1>2, <1>3, <1>4, <1>5, <1>6, <1>7, <1>8

\* An approval given now is healthy: it lasts longer than its warning days.
LEMMA FreshIsHealthy == ASSUME NEW t \in Nat PROVE ~Expiring(t + Lasts, t)
<1>1. PICK u : u = t + Lasts
  OBVIOUS
<1>2. /\ u \in Nat /\ u # 0 /\ u > t /\ ~(u - t < WarnBefore)
      /\ ~(u \in 1..t)
  BY <1>1, OutageAssumption
<1>3. ExpiryState(u, t) = "healthy"
  BY <1>2 DEF ExpiryState, Never
<1>4. ~Expiring(u, t)
  BY <1>3 DEF Expiring
<1> QED BY <1>1, <1>4

LEMMA OutageStepsKeep == ASSUME OutageInv, [OutageNext]_outageVars PROVE OutageInv'
<1> USE DEF OutageInv
<1>0. /\ Alarm \in ExecKeys /\ Lapse \in ExecKeys \ {Alarm} /\ Alarm \in ExecKeys \ {Lapse}
      /\ errors \in Nat /\ ErrorAlertAfter \in Nat \ {0} /\ instant \in Nat \ {0} /\ restarts \in Nat
      /\ looked \in Nat /\ looked <= instant
  BY OutageAssumption DEF ExecKeys, Alarm, Lapse, RecordsAreKept
<1>1. CASE UNCHANGED <<instant, errors, validUntil, edges, channel, looked, well, restarts>>
  BY <1>1 DEF RecordsAreKept, AlarmIsTold, LapseIsTold
<1>2. CASE TickThrows
  <2>1. /\ errors' = errors + 1 /\ errors' \in Nat /\ errors < ErrorAlertAfter /\ well' = FALSE
        /\ UNCHANGED <<instant, validUntil, looked, restarts>>
    BY <1>0, <1>2 DEF TickThrows
  <2>2. CASE errors' = ErrorAlertAfter
    <3>1. EdgeAlert(Alarm, TRUE) /\ Sends(Alarm, TRUE)
      BY <1>2, <2>2 DEF TickThrows, EdgeAlert, Sends, Alarm
    <3>2. /\ edges'[Alarm].firing = TRUE
          /\ (channel'[Alarm].firing = TRUE) \/ (channel'[Alarm] = channel[Alarm] /\ edges[Alarm].firing)
          /\ RecordsAreKept' /\ channel'[Lapse] = channel[Lapse]
      <4>1. /\ edges'[Alarm].firing = TRUE
            /\ \/ channel'[Alarm].firing = TRUE
               \/ channel'[Alarm] = channel[Alarm] /\ edges[Alarm].firing /\ TRUE
               \/ channel'[Alarm] = channel[Alarm] /\ ~edges[Alarm].firing /\ ~TRUE
        BY <1>0, <2>1, <3>1, SendingKeepsRecords
      <4>2. /\ channel' = [j \in ExecKeys |-> channel'[j]] /\ edges' = [j \in ExecKeys |-> edges'[j]]
            /\ channel'[Lapse] = channel[Lapse]
            /\ \A j \in ExecKeys : /\ edges'[j].sent \in Nat /\ channel'[j].sent \in Nat
                                   /\ edges'[j].sent <= channel'[j].sent /\ channel'[j].sent <= instant
        BY <1>0, <2>1, <3>1, SendingKeepsRecords
      <4>3. RecordsAreKept'
        BY <1>0, <2>1, <4>2 DEF RecordsAreKept
      <4> QED BY <4>1, <4>2, <4>3
    <3>3. channel'[Alarm].firing
      BY <3>2 DEF AlarmIsTold
    <3> QED BY <1>0, <2>1, <2>2, <3>2, <3>3 DEF AlarmIsTold, LapseIsTold
  <2>3. CASE errors' # ErrorAlertAfter
    <3>1. UNCHANGED <<edges, channel>> /\ errors' < ErrorAlertAfter
      BY <1>0, <1>2, <2>1, <2>3 DEF TickThrows
    <3> QED BY <1>0, <2>1, <3>1 DEF RecordsAreKept, AlarmIsTold, LapseIsTold
  <2> QED BY <2>2, <2>3
<1>3. CASE TickEnds
  <2>1. /\ errors' = 0 /\ UNCHANGED <<instant, validUntil, looked, restarts>>
        /\ errors' < ErrorAlertAfter
    BY <1>0, <1>3 DEF TickEnds
  <2>2. CASE errors >= ErrorAlertAfter
    <3>1. EdgeAlert(Alarm, FALSE) /\ Sends(Alarm, FALSE)
      BY <1>3, <2>2 DEF TickEnds, EdgeAlert, Sends, Alarm
    <3>2. /\ edges'[Alarm].firing = FALSE
          /\ (channel'[Alarm].firing = FALSE) \/ ~edges[Alarm].firing
          /\ RecordsAreKept' /\ channel'[Lapse] = channel[Lapse]
      BY <1>0, <2>1, <3>1, SendingKeepsRecords DEF RecordsAreKept
    <3>3. ~channel'[Alarm].firing
      BY <2>2, <3>2 DEF AlarmIsTold
    <3> QED BY <1>0, <2>1, <3>2, <3>3 DEF AlarmIsTold, LapseIsTold
  <2>3. CASE ~(errors >= ErrorAlertAfter)
    <3>1. UNCHANGED <<edges, channel>>
      BY <1>3, <2>3 DEF TickEnds
    <3> QED BY <1>0, <2>1, <2>3, <3>1 DEF RecordsAreKept, AlarmIsTold, LapseIsTold
  <2> QED BY <2>2, <2>3
<1>4. CASE ExpiryIsChecked /\ looked' = instant /\ EdgeAlert(Lapse, Expiring(validUntil, instant))
  <2>1. UNCHANGED <<instant, errors, validUntil, well, restarts>>
    BY <1>4 DEF ExpiryIsChecked
  <2> DEFINE firing == Expiring(validUntil, instant)
  <2>2. firing \in BOOLEAN
    BY DEF Expiring
  <2>3. firing' = firing
    BY <2>1
  <2> HIDE DEF firing
  <2>4. EdgeAlert(Lapse, firing) /\ Sends(Lapse, firing)
    BY <1>4 DEF EdgeAlert, Sends, firing
  <2>5. /\ firing => instant - channel'[Lapse].sent < Repeat
        /\ RecordsAreKept' /\ channel'[Alarm] = channel[Alarm] /\ edges'[Alarm] = edges[Alarm]
    BY <1>0, <1>4, <2>1, <2>2, <2>4, SendingKeepsRecords DEF RecordsAreKept
  <2>6. LapseIsTold'
    BY <2>1, <2>3, <2>5 DEF LapseIsTold, firing
  <2>7. AlarmIsTold'
    BY <2>1, <2>5 DEF AlarmIsTold
  <2> QED BY <2>5, <2>6, <2>7
<1>5. CASE Restarted
  <2>1. /\ errors' = 0 /\ well' = FALSE /\ restarts' = restarts + 1 /\ UNCHANGED <<instant, validUntil, edges, looked>>
    BY <1>5 DEF Restarted
  <2>2. ASSUME NEW k \in ExecKeys, NEW firing \in BOOLEAN, Sends(k, firing), k = Alarm => firing PROVE OutageInv'
    <3>1. /\ RecordsAreKept' /\ \A j \in ExecKeys : channel[j].sent <= channel'[j].sent
          /\ \A j \in ExecKeys \ {k} : channel'[j] = channel[j]
          /\ \/ channel'[k].firing = firing
             \/ channel'[k] = channel[k] /\ edges[k].firing /\ firing
             \/ channel'[k] = channel[k] /\ ~edges[k].firing /\ ~firing
      BY <1>0, <2>1, <2>2, SendingKeepsRecords DEF RecordsAreKept
    <3>2. edges[Alarm].firing => channel'[Alarm].firing
      BY <1>0, <2>2, <3>1 DEF AlarmIsTold
    <3>3. AlarmIsTold'
      BY <1>0, <2>1, <3>2 DEF AlarmIsTold
    <3>4. LapseIsTold'
      <4>1. channel[Lapse].sent <= channel'[Lapse].sent /\ channel[Lapse].sent \in Nat /\ channel'[Lapse].sent \in Nat
        BY <1>0, <3>1 DEF RecordsAreKept
      <4> QED BY <1>0, <2>1, <4>1, RepeatAssumption DEF LapseIsTold
    <3> QED BY <3>1, <3>3, <3>4
  <2>3. CASE UNCHANGED channel
    BY <1>0, <2>1, <2>3 DEF RecordsAreKept, AlarmIsTold, LapseIsTold
  <2>4. Expiring(validUntil, instant) \in BOOLEAN
    BY DEF Expiring
  <2>5. \/ UNCHANGED channel \/ Sends(Alarm, TRUE) \/ Sends(Lapse, Expiring(validUntil, instant))
    BY <1>5 DEF Restarted, Sends, Alarm, Lapse
  <2> QED BY <1>0, <2>2, <2>3, <2>4, <2>5
<1>6. CASE OwnerRenews \/ OwnerRevokes
  <2>1. UNCHANGED <<instant, errors, edges, channel, looked, well, restarts>> /\ validUntil' \in Nat
    BY <1>0, <1>6, OutageAssumption DEF OwnerRenews, OwnerRevokes, Never
  <2>2. ~Expiring(validUntil', instant)
    <3>1. CASE validUntil' = Never
      BY <1>0, <3>1 DEF Expiring, ExpiryState, Never
    <3>2. CASE validUntil' = instant + Lasts
      BY <1>0, <3>2, FreshIsHealthy
    <3> QED BY <1>6, <3>1, <3>2 DEF OwnerRenews, OwnerRevokes
  <2>3. ~Expiring(validUntil, instant)'
    BY <2>1, <2>2
  <2> QED BY <2>1, <2>3 DEF RecordsAreKept, AlarmIsTold, LapseIsTold
<1>7. CASE TimeGoes
  <2>1. instant' = instant + 1 /\ UNCHANGED <<errors, validUntil, edges, channel, looked, well, restarts>>
    BY <1>7 DEF TimeGoes
  <2>2. looked' # instant' /\ RecordsAreKept'
    BY <1>0, <2>1 DEF RecordsAreKept
  <2> QED BY <2>1, <2>2 DEF AlarmIsTold, LapseIsTold
<1>8. ExpiryIsChecked => \/ looked' = instant /\ EdgeAlert(Lapse, Expiring(validUntil, instant))
                         \/ UNCHANGED <<instant, errors, validUntil, edges, channel, looked, well, restarts>>
  BY DEF ExpiryIsChecked, Lapse
<1> QED BY <1>1, <1>2, <1>3, <1>4, <1>5, <1>6, <1>7, <1>8 DEF OutageNext, outageVars

(* An owner hears that the desk is about to stop trading for them: of an   *)
(* approval within its warning days at every look, and of a tick that      *)
(* fails for as long as it fails, through any restarts; without one, of    *)
(* its end (exec/runner.ts, edgeAlert; risk/expiry.ts).                    *)
THEOREM OwnersHear == OutageSpec => []OwnersHearInTime
<1>1. OutageInit => OutageInv
  <2> SUFFICES ASSUME OutageInit PROVE OutageInv
    OBVIOUS
  <2>1. RecordsAreKept
    BY OutageAssumption DEF OutageInit, RecordsAreKept, NoRecord, Never
  <2>2. AlarmIsTold
    BY OutageAssumption DEF OutageInit, AlarmIsTold, NoRecord, Alarm, ExecKeys
  <2>3. LapseIsTold
    BY DEF OutageInit, LapseIsTold, Never
  <2> QED BY <2>1, <2>2, <2>3 DEF OutageInv
<1>2. OutageInv /\ [OutageNext]_outageVars => OutageInv'
  BY OutageStepsKeep
<1>3. OutageInv => OwnersHearInTime
  <2> SUFFICES ASSUME OutageInv PROVE OwnersHearInTime
    OBVIOUS
  <2>1. LapseIsForetold
    BY DEF OutageInv, LapseIsTold, LapseIsForetold, Lapse
  <2>2. OutagesAreTold
    BY OutageAssumption DEF OutageInv, RecordsAreKept, AlarmIsTold, OutagesAreTold, RecoveryIsSaid, Alarm
  <2> QED BY <2>1, <2>2 DEF OwnersHearInTime
<1> QED BY <1>1, <1>2, <1>3, PTL DEF OutageSpec

-----------------------------------------------------------------------------
(* The watchdog.  A run makes at most one check under a key: its checks,   *)
(* taken as a set, are those of its parts.                                 *)
Verdict == [key : WatchKeys, firing : BOOLEAN]
Made(checks) == {checks[i] : i \in 1..Len(checks)}
ExecWatch == {"exec-stale", "halt-burst", "exec-halted"}
Steady == WatchKeys \ DailyKeys

LEMMA MadeOfOne == ASSUME NEW v \in Verdict PROVE <<v>> \in Seq(Verdict) /\ Made(<<v>>) = {v}
BY DEF Made

LEMMA MadeOfBoth ==
  ASSUME NEW s \in Seq(Verdict), NEW t \in Seq(Verdict)
  PROVE  s \o t \in Seq(Verdict) /\ Made(s \o t) = Made(s) \cup Made(t)
<1>1. s \o t \in Seq(Verdict) /\ Len(s) \in Nat /\ Len(t) \in Nat /\ Len(s \o t) = Len(s) + Len(t)
  OBVIOUS
<1>2. \A i \in 1..Len(s) + Len(t) : (s \o t)[i] = IF i <= Len(s) THEN s[i] ELSE t[i - Len(s)]
  OBVIOUS
<1>3. Made(s \o t) \subseteq Made(s) \cup Made(t)
  <2> SUFFICES ASSUME NEW i \in 1..Len(s) + Len(t) PROVE (s \o t)[i] \in Made(s) \cup Made(t)
    BY <1>1 DEF Made
  <2>1. CASE i <= Len(s)
    BY <1>1, <1>2, <2>1 DEF Made
  <2>2. CASE ~(i <= Len(s))
    <3>1. i - Len(s) \in 1..Len(t)
      BY <1>1, <2>2
    <3> QED BY <1>1, <1>2, <2>2, <3>1 DEF Made
  <2> QED BY <2>1, <2>2
<1>4. Made(s) \subseteq Made(s \o t)
  <2> SUFFICES ASSUME NEW i \in 1..Len(s) PROVE s[i] \in Made(s \o t)
    BY DEF Made
  <2>1. i \in 1..Len(s) + Len(t) /\ (s \o t)[i] = s[i]
    BY <1>1, <1>2
  <2> QED BY <1>1, <2>1 DEF Made
<1>5. Made(t) \subseteq Made(s \o t)
  <2> SUFFICES ASSUME NEW i \in 1..Len(t) PROVE t[i] \in Made(s \o t)
    BY DEF Made
  <2>1. /\ Len(s) + i \in 1..Len(s) + Len(t) /\ ~(Len(s) + i <= Len(s))
        /\ Len(s) + i - Len(s) = i
    BY <1>1
  <2>2. (s \o t)[Len(s) + i] = t[i]
    BY <1>2, <2>1
  <2> QED BY <1>1, <2>1, <2>2 DEF Made
<1> QED BY <1>1, <1>3, <1>4, <1>5

LEMMA MadeOfTwo ==
  ASSUME NEW v \in Verdict, NEW w \in Verdict
  PROVE  <<v>> \o <<w>> \in Seq(Verdict) /\ Made(<<v>> \o <<w>>) = {v, w}
<1>1. /\ <<v>> \in Seq(Verdict) /\ Made(<<v>>) = {v}
      /\ <<w>> \in Seq(Verdict) /\ Made(<<w>>) = {w}
  BY MadeOfOne
<1>2. /\ <<v>> \o <<w>> \in Seq(Verdict)
      /\ Made(<<v>> \o <<w>>) = Made(<<v>>) \cup Made(<<w>>)
  BY <1>1, MadeOfBoth
<1> QED BY <1>1, <1>2

LEMMA MadeOfNone == <<>> \in Seq(Verdict) /\ Made(<<>>) = {}
BY DEF Made

(* What a run says of the keys it says something of every hour.            *)
Says(k, firing, r) ==
  \/ k = "stale" /\ firing = (hour - recBeat > StaleAfter)
  \/ k = "credits" /\ firing = r.creditsLow
  \/ execBeat.at # Never /\ \/ k = "exec-stale" /\ firing = (hour - execBeat.at > ExecStaleAfter)
                            \/ k = "halt-burst" /\ firing = (execBeat.recentHalts >= HaltCount)
                            \/ k = "exec-halted" /\ firing = execBeat.halted

LEMMA ChecksSay ==
  ASSUME NEW r \in Readings, execBeat.halted \in BOOLEAN, NEW checks, checks = Checks(r)
  PROVE  /\ checks \in Seq(Verdict)
         /\ \A m \in Made(checks) : m.key \in Steady => Says(m.key, m.firing, r)
         /\ \A k \in Steady : k \in {"stale", "credits"} \/ execBeat.at # Never => \E m \in Made(checks) : m.key = k
<1> DEFINE quiet == hour - recBeat > StaleAfter
           gone == hour - execBeat.at > ExecStaleAfter
           many == execBeat.recentHalts >= HaltCount
           stale == [key |-> "stale", firing |-> quiet]
           credits == [key |-> "credits", firing |-> r.creditsLow]
           silent == [key |-> "exec-stale", firing |-> gone]
           burst == [key |-> "halt-burst", firing |-> many]
           halted == [key |-> "exec-halted", firing |-> execBeat.halted]
           line == [key |-> "feed-line", firing |-> FALSE]
           unscored == [key |-> "feed-unscored", firing |-> r.refused]
           sigma == [key |-> "feed-sigma", firing |-> r.outside]
           broken == [key |-> "feed-contract-breaking", firing |-> BreakToday]
           exec == When(execBeat.at # Never, <<silent>> \o <<burst>> \o <<halted>>)
           scored == When(~r.refused, <<sigma>>)
           daily == When(~SpokeToday /\ r.archiveReads, <<line>> \o <<unscored>> \o scored \o <<broken>>)
<1>1. checks = <<stale>> \o <<credits>> \o exec \o daily
  BY DEF Checks, Check
<1>2. /\ r.creditsLow \in BOOLEAN /\ r.refused \in BOOLEAN /\ r.outside \in BOOLEAN /\ BreakToday \in BOOLEAN
      /\ quiet \in BOOLEAN /\ gone \in BOOLEAN /\ many \in BOOLEAN
  BY WatchReadings DEF BreakToday
<1> HIDE DEF quiet, gone, many
<1>3. /\ stale \in Verdict /\ credits \in Verdict /\ silent \in Verdict /\ burst \in Verdict /\ halted \in Verdict
      /\ line \in Verdict /\ unscored \in Verdict /\ sigma \in Verdict /\ broken \in Verdict
      /\ stale.key = "stale" /\ credits.key = "credits"
      /\ silent.key = "exec-stale" /\ burst.key = "halt-burst" /\ halted.key = "exec-halted"
      /\ {line.key, unscored.key, sigma.key, broken.key} \subseteq DailyKeys
      /\ stale.firing = quiet /\ credits.firing = r.creditsLow
      /\ silent.firing = gone /\ burst.firing = many /\ halted.firing = execBeat.halted
  <2>1. stale \in Verdict /\ stale.key = "stale" /\ stale.firing = quiet
    BY <1>2 DEF Verdict, WatchKeys
  <2>2. credits \in Verdict /\ credits.key = "credits" /\ credits.firing = r.creditsLow
    BY <1>2 DEF Verdict, WatchKeys
  <2>3. silent \in Verdict /\ silent.key = "exec-stale" /\ silent.firing = gone
    BY <1>2 DEF Verdict, WatchKeys
  <2>4. burst \in Verdict /\ burst.key = "halt-burst" /\ burst.firing = many
    BY <1>2 DEF Verdict, WatchKeys
  <2>5. halted \in Verdict /\ halted.key = "exec-halted" /\ halted.firing = execBeat.halted
    BY DEF Verdict, WatchKeys
  <2>6. line \in Verdict /\ line.key \in DailyKeys
    BY DEF Verdict, WatchKeys, DailyKeys
  <2>7. unscored \in Verdict /\ unscored.key \in DailyKeys
    BY <1>2 DEF Verdict, WatchKeys, DailyKeys
  <2>8. sigma \in Verdict /\ sigma.key \in DailyKeys
    BY <1>2 DEF Verdict, WatchKeys, DailyKeys
  <2>9. broken \in Verdict /\ broken.key \in DailyKeys
    BY <1>2 DEF Verdict, WatchKeys, DailyKeys
  <2> HIDE DEF stale, credits, silent, burst, halted, line, unscored, sigma, broken
  <2> QED BY <2>1, <2>2, <2>3, <2>4, <2>5, <2>6, <2>7, <2>8, <2>9
<1> HIDE DEF stale, credits, silent, burst, halted, line, unscored, sigma, broken
<1>5. /\ exec \in Seq(Verdict)
      /\ execBeat.at # Never => Made(exec) = {silent, burst, halted}
      /\ execBeat.at = Never => Made(exec) = {}
  <2>1. <<silent>> \o <<burst>> \in Seq(Verdict) /\ Made(<<silent>> \o <<burst>>) = {silent, burst}
    BY <1>3, MadeOfTwo
  <2>2. /\ <<silent>> \o <<burst>> \o <<halted>> \in Seq(Verdict)
        /\ Made(<<silent>> \o <<burst>> \o <<halted>>) = {silent, burst, halted}
    BY <1>3, <2>1, MadeOfOne, MadeOfBoth
  <2> QED BY <2>2, MadeOfNone DEF When
<1>6. daily \in Seq(Verdict) /\ \A m \in Made(daily) : m.key \in DailyKeys
  <2>1. scored \in Seq(Verdict) /\ Made(scored) \subseteq {sigma}
    BY <1>3, MadeOfOne, MadeOfNone DEF When
  <2> HIDE DEF scored
  <2>2. <<line>> \o <<unscored>> \in Seq(Verdict) /\ Made(<<line>> \o <<unscored>>) = {line, unscored}
    BY <1>3, MadeOfTwo
  <2>3. /\ <<line>> \o <<unscored>> \o scored \in Seq(Verdict)
        /\ Made(<<line>> \o <<unscored>> \o scored) \subseteq {line, unscored, sigma}
    BY <2>1, <2>2, MadeOfBoth
  <2>4. /\ <<line>> \o <<unscored>> \o scored \o <<broken>> \in Seq(Verdict)
        /\ Made(<<line>> \o <<unscored>> \o scored \o <<broken>>) \subseteq {line, unscored, sigma, broken}
    BY <1>3, <2>3, MadeOfOne, MadeOfBoth
  <2>5. \A m \in {line, unscored, sigma, broken} : m.key \in DailyKeys
    BY <1>3
  <2>6. Made(daily) \subseteq {line, unscored, sigma, broken} /\ daily \in Seq(Verdict)
    BY <2>4, MadeOfNone DEF When
  <2> QED BY <2>5, <2>6
<1> HIDE DEF exec, daily
<1>7. <<stale>> \o <<credits>> \in Seq(Verdict) /\ Made(<<stale>> \o <<credits>>) = {stale, credits}
  BY <1>3, MadeOfTwo
<1>8. /\ <<stale>> \o <<credits>> \o exec \in Seq(Verdict)
      /\ Made(<<stale>> \o <<credits>> \o exec) = {stale, credits} \cup Made(exec)
  BY <1>5, <1>7, MadeOfBoth
<1>9. checks \in Seq(Verdict) /\ Made(checks) = {stale, credits} \cup Made(exec) \cup Made(daily)
  BY <1>1, <1>6, <1>8, MadeOfBoth
<1>10. ASSUME NEW m \in Made(checks), m.key \in Steady PROVE Says(m.key, m.firing, r)
  <2>1. m \in {stale, credits} \cup Made(exec)
    BY <1>6, <1>9, <1>10 DEF Steady
  <2>2. CASE m \in {stale, credits}
    BY <1>3, <2>2 DEF Says, quiet
  <2>3. CASE m \in Made(exec)
    <3>1. execBeat.at # Never /\ m \in {silent, burst, halted}
      BY <1>5, <2>3
    <3> QED BY <1>3, <3>1 DEF Says, gone, many
  <2> QED BY <2>1, <2>2, <2>3
<1>11. ASSUME NEW k \in Steady, k \in {"stale", "credits"} \/ execBeat.at # Never PROVE \E m \in Made(checks) : m.key = k
  <2>1. k \in {"stale", "credits"} \/ k \in ExecWatch
    BY DEF Steady, WatchKeys, ExecWatch
  <2>2. CASE k \in {"stale", "credits"}
    BY <1>3, <1>9, <2>2
  <2>3. CASE execBeat.at # Never /\ k \in ExecWatch
    BY <1>3, <1>5, <1>9, <2>3 DEF ExecWatch
  <2> QED BY <1>11, <2>1, <2>2, <2>3 DEF ExecWatch
<1> QED BY <1>9, <1>10, <1>11

(* When the channel last heard what the record says, it has after too.     *)
Record == [firing : BOOLEAN, sent : Nat]

LEMMA TellingAgrees ==
  ASSUME NEW prev \in Record, NEW firing \in BOOLEAN, NEW t \in Nat
  PROVE  /\ Told(prev, prev, firing, t) = ApplyDecision(prev, firing, t)
         /\ ApplyDecision(prev, firing, t) \in Record
<1>1. prev = [firing |-> prev.firing, sent |-> prev.sent] /\ prev.firing \in BOOLEAN /\ prev.sent \in Nat
  BY DEF Record
<1>2. CASE Decide(prev, firing, t) # "none"
  BY <1>2 DEF Told, ApplyDecision, Record
<1>3. CASE Decide(prev, firing, t) = "none"
  <2>1. prev.firing <=> firing
    BY <1>3 DEF Decide
  <2>2. prev.firing = firing
    BY <1>1, <2>1
  <2>3. ApplyDecision(prev, firing, t) = [firing |-> firing, sent |-> prev.sent]
    BY <1>3 DEF ApplyDecision
  <2> QED BY <1>1, <1>3, <2>2, <2>3 DEF Told
<1> QED BY <1>2, <1>3

(* The message goes out before the file, so the channel has heard at least *)
(* what the file says; as long as no run was killed they agree.            *)
WatchInv ==
  /\ hour \in Nat \ {0} /\ kills \in Nat /\ execBeat.at \in Nat /\ execBeat.halted \in BOOLEAN
  /\ alarms = [k \in WatchKeys |-> alarms[k]] /\ heard = [k \in WatchKeys |-> heard[k]]
  /\ \A k \in Steady : /\ alarms[k] \in Record /\ heard[k].sent \in Nat
                       /\ alarms[k].sent <= heard[k].sent /\ heard[k].sent <= hour
                       /\ kills = 0 => heard[k] = alarms[k]
  /\ execBeat.at = Never => \A k \in ExecWatch : ~alarms[k].firing

LEMMA ChannelHears ==
  ASSUME WatchInv, NEW r \in Readings, NEW checks, checks = Checks(r), NEW n \in 0..Len(checks), NEW k \in Steady,
         NEW after, after = Heard(checks, n)[k]
  PROVE  /\ \/ after = heard[k]
            \/ \E firing \in BOOLEAN : Says(k, firing, r) /\ after = Told(heard[k], alarms[k], firing, hour)
         /\ (~\E m \in Made(checks) : m.key = k) => after = heard[k]
         /\ n = Len(checks) /\ (\E m \in Made(checks) : m.key = k) =>
              \E firing \in BOOLEAN : Says(k, firing, r) /\ after = Told(heard[k], alarms[k], firing, hour)
<1>1. /\ checks \in Seq(Verdict)
      /\ \A m \in Made(checks) : m.key \in Steady => Says(m.key, m.firing, r)
  BY ChecksSay DEF WatchInv
<1> DEFINE made == [i \in 1..n |-> checks[i].key]
           at == {i \in 1..n : made[i] = k}
<1>2. after = IF at = {} THEN heard[k] ELSE Told(heard[k], alarms[k], checks[CHOOSE i \in at : TRUE].firing, hour)
  BY DEF Heard, Steady
<1>3. CASE at = {}
  <2>1. n # Len(checks) \/ ~\E m \in Made(checks) : m.key = k
    BY <1>3 DEF Made
  <2> QED BY <1>2, <1>3, <2>1
<1>4. CASE at # {}
  <2>1. PICK i \in at : i = CHOOSE j \in at : TRUE
    BY <1>4
  <2>2. i \in 1..Len(checks) /\ checks[i].key = k
    BY <1>1, <2>1
  <2>3. checks[i] \in Made(checks) /\ checks[i] \in Verdict
    BY <1>1, <2>2 DEF Made
  <2>4. checks[i].firing \in BOOLEAN /\ Says(k, checks[i].firing, r)
    BY <1>1, <2>2, <2>3 DEF Verdict
  <2>5. after = Told(heard[k], alarms[k], checks[i].firing, hour)
    BY <1>2, <1>4, <2>1
  <2> QED BY <2>2, <2>3, <2>4, <2>5
<1> QED BY <1>3, <1>4

LEMMA SaysOneThing ==
  ASSUME NEW k, NEW r, NEW x, NEW y, Says(k, x, r), Says(k, y, r)
  PROVE  x = y
BY DEF Says

LEMMA FileKeeps ==
  ASSUME WatchInv, NEW r \in Readings, NEW checks, checks = Checks(r), RunEnds(checks), NEW k \in Steady
  PROVE  /\ \/ alarms'[k] = alarms[k] /\ ~\E m \in Made(checks) : m.key = k
            \/ \E firing \in BOOLEAN : Says(k, firing, r) /\ alarms'[k] = ApplyDecision(alarms[k], firing, hour)
         /\ alarms' = [j \in WatchKeys |-> alarms'[j]]
<1>1. /\ checks \in Seq(Verdict)
      /\ \A m \in Made(checks) : m.key \in Steady => Says(m.key, m.firing, r)
  BY ChecksSay DEF WatchInv
<1> DEFINE keys == {checks[i].key : i \in DOMAIN checks}
           fired == {checks[i].key : i \in {j \in DOMAIN checks : checks[j].firing}}
<1>2. /\ alarms' = [j \in WatchKeys |-> IF j \in keys THEN Applied(j, alarms[j], j \in fired) ELSE alarms[j]]
      /\ k \in WatchKeys /\ k # "feed-line"
  BY DEF RunEnds, Steady, DailyKeys
<1>3. alarms'[k] = IF k \in keys THEN ApplyDecision(alarms[k], k \in fired, hour) ELSE alarms[k]
  BY <1>2 DEF Applied
<1>4. DOMAIN checks = 1..Len(checks)
  BY <1>1
<1>5. CASE k \notin keys
  BY <1>2, <1>3, <1>4, <1>5 DEF Made
<1>6. CASE k \in keys
  <2>1. PICK i \in 1..Len(checks) : checks[i].key = k
    BY <1>4, <1>6
  <2>2. checks[i].firing \in BOOLEAN /\ Says(k, checks[i].firing, r)
    <3>1. checks[i] \in Made(checks) /\ checks[i] \in Verdict
      BY <1>1 DEF Made
    <3> QED BY <1>1, <2>1, <3>1 DEF Verdict
  <2>3. ASSUME NEW j \in 1..Len(checks), checks[j].key = k PROVE checks[j].firing = checks[i].firing
    <3>1. Says(k, checks[j].firing, r)
      BY <1>1, <2>3 DEF Made
    <3> QED BY <2>2, <3>1, SaysOneThing
  <2>4. k \in fired <=> checks[i].firing
    BY <1>4, <2>1, <2>3
  <2>5. PICK firing \in BOOLEAN : firing = checks[i].firing
    BY <2>2
  <2>6. (k \in fired) = firing
    BY <2>4, <2>5
  <2> HIDE DEF keys, fired
  <2> QED BY <1>2, <1>3, <1>6, <2>2, <2>5, <2>6
<1> QED BY <1>5, <1>6

LEMMA RunTells ==
  ASSUME WatchInv, NEW r \in Readings, NEW checks, checks = Checks(r), RunEnds(checks),
         heard' = Heard(checks, Len(checks)), NEW k \in Steady
  PROVE  /\ alarms'[k] \in Record /\ heard'[k].sent \in Nat
         /\ alarms'[k].sent <= heard'[k].sent /\ heard'[k].sent <= hour
         /\ kills = 0 => heard'[k] = alarms'[k]
         /\ alarms'[k].firing => hour - heard'[k].sent < Repeat
         /\ k \in ExecWatch /\ execBeat.at = Never => ~alarms'[k].firing
<1>1. /\ checks \in Seq(Verdict) /\ Len(checks) \in 0..Len(checks)
      /\ \A m \in Made(checks) : m.key \in Steady => Says(m.key, m.firing, r)
      /\ k \in {"stale", "credits"} \/ execBeat.at # Never => \E m \in Made(checks) : m.key = k
  BY ChecksSay DEF WatchInv
<1> DEFINE after == heard'[k]
<1>2. /\ (~\E m \in Made(checks) : m.key = k) => after = heard[k]
      /\ (\E m \in Made(checks) : m.key = k) =>
           \E firing \in BOOLEAN : Says(k, firing, r) /\ after = Told(heard[k], alarms[k], firing, hour)
  <2>1. after = Heard(checks, Len(checks))[k]
    OBVIOUS
  <2> HIDE DEF after
  <2> QED BY <1>1, <2>1, ChannelHears
<1>3. \/ alarms'[k] = alarms[k] /\ ~\E m \in Made(checks) : m.key = k
      \/ \E firing \in BOOLEAN : Says(k, firing, r) /\ alarms'[k] = ApplyDecision(alarms[k], firing, hour)
  BY FileKeeps
<1>4. /\ hour \in Nat /\ alarms[k] \in Record /\ alarms[k].sent \in Nat /\ heard[k].sent \in Nat
      /\ alarms[k].sent <= heard[k].sent /\ heard[k].sent <= hour
      /\ kills = 0 => heard[k] = alarms[k]
      /\ k \in ExecWatch /\ execBeat.at = Never => ~alarms[k].firing
  BY DEF WatchInv, Record
<1>5. CASE ~\E m \in Made(checks) : m.key = k
  <2>1. heard'[k] = heard[k] /\ k \in ExecWatch /\ execBeat.at = Never
    BY <1>1, <1>2, <1>5 DEF Steady, WatchKeys, ExecWatch
  <2>2. ~\E firing \in BOOLEAN : Says(k, firing, r)
    BY <2>1 DEF Says, ExecWatch
  <2> QED BY <1>3, <1>4, <2>1, <2>2
<1>6. CASE \E m \in Made(checks) : m.key = k
  <2>1. PICK told \in BOOLEAN : Says(k, told, r) /\ heard'[k] = Told(heard[k], alarms[k], told, hour)
    BY <1>2, <1>6
  <2>2. PICK firing \in BOOLEAN : Says(k, firing, r) /\ alarms'[k] = ApplyDecision(alarms[k], firing, hour)
    BY <1>3, <1>6
  <2>3. told = firing
    BY <2>1, <2>2, SaysOneThing
  <2>4. ASSUME NEW verdict \in BOOLEAN, NEW next, NEW prev, NEW was, NEW now,
               prev = alarms[k], was = heard[k],
               next = ApplyDecision(prev, verdict, hour), now = Told(was, prev, verdict, hour)
        PROVE  /\ next.firing = verdict /\ next.sent <= now.sent /\ now.sent \in Nat /\ now.sent <= hour
               /\ verdict => hour - now.sent < Repeat
               /\ next \in Record
               /\ kills = 0 => now = next
    <3>1. prev.sent \in Nat /\ was.sent \in Nat /\ prev.sent <= was.sent /\ was.sent <= hour /\ hour \in Nat
      BY <1>4, <2>4
    <3> DEFINE edge == ApplyDecision(prev, verdict, hour)
               kept == Told(was, prev, verdict, hour)
    <3>5. next = edge /\ now = kept
      BY <2>4
    <3> HIDE DEF edge, kept
    <3>6. /\ edge.firing = verdict /\ edge.sent \in Nat /\ kept.sent \in Nat
          /\ edge.sent <= kept.sent /\ kept.sent <= hour /\ was.sent <= kept.sent
          /\ verdict => hour - kept.sent < Repeat
      BY <3>1, TellingIsKept DEF edge, kept
    <3>2. /\ next.firing = verdict /\ next.sent <= now.sent /\ now.sent \in Nat /\ now.sent <= hour
          /\ verdict => hour - now.sent < Repeat
      BY <3>5, <3>6
    <3>3. prev \in Record /\ (kills = 0 => was = prev)
      BY <1>4, <2>4
    <3>4. next \in Record /\ (kills = 0 => now = next)
      BY <2>4, <3>1, <3>3, TellingAgrees
    <3> QED BY <3>2, <3>4
  <2>5. k \in ExecWatch => execBeat.at # Never
    BY <2>2 DEF Says, ExecWatch
  <2>6. firing \in BOOLEAN
    BY <2>2
  <2>7. alarms'[k] = ApplyDecision(alarms[k], firing, hour) /\ heard'[k] = Told(heard[k], alarms[k], firing, hour)
    BY <2>1, <2>2, <2>3
  <2>8. /\ alarms'[k].firing = firing /\ alarms'[k] \in Record
        /\ alarms'[k].sent <= heard'[k].sent /\ heard'[k].sent \in Nat /\ heard'[k].sent <= hour
        /\ firing => hour - heard'[k].sent < Repeat
        /\ kills = 0 => heard'[k] = alarms'[k]
    BY <2>4, <2>6, <2>7
  <2> QED BY <2>5, <2>6, <2>8
<1> QED BY <1>5, <1>6

LEMMA WatchStepsKeep == ASSUME WatchInv, [WatchNext]_watchVars PROVE WatchInv'
<1>1. CASE \/ HourPasses \/ RecorderBeats \/ FeedChangesShape \/ OperatorClears
           \/ UNCHANGED watchVars
  <2>1. hour' \in Nat \ {0} /\ hour <= hour'
    BY <1>1 DEF HourPasses, RecorderBeats, FeedChangesShape, OperatorClears, watchVars, WatchInv
  <2>2. UNCHANGED <<execBeat, alarms, heard, kills>>
    BY <1>1 DEF HourPasses, RecorderBeats, FeedChangesShape, OperatorClears, watchVars
  <2> QED BY <2>1, <2>2 DEF WatchInv
<1>2. CASE ExecutorLoops
  <2>1. execBeat'.at = hour /\ execBeat'.halted \in BOOLEAN /\ UNCHANGED <<hour, alarms, heard, kills>>
    BY <1>2 DEF ExecutorLoops
  <2> QED BY <2>1 DEF WatchInv, Never
<1>3. CASE WatchdogRuns
  <2>1. PICK r \in Readings :
          \E checks : /\ checks = Checks(r)
                      /\ \/ /\ heard' = Heard(checks, Len(checks)) /\ RunEnds(checks) /\ UNCHANGED kills
                         \/ /\ kills' = kills + 1 /\ UNCHANGED alarms
                            /\ \E n \in 1..Len(checks) : heard' = Heard(checks, n)
    BY <1>3 DEF WatchdogRuns
  <2>2. PICK checks : /\ checks = Checks(r)
                      /\ \/ /\ heard' = Heard(checks, Len(checks)) /\ RunEnds(checks) /\ UNCHANGED kills
                         \/ /\ kills' = kills + 1 /\ UNCHANGED alarms
                            /\ \E n \in 1..Len(checks) : heard' = Heard(checks, n)
    BY <2>1
  <2>3. UNCHANGED <<hour, execBeat>> /\ checks \in Seq(Verdict)
    BY <1>3, <2>2, ChecksSay DEF WatchdogRuns, WatchInv
  <2>4. heard' = [k \in WatchKeys |-> heard'[k]]
    BY <2>2 DEF Heard
  <2>5. CASE heard' = Heard(checks, Len(checks)) /\ RunEnds(checks) /\ UNCHANGED kills
    <3>1. alarms' = [k \in WatchKeys |-> alarms'[k]]
      BY <2>5 DEF RunEnds
    <3>2. ASSUME NEW k \in Steady
          PROVE  /\ alarms'[k] \in Record /\ heard'[k].sent \in Nat
                 /\ alarms'[k].sent <= heard'[k].sent /\ heard'[k].sent <= hour
                 /\ kills = 0 => heard'[k] = alarms'[k]
                 /\ k \in ExecWatch /\ execBeat.at = Never => ~alarms'[k].firing
      BY <2>2, <2>5, RunTells
    <3>3. ExecWatch \subseteq Steady
      BY DEF ExecWatch, Steady, WatchKeys, DailyKeys
    <3> QED BY <2>3, <2>4, <2>5, <3>1, <3>2, <3>3 DEF WatchInv
  <2>6. ASSUME kills' = kills + 1, UNCHANGED alarms, NEW n \in 1..Len(checks), heard' = Heard(checks, n)
        PROVE  WatchInv'
    <3>1. kills' \in Nat /\ kills' # 0
      BY <2>6 DEF WatchInv
    <3>2. ASSUME NEW k \in Steady
          PROVE  heard'[k].sent \in Nat /\ alarms[k].sent <= heard'[k].sent /\ heard'[k].sent <= hour
      <4> DEFINE after == heard'[k]
                 prev == alarms[k]
                 was == heard[k]
      <4>1. \/ after = was
            \/ \E firing \in BOOLEAN : after = Told(was, prev, firing, hour)
        <5>1. after = Heard(checks, n)[k] /\ n \in 0..Len(checks)
          BY <2>3, <2>6
        <5> HIDE DEF after
        <5> QED BY <2>2, <5>1, ChannelHears
      <4>2. prev.sent \in Nat /\ was.sent \in Nat /\ prev.sent <= was.sent /\ was.sent <= hour /\ hour \in Nat
        BY DEF WatchInv, Record
      <4> HIDE DEF after, prev, was
      <4>3. after.sent \in Nat /\ prev.sent <= after.sent /\ after.sent <= hour
        BY <4>1, <4>2, TellingIsKept
      <4> QED BY <4>3 DEF after, prev
    <3> QED BY <2>3, <2>4, <2>6, <3>1, <3>2 DEF WatchInv
  <2> QED BY <2>2, <2>5, <2>6
<1> QED BY <1>1, <1>2, <1>3 DEF WatchNext

(* When a run of the watchdog ends, the channel has heard within the       *)
(* repeat interval of whatever it found wrong, also when runs were killed  *)
(* between a message and the file; when none was, of the end of it too.    *)
THEOREM WhatFiresIsHeard == WatchSpec => NothingFiresUnheard
<1>1. WatchInit => WatchInv
  <2> SUFFICES ASSUME WatchInit PROVE WatchInv
    OBVIOUS
  <2>1. NoRecord \in Record /\ NoRecord.sent = 0 /\ ~NoRecord.firing
    BY DEF NoRecord, Never, Record
  <2>2. /\ \A k \in WatchKeys : alarms[k] = NoRecord /\ heard[k] = NoRecord
        /\ alarms = [k \in WatchKeys |-> alarms[k]] /\ heard = [k \in WatchKeys |-> heard[k]]
    BY DEF WatchInit
  <2>3. hour = 1 /\ kills = 0 /\ execBeat.at = 0 /\ execBeat.halted \in BOOLEAN
    BY DEF WatchInit, Never
  <2>4. Steady \subseteq WatchKeys /\ ExecWatch \subseteq WatchKeys
    BY DEF Steady, ExecWatch, WatchKeys
  <2>5. \A k \in Steady : /\ alarms[k] \in Record /\ heard[k].sent \in Nat
                         /\ alarms[k].sent <= heard[k].sent /\ heard[k].sent <= hour /\ heard[k] = alarms[k]
    BY <2>1, <2>2, <2>3, <2>4
  <2>6. \A k \in ExecWatch : ~alarms[k].firing
    BY <2>1, <2>2, <2>4
  <2> HIDE DEF Record
  <2> QED BY <2>2, <2>3, <2>5, <2>6 DEF WatchInv
<1>2. WatchInv /\ [WatchNext]_watchVars => WatchInv'
  BY WatchStepsKeep
<1>3. WatchInv /\ [WatchNext]_watchVars
      => (ranAt' # ranAt => \A k \in WatchKeys \ DailyKeys :
                              /\ alarms'[k].firing => hour - heard'[k].sent < Repeat
                              /\ kills = 0 => heard'[k].firing = alarms'[k].firing)
  <2> SUFFICES ASSUME WatchInv, WatchNext, ranAt' # ranAt, NEW k \in WatchKeys \ DailyKeys
               PROVE  /\ alarms'[k].firing => hour - heard'[k].sent < Repeat
                      /\ kills = 0 => heard'[k].firing = alarms'[k].firing
    BY DEF watchVars
  <2>1. PICK r \in Readings :
          \E checks : checks = Checks(r) /\ heard' = Heard(checks, Len(checks)) /\ RunEnds(checks)
    BY DEF WatchNext, WatchdogRuns, HourPasses, RecorderBeats, FeedChangesShape, OperatorClears, ExecutorLoops
  <2>2. PICK checks : checks = Checks(r) /\ heard' = Heard(checks, Len(checks)) /\ RunEnds(checks)
    BY <2>1
  <2> QED BY <2>2, RunTells DEF Steady
<1> QED BY <1>1, <1>2, <1>3, PTL DEF WatchSpec, NothingFiresUnheard

-----------------------------------------------------------------------------
(* The recorder's archive.  What is left out of an unchanged line is said  *)
(* by the last line that has a payload, for the hash a process remembers   *)
(* is of the last line it wrote itself, and it forgets it when it stops.   *)
LEMMA BodyIsThere ==
  ASSUME NEW lines, NEW i \in Nat, NEW b, b = BodyAt(lines, i)
  PROVE  /\ b \in 0..i /\ (b # 0 => b \in 1..i /\ lines[b].changed)
         /\ \A j \in 1..i : lines[j].changed => j <= b
<1> DEFINE S == {0} \cup {j \in 1..i : lines[j].changed}
<1>1. S \in SUBSET Int /\ S # {} /\ \A x \in S : x <= i
  OBVIOUS
<1> HIDE DEF S
<1>2. Max(S) \in S /\ \A y \in S : Max(S) >= y
  <2>1. i \in Int
    OBVIOUS
  <2> QED BY <1>1, <2>1, MaxOfBounded
<1>3. b = Max(S)
  BY DEF BodyAt, S
<1> QED BY <1>2, <1>3 DEF S

LEMMA BodyIsUnique ==
  ASSUME NEW lines, NEW i \in Nat, NEW b \in 1..i, lines[b].changed, \A j \in 1..i : lines[j].changed => j <= b
  PROVE  BodyAt(lines, i) = b
<1> DEFINE a == BodyAt(lines, i)
<1>1. /\ a \in 0..i /\ (a # 0 => a \in 1..i /\ lines[a].changed)
      /\ \A j \in 1..i : lines[j].changed => j <= a
  <2> HIDE DEF a
  <2> QED BY BodyIsThere DEF a
<1> QED BY <1>1

(* A line more leaves the payloads of the lines before it where they are.  *)
LEMMA BodyOfAppend ==
  ASSUME NEW X, NEW lines \in Seq(X), NEW l, NEW more, more = Append(lines, l)
  PROVE  /\ \A i \in 0..Len(lines) : BodyAt(more, i) = BodyAt(lines, i)
         /\ BodyAt(more, Len(lines) + 1) = IF l.changed THEN Len(lines) + 1 ELSE BodyAt(lines, Len(lines))
<1>1. /\ Len(lines) \in Nat /\ more[Len(lines) + 1] = l
      /\ \A j \in 1..Len(lines) : more[j] = lines[j]
  OBVIOUS
<1>2. ASSUME NEW i \in 0..Len(lines) PROVE BodyAt(more, i) = BodyAt(lines, i)
  <2>1. {j \in 1..i : more[j].changed} = {j \in 1..i : lines[j].changed}
    BY <1>1
  <2> QED BY <2>1 DEF BodyAt
<1>3. CASE l.changed
  <2> DEFINE b == Len(lines) + 1
  <2>1. b \in Nat /\ b \in 1..b /\ more[b].changed /\ \A j \in 1..b : more[j].changed => j <= b
    BY <1>1, <1>3
  <2> HIDE DEF b
  <2>2. BodyAt(more, b) = b
    BY <2>1, BodyIsUnique
  <2> QED BY <1>2, <1>3, <2>2 DEF b
<1>4. CASE ~l.changed
  <2>1. {j \in 1..Len(lines) + 1 : more[j].changed} = {j \in 1..Len(lines) : lines[j].changed}
    BY <1>1, <1>4
  <2>2. BodyAt(more, Len(lines) + 1) = BodyAt(lines, Len(lines))
    BY <2>1 DEF BodyAt
  <2> QED BY <1>2, <1>4, <2>2
<1> QED BY <1>2, <1>3, <1>4

IsMemory(m) == m = [up |-> m.up, turn |-> m.turn, wake |-> m.wake, due |-> m.due, failures |-> m.failures,
                    lastHash |-> m.lastHash]

LinesSay(lines) == \A i \in 1..Len(lines) :
                     BodyAt(lines, i) # 0 => lines[BodyAt(lines, i)].said = lines[i].said

Line == [at : Nat, changed : BOOLEAN, said : Payloads]

ArchiveInv ==
  /\ clock \in Nat /\ recorder.up \in BOOLEAN /\ IsMemory(recorder)
  /\ archive \in [Names -> Seq(Line)]
  /\ recorder.lastHash \in [Names -> Payloads \cup {"none"}]
  /\ \A e \in Names : /\ LinesSay(archive[e])
                      /\ recorder.up /\ recorder.lastHash[e] # "none" =>
                           /\ archive[e] # <<>>
                           /\ recorder.lastHash[e] = archive[e][Len(archive[e])].said

(* A line that says what the process remembers, or carries its payload.    *)
LEMMA AppendsSay ==
  ASSUME NEW lines \in Seq(Line), LinesSay(lines), NEW l \in Line, NEW more, more = Append(lines, l),
         l.changed \/ (lines # <<>> /\ lines[Len(lines)].said = l.said)
  PROVE  /\ more \in Seq(Line) /\ more # <<>> /\ more[Len(more)] = l
         /\ LinesSay(more)
<1>1. /\ more \in Seq(Line) /\ Len(lines) \in Nat /\ Len(more) = Len(lines) + 1 /\ more[Len(more)] = l
      /\ \A j \in 1..Len(lines) : more[j] = lines[j]
      /\ lines # <<>> => Len(lines) \in 1..Len(lines)
  OBVIOUS
<1>2. more # <<>>
  BY <1>1
<1>0. /\ \A i \in 0..Len(lines) : BodyAt(more, i) = BodyAt(lines, i)
      /\ BodyAt(more, Len(lines) + 1) = IF l.changed THEN Len(lines) + 1 ELSE BodyAt(lines, Len(lines))
  BY BodyOfAppend
<1>3. ASSUME NEW i \in 1..Len(more), NEW b, b = BodyAt(more, i), b # 0 PROVE more[b].said = more[i].said
  <2>1. CASE i <= Len(lines)
    <3>1. i \in 1..Len(lines) /\ b = BodyAt(lines, i)
      BY <1>0, <1>1, <1>3, <2>1
    <3>2. b \in 1..Len(lines)
      BY <1>3, <3>1, BodyIsThere
    <3>3. lines[b].said = lines[i].said
      BY <1>3, <3>1 DEF LinesSay
    <3> QED BY <1>1, <3>1, <3>2, <3>3
  <2>2. CASE i = Len(lines) + 1 /\ l.changed
    <3>1. b = i
      BY <1>0, <1>3, <2>2
    <3> QED BY <3>1
  <2>3. CASE i = Len(lines) + 1 /\ ~l.changed
    <3>1. b = BodyAt(lines, Len(lines))
      BY <1>0, <1>3, <2>3
    <3>2. b \in 1..Len(lines)
      BY <1>1, <1>3, <3>1, BodyIsThere
    <3>3. lines[b].said = lines[Len(lines)].said
      BY <1>1, <1>3, <2>3, <3>1 DEF LinesSay
    <3> QED BY <1>1, <2>3, <3>2, <3>3
  <2>4. i <= Len(lines) \/ i = Len(lines) + 1
    BY <1>1, <1>3
  <2> QED BY <2>1, <2>2, <2>3, <2>4
<1> QED BY <1>1, <1>2, <1>3 DEF LinesSay

LEMMA LinesAreBuilt ==
  ASSUME ArchiveInv, recorder.up, NEW e \in Names, NEW payload \in Payloads,
         archive' = [archive EXCEPT ![e] = Append(@, BuildLine(e, payload))]
  PROVE  /\ archive' \in [Names -> Seq(Line)]
         /\ \A n \in Names : LinesSay(archive'[n])
         /\ \A n \in Names \ {e} : archive'[n] = archive[n]
         /\ archive'[e] # <<>> /\ archive'[e][Len(archive'[e])].said = payload
<1>1. PICK l : l = BuildLine(e, payload)
  OBVIOUS
<1>2. /\ l \in Line /\ l.said = payload
      /\ l.changed \/ (archive[e] # <<>> /\ archive[e][Len(archive[e])].said = l.said)
  BY <1>1, FeedConstants DEF BuildLine, Line, ArchiveInv
<1>3. PICK lines \in Seq(Line) : lines = archive[e]
  BY DEF ArchiveInv
<1> DEFINE more == Append(lines, l)
<1>4. more \in Seq(Line) /\ more # <<>> /\ more[Len(more)] = l /\ LinesSay(more)
  <2>1. LinesSay(lines) /\ (l.changed \/ (lines # <<>> /\ lines[Len(lines)].said = l.said))
    BY <1>2, <1>3 DEF ArchiveInv
  <2> QED BY <1>2, <2>1, AppendsSay
<1>5. archive' = [archive EXCEPT ![e] = more]
  BY <1>1, <1>3
<1> HIDE DEF more
<1>6. archive'[e] = more /\ \A n \in Names \ {e} : archive'[n] = archive[n]
  BY <1>5 DEF ArchiveInv
<1>7. archive' \in [Names -> Seq(Line)]
  BY <1>4, <1>5 DEF ArchiveInv
<1>8. ASSUME NEW n \in Names PROVE LinesSay(archive'[n])
  BY <1>4, <1>6 DEF ArchiveInv
<1> QED BY <1>2, <1>4, <1>6, <1>7, <1>8

LEMMA ArchiveStepsKeep == ASSUME ~DiskFills, ArchiveInv, [FeedNext]_feedVars PROVE ArchiveInv'
<1> USE DEF ArchiveInv
<1>1. CASE BeginsPass \/ NotDue \/ Sleeps
  <2>1. UNCHANGED <<clock, archive>>
    BY <1>1 DEF BeginsPass, NotDue, Sleeps
  <2>2. /\ IsMemory(recorder') /\ recorder'.lastHash = recorder.lastHash
        /\ recorder'.up \in BOOLEAN /\ (recorder'.up => recorder.up)
    BY <1>1 DEF BeginsPass, NotDue, Sleeps, IsMemory
  <2> QED BY <2>1, <2>2 DEF IsMemory
<1>2. CASE PollFails \/ AnswerIsLost
  <2>1. UNCHANGED <<clock, archive>>
    BY <1>2 DEF PollFails, AnswerIsLost
  <2>2. PICK fatal \in BOOLEAN : recorder' = Backs(recorder, fatal)
    BY <1>2 DEF PollFails, AnswerIsLost
  <2>3. /\ IsMemory(recorder') /\ recorder'.lastHash = recorder.lastHash /\ recorder'.up = ~fatal
    BY <2>2 DEF Backs, IsMemory
  <2>4. recorder.up
    BY <1>2 DEF PollFails, AnswerIsLost, Due, Polling
  <2> QED BY <2>1, <2>3, <2>4 DEF IsMemory
<1>3. CASE PollSucceeds
  <2>1. PICK payload \in Payloads, fine \in BOOLEAN :
          /\ archive' = [archive EXCEPT ![Turn] = Append(@, BuildLine(Turn, payload))]
          /\ recorder' = [recorder EXCEPT !.lastHash[Turn] = payload, !.failures[Turn] = 0,
                                          !.due[Turn] = clock + PollTicks[Turn], !.turn = @ + 1, !.up = fine]
    BY <1>3 DEF PollSucceeds
  <2>2. recorder.up /\ Turn \in Names /\ UNCHANGED clock
    BY <1>3 DEF PollSucceeds, Due, Polling, Turn, Names
  <2>3. PICK e \in Names : e = Turn
    BY <2>2
  <2>4. /\ archive' \in [Names -> Seq(Line)]
        /\ \A n \in Names : LinesSay(archive'[n])
        /\ \A n \in Names \ {e} : archive'[n] = archive[n]
        /\ archive'[e] # <<>> /\ archive'[e][Len(archive'[e])].said = payload
    <3>1. archive' = [archive EXCEPT ![e] = Append(@, BuildLine(e, payload))]
      BY <2>1, <2>3
    <3> QED BY <2>2, <3>1, LinesAreBuilt
  <2>5. IsMemory(recorder') /\ recorder'.lastHash = [recorder.lastHash EXCEPT ![e] = payload] /\ recorder'.up = fine
    BY <2>1, <2>3 DEF IsMemory
  <2>6. /\ recorder'.lastHash \in [Names -> Payloads \cup {"none"}]
        /\ recorder'.lastHash[e] = payload
        /\ \A n \in Names \ {e} : recorder'.lastHash[n] = recorder.lastHash[n]
    BY <2>5
  <2> QED BY <2>2, <2>4, <2>5, <2>6 DEF IsMemory
<1>4. CASE Dies
  <2>1. IsMemory(recorder') /\ recorder'.up = FALSE /\ recorder'.lastHash = recorder.lastHash /\ UNCHANGED clock
    BY <1>4 DEF Dies, IsMemory
  <2>2. CASE UNCHANGED archive
    BY <2>1, <2>2 DEF IsMemory
  <2>3. CASE Due /\ \E payload \in Payloads : archive' = [archive EXCEPT ![Turn] = Append(@, BuildLine(Turn, payload))]
    <3>1. PICK e \in Names : e = Turn
      BY <2>3 DEF Due, Polling, Turn, Names
    <3>2. PICK payload \in Payloads : archive' = [archive EXCEPT ![e] = Append(@, BuildLine(e, payload))]
      BY <2>3, <3>1
    <3>3. archive' \in [Names -> Seq(Line)] /\ \A n \in Names : LinesSay(archive'[n])
      <4>1. recorder.up
        BY <2>3 DEF Due, Polling
      <4> QED BY <3>2, <4>1, LinesAreBuilt
    <3> QED BY <2>1, <3>3 DEF IsMemory
  <2> QED BY <1>4, <2>2, <2>3 DEF Dies
<1>5. CASE Restarts
  <2>1. /\ IsMemory(recorder') /\ recorder'.up = TRUE /\ recorder'.lastHash = [e \in Names |-> "none"]
        /\ UNCHANGED <<clock, archive>>
    BY <1>5 DEF Restarts, Memory, IsMemory
  <2> QED BY <2>1 DEF IsMemory
<1>6. CASE ClockTicks
  BY <1>6 DEF ClockTicks, IsMemory
<1>7. CASE UNCHANGED feedVars
  BY <1>7 DEF feedVars, IsMemory
<1>8. ~AppendFails
  BY DEF AppendFails
<1> QED BY <1>1, <1>2, <1>3, <1>4, <1>5, <1>6, <1>7, <1>8 DEF FeedNext

LEMMA LinesCanBeRead == ArchiveInv => SeriesAreThoseOfTheirPoll
<1> SUFFICES ASSUME ArchiveInv, NEW e \in Names, NEW lines, lines = archive[e]
             PROVE  /\ Readable(lines) => Fetched(lines).series = lines[Len(lines)].said
                    /\ \A i \in DOMAIN ReadArchive(e) : ReadArchive(e)[i].series = lines[i].said
  BY DEF SeriesAreThoseOfTheirPoll
<1>1. lines \in Seq(Line) /\ LinesSay(lines)
  BY DEF ArchiveInv
<1>2. Len(lines) \in Nat /\ DOMAIN lines = 1..Len(lines)
  BY <1>1
<1>3. ASSUME Readable(lines) PROVE Fetched(lines).series = lines[Len(lines)].said
  <2>1. PICK i \in 1..Len(lines) : lines[i].changed
    BY <1>2, <1>3 DEF Readable, NewestDay
  <2>2. Len(lines) \in 1..Len(lines)
    BY <1>2, <2>1
  <2>3. BodyAt(lines, Len(lines)) # 0
    <3> DEFINE b == BodyAt(lines, Len(lines))
    <3>1. b \in 0..Len(lines) /\ \A j \in 1..Len(lines) : lines[j].changed => j <= b
      <4> HIDE DEF b
      <4> QED BY <1>2, BodyIsThere DEF b
    <3> HIDE DEF b
    <3>2. b # 0
      BY <1>2, <2>1, <3>1
    <3> QED BY <3>2 DEF b
  <2>4. lines[BodyAt(lines, Len(lines))].said = lines[Len(lines)].said
    BY <1>1, <2>2, <2>3 DEF LinesSay
  <2> QED BY <2>4 DEF Fetched
<1>4. ASSUME NEW i \in DOMAIN ReadArchive(e) PROVE ReadArchive(e)[i].series = lines[i].said
  <2> DEFINE polls == {j \in DOMAIN lines : BodyAt(lines, j) # 0}
  <2>1. ReadArchive(e) = [j \in polls |-> [t |-> lines[j].at, series |-> lines[BodyAt(lines, j)].said]]
    BY DEF ReadArchive
  <2>2. i \in polls /\ ReadArchive(e)[i].series = lines[BodyAt(lines, i)].said
    BY <2>1
  <2> QED BY <1>1, <1>2, <2>2 DEF LinesSay
<1> QED BY <1>3, <1>4

(* The meter.  What the vendor billed in a month is what the meter counted *)
(* of it and the answers that were lost; a pass begins under the cap.      *)
LEMMA MonthsFollow ==
  ASSUME NEW s \in Nat, NEW t \in Nat, s <= t
  PROVE  Month(s) \in Nat /\ Month(t) \in Nat /\ Month(s) <= Month(t)
<1> DEFINE d == MonthLength
           x == s \div d
           y == t \div d
<1>1. d \in Nat /\ d > 0
  BY FeedConstants
<1>2. x \in Nat /\ y \in Nat
  BY <1>1
<1>3. d * x <= s /\ t < d * y + d
  BY <1>1
<1>4. ASSUME y < x PROVE FALSE
  <2>1. x = y + 1 + (x - y - 1) /\ (x - y - 1) \in Nat
    BY <1>2, <1>4
  <2> DEFINE k == x - y - 1
  <2>2. d * k >= 0
    BY <1>1, <2>1
  <2>3. d * x = d * y + d + d * k
    <3> HIDE DEF x, y, d
    <3> QED BY <1>1, <1>2
  <2>4. s \in Int /\ t \in Int /\ d * x \in Int /\ d * y \in Int /\ d * k \in Int
    BY <1>1, <1>2, <2>1
  <2> HIDE DEF x, y, d, k
  <2> QED BY <1>3, <2>2, <2>3, <2>4, <1>1
<1>5. x <= y
  BY <1>2, <1>4
<1> QED BY <1>2, <1>5 DEF Month

BillsAreMetered ==
  /\ unmetered \in Nat /\ meter.month \in Nat /\ meter.calls \in 0..Cap + Len(Endpoints) - 1
  /\ meter = [month |-> meter.month, calls |-> meter.calls]
  /\ billed = [m \in DOMAIN billed |-> billed[m]] /\ DOMAIN billed \subseteq Nat
  /\ \A m \in DOMAIN billed : /\ billed[m] \in 0..Cap + Len(Endpoints) + unmetered - 1
                              /\ m = meter.month => billed[m] <= meter.calls + unmetered
                              /\ m > meter.month => billed[m] <= unmetered

PassIsUnderTheCap ==
  /\ clock \in Nat /\ meter.month <= Month(clock)
  /\ recorder.up \in BOOLEAN /\ IsMemory(recorder) /\ recorder.turn \in 0..Len(Endpoints) + 1
  /\ recorder.up /\ recorder.turn # 0 /\ meter.month = Month(clock) => meter.calls < Cap + recorder.turn - 1

MeterInv == BillsAreMetered /\ PassIsUnderTheCap

(* A call the meter counts, made by a pass under the cap.                  *)
LEMMA CountedCallsAreBilled ==
  ASSUME MeterInv, Due, Bill, meter' = ApplyCall(meter), UNCHANGED <<clock, unmetered>>
  PROVE  /\ BillsAreMetered' /\ meter'.month = Month(clock)
         /\ meter'.calls < Cap + recorder.turn
<1> DEFINE now == Month(clock)
           n == Len(Endpoints)
<1>1. now \in Nat /\ n \in Nat /\ Cap \in Nat \ {0} /\ recorder.up /\ recorder.turn \in 1..n
  <2>1. n \in Nat /\ DOMAIN Endpoints = 1..n /\ Cap \in Nat \ {0}
    BY FeedConstants
  <2>2. clock \in Nat
    BY DEF MeterInv, PassIsUnderTheCap
  <2>3. now \in Nat
    BY <2>2, MonthsFollow
  <2> QED BY <2>1, <2>3 DEF Due, Polling
<1>2. /\ meter.month \in Nat /\ meter.calls \in Nat /\ meter.month <= now
      /\ meter.month = now => meter.calls < Cap + recorder.turn - 1
      /\ meter = [month |-> meter.month, calls |-> meter.calls]
  BY <1>1 DEF MeterInv, BillsAreMetered, PassIsUnderTheCap
<1>3. /\ meter' = [month |-> now, calls |-> meter'.calls]
      /\ meter'.calls = IF meter.month = now THEN meter.calls + 1 ELSE 1
  BY <1>2 DEF ApplyCall
<1>4. meter'.calls \in Nat /\ meter'.calls < Cap + recorder.turn /\ meter'.calls \in 0..Cap + n - 1
  BY <1>1, <1>2, <1>3
<1>5. /\ DOMAIN billed' = DOMAIN billed /\ billed' = [m \in DOMAIN billed |-> billed'[m]]
      /\ \A m \in DOMAIN billed : billed'[m] = IF m = now THEN billed[m] + 1 ELSE billed[m]
  BY DEF Bill, MeterInv, BillsAreMetered
<1> HIDE DEF now, n
<1>6. ASSUME NEW m \in DOMAIN billed
      PROVE  /\ billed'[m] \in 0..Cap + n + unmetered - 1
             /\ m = meter'.month => billed'[m] <= meter'.calls + unmetered
             /\ m > meter'.month => billed'[m] <= unmetered
  <2>1. /\ m \in Nat /\ unmetered \in Nat
        /\ billed[m] \in 0..Cap + n + unmetered - 1
        /\ m = meter.month => billed[m] <= meter.calls + unmetered
        /\ m > meter.month => billed[m] <= unmetered
    BY DEF MeterInv, BillsAreMetered, n
  <2>2. CASE m = now
    <3>1. billed'[m] = billed[m] + 1
      BY <1>5, <2>2
    <3>2. billed[m] + 1 <= meter'.calls + unmetered
      BY <1>2, <1>3, <2>1, <2>2
    <3>3. meter'.month = now
      BY <1>3
    <3> QED BY <1>1, <1>4, <2>1, <2>2, <3>1, <3>2, <3>3
  <2>3. CASE m # now
    <3>1. billed'[m] = billed[m]
      BY <1>5, <2>3
    <3>2. meter'.month = now
      BY <1>3
    <3> QED BY <1>1, <1>2, <2>1, <2>3, <3>1, <3>2
  <2> QED BY <2>2, <2>3
<1>7. BillsAreMetered'
  BY <1>1, <1>3, <1>4, <1>5, <1>6 DEF BillsAreMetered, MeterInv, n
<1> QED BY <1>3, <1>4, <1>7 DEF now

(* And one whose answer is lost.                                           *)
LEMMA LostCallsAreBilled ==
  ASSUME MeterInv, Bill, unmetered' = unmetered + 1, UNCHANGED meter
  PROVE  BillsAreMetered'
<1>1. /\ DOMAIN billed' = DOMAIN billed /\ billed' = [m \in DOMAIN billed |-> billed'[m]]
      /\ \A m \in DOMAIN billed : billed'[m] = billed[m] + 1 \/ billed'[m] = billed[m]
  BY DEF Bill, MeterInv, BillsAreMetered
<1>2. Len(Endpoints) \in Nat /\ Cap \in Nat
  BY FeedConstants
<1>3. ASSUME NEW m \in DOMAIN billed
      PROVE  /\ billed'[m] \in 0..Cap + Len(Endpoints) + (unmetered + 1) - 1
             /\ m = meter.month => billed'[m] <= meter.calls + (unmetered + 1)
             /\ m > meter.month => billed'[m] <= unmetered + 1
  <2>1. /\ billed[m] \in 0..Cap + Len(Endpoints) + unmetered - 1 /\ unmetered \in Nat /\ meter.calls \in Nat
        /\ m = meter.month => billed[m] <= meter.calls + unmetered
        /\ m > meter.month => billed[m] <= unmetered
    BY DEF MeterInv, BillsAreMetered
  <2> QED BY <1>1, <1>2, <2>1
<1>4. unmetered' \in Nat
  BY DEF MeterInv, BillsAreMetered
<1> QED BY <1>1, <1>3, <1>4 DEF MeterInv, BillsAreMetered

LEMMA MeterStepsKeep == ASSUME MeterInv, [FeedNext]_feedVars PROVE MeterInv'
<1>0. /\ Len(Endpoints) \in Nat /\ DOMAIN Endpoints = 1..Len(Endpoints) /\ Cap \in Nat \ {0}
      /\ recorder.turn \in Nat /\ meter.month \in Nat /\ meter.calls \in Nat
  BY FeedConstants DEF MeterInv, PassIsUnderTheCap, BillsAreMetered
<1>1. CASE BeginsPass \/ NotDue \/ Sleeps \/ Restarts
  <2>1. UNCHANGED <<clock, billed, unmetered, meter>>
    BY <1>1 DEF BeginsPass, NotDue, Sleeps, Restarts
  <2>2. BillsAreMetered'
    BY <2>1 DEF MeterInv, BillsAreMetered
  <2>3. IsMemory(recorder') /\ recorder'.up \in BOOLEAN /\ recorder'.turn \in 0..Len(Endpoints) + 1
    <3>1. IsMemory(recorder) /\ recorder.turn \in 0..Len(Endpoints) + 1
      BY DEF MeterInv, PassIsUnderTheCap
    <3>2. PICK m : m = recorder'
      OBVIOUS
    <3>3. IsMemory(m) /\ m.turn \in 0..Len(Endpoints) + 1 /\ (m.up = recorder.up \/ m.up = FALSE \/ m.up = TRUE)
      <4>1. CASE BeginsPass
        <5>1. \/ m = [recorder EXCEPT !.up = FALSE] /\ m.turn = recorder.turn
              \/ m = [recorder EXCEPT !.turn = 1] /\ m.turn = 1
          BY <3>1, <3>2, <4>1 DEF BeginsPass, IsMemory
        <5>2. IsMemory(m) /\ (m.up = recorder.up \/ m.up = FALSE)
          BY <3>1, <5>1 DEF IsMemory
        <5>3. m.turn \in 0..Len(Endpoints) + 1
          BY <1>0, <3>1, <5>1
        <5> QED BY <5>2, <5>3
      <4>2. CASE NotDue
        <5>1. m = [recorder EXCEPT !.turn = @ + 1] /\ recorder.turn \in 1..Len(Endpoints)
          BY <1>0, <3>2, <4>2 DEF NotDue, Polling
        <5>2. IsMemory(m) /\ m.up = recorder.up /\ m.turn = recorder.turn + 1
          BY <3>1, <5>1 DEF IsMemory
        <5> QED BY <1>0, <5>1, <5>2
      <4>3. CASE Sleeps
        <5>1. PICK wait : m = [recorder EXCEPT !.turn = 0, !.wake = clock + wait]
          BY <3>2, <4>3 DEF Sleeps
        <5>2. IsMemory(m) /\ m.up = recorder.up /\ m.turn = 0
          BY <3>1, <5>1 DEF IsMemory
        <5> QED BY <1>0, <5>2
      <4>4. CASE Restarts
        <5>1. IsMemory(m) /\ m.up = TRUE /\ m.turn = 0
          BY <3>2, <4>4 DEF Restarts, Memory, IsMemory
        <5> QED BY <1>0, <5>1
      <4> QED BY <1>1, <4>1, <4>2, <4>3, <4>4
    <3>4. m.up \in BOOLEAN
      <4>1. recorder.up \in BOOLEAN
        BY DEF MeterInv, PassIsUnderTheCap
      <4> QED BY <3>3, <4>1
    <3> QED BY <3>2, <3>3, <3>4
  <2>4. recorder'.up /\ recorder'.turn # 0 /\ meter.month = Month(clock) => meter.calls < Cap + recorder'.turn - 1
    <3>1. CASE BeginsPass
      <4>1. recorder'.up => recorder'.turn = 1 /\ ~Exhausted
        BY <3>1 DEF BeginsPass, IsMemory, MeterInv, PassIsUnderTheCap
      <4> QED BY <1>0, <4>1 DEF Exhausted
    <3>2. CASE NotDue
      <4>1. recorder'.turn = recorder.turn + 1 /\ recorder.up /\ recorder.turn \in 1..Len(Endpoints)
        BY <1>0, <3>2 DEF NotDue, Polling, IsMemory, MeterInv, PassIsUnderTheCap
      <4> QED BY <1>0, <4>1 DEF MeterInv, PassIsUnderTheCap
    <3>3. CASE Sleeps \/ Restarts
      <4>1. recorder'.turn = 0
        <5>1. CASE Sleeps
          <6>1. PICK wait : recorder' = [recorder EXCEPT !.turn = 0, !.wake = clock + wait]
            BY <5>1 DEF Sleeps
          <6> QED BY <6>1 DEF IsMemory, MeterInv, PassIsUnderTheCap
        <5>2. CASE Restarts
          BY <5>2 DEF Restarts, Memory
        <5> QED BY <3>3, <5>1, <5>2
      <4> QED BY <4>1
    <3> QED BY <1>1, <3>1, <3>2, <3>3
  <2> QED BY <2>1, <2>2, <2>3, <2>4 DEF MeterInv, PassIsUnderTheCap, IsMemory
<1>2. ASSUME Due, IsMemory(recorder'), recorder'.up \in BOOLEAN, recorder'.turn = recorder.turn + 1 \/ recorder'.up = FALSE,
             recorder'.turn \in {recorder.turn, recorder.turn + 1}, UNCHANGED clock,
             \/ Bill /\ meter' = ApplyCall(meter) /\ UNCHANGED unmetered
             \/ Bill /\ unmetered' = unmetered + 1 /\ UNCHANGED meter
             \/ UNCHANGED <<billed, unmetered, meter>>
      PROVE  MeterInv'
  <2>1. recorder.up /\ recorder.turn \in 1..Len(Endpoints) /\ recorder'.turn \in 0..Len(Endpoints) + 1
    BY <1>0, <1>2 DEF Due, Polling
  <2>2. /\ BillsAreMetered' /\ meter'.month <= Month(clock)
        /\ meter'.month = Month(clock) => meter'.calls < Cap + recorder.turn
    <3>1. CASE Bill /\ meter' = ApplyCall(meter) /\ UNCHANGED unmetered
      <4>1. BillsAreMetered' /\ meter'.month = Month(clock) /\ meter'.calls < Cap + recorder.turn
        BY <1>2, <3>1, CountedCallsAreBilled
      <4>2. Month(clock) \in Nat
        BY MonthsFollow DEF MeterInv, PassIsUnderTheCap
      <4> QED BY <4>1, <4>2
    <3>2. CASE Bill /\ unmetered' = unmetered + 1 /\ UNCHANGED meter
      <4>1. BillsAreMetered'
        BY <3>2, LostCallsAreBilled
      <4> QED BY <1>0, <2>1, <3>2, <4>1 DEF MeterInv, PassIsUnderTheCap
    <3>3. CASE UNCHANGED <<billed, unmetered, meter>>
      BY <1>0, <2>1, <3>3 DEF MeterInv, BillsAreMetered, PassIsUnderTheCap
    <3> QED BY <1>2, <3>1, <3>2, <3>3
  <2>3. meter'.calls \in Nat
    BY <2>2, <1>0 DEF BillsAreMetered
  <2> QED BY <1>0, <1>2, <2>1, <2>2, <2>3 DEF MeterInv, PassIsUnderTheCap, IsMemory
<1>3. CASE PollSucceeds
  <2>1. /\ IsMemory(recorder') /\ recorder'.up \in BOOLEAN /\ recorder'.turn = recorder.turn + 1
    BY <1>3 DEF PollSucceeds, IsMemory, MeterInv, PassIsUnderTheCap
  <2> QED BY <1>2, <1>3, <2>1 DEF PollSucceeds
<1>4. CASE PollFails \/ AnswerIsLost \/ AppendFails
  <2>0. \E r : \E fatal \in BOOLEAN : recorder' = Backs(r, fatal) /\ IsMemory(r) /\ r.turn = recorder.turn
    <3>0. IsMemory(recorder)
      BY DEF MeterInv, PassIsUnderTheCap
    <3>1. CASE PollFails \/ AnswerIsLost
      BY <3>0, <3>1 DEF PollFails, AnswerIsLost
    <3>2. CASE AppendFails
      <4>1. PICK payload \in Payloads : recorder' = Backs([recorder EXCEPT !.lastHash[Turn] = payload], FALSE)
        BY <3>2 DEF AppendFails
      <4>2. PICK r : r = [recorder EXCEPT !.lastHash[Turn] = payload]
        OBVIOUS
      <4>3. IsMemory(r) /\ r.turn = recorder.turn
        BY <3>0, <4>2 DEF IsMemory
      <4> QED BY <4>1, <4>2, <4>3
    <3> QED BY <1>4, <3>1, <3>2
  <2>1. PICK r : \E fatal \in BOOLEAN : recorder' = Backs(r, fatal) /\ IsMemory(r) /\ r.turn = recorder.turn
    BY <2>0
  <2>2. IsMemory(recorder') /\ recorder'.up \in BOOLEAN /\ recorder'.turn = recorder.turn + 1
    BY <2>1 DEF Backs, IsMemory
  <2> QED BY <1>2, <1>4, <2>2 DEF PollFails, AnswerIsLost, AppendFails
<1>5. CASE Dies
  <2>1. IsMemory(recorder') /\ recorder'.up = FALSE /\ recorder'.turn = recorder.turn /\ UNCHANGED clock
    BY <1>5 DEF Dies, IsMemory, MeterInv, PassIsUnderTheCap
  <2>2. CASE UNCHANGED <<billed, unmetered, meter>>
    BY <2>1, <2>2 DEF MeterInv, BillsAreMetered, PassIsUnderTheCap, IsMemory
  <2>3. CASE ~UNCHANGED <<billed, unmetered, meter>>
    BY <1>2, <1>5, <2>1, <2>3 DEF Dies
  <2> QED BY <2>2, <2>3
<1>6. CASE ClockTicks
  <2>1. clock' = clock + 1 /\ clock \in Nat /\ UNCHANGED <<billed, unmetered, meter, recorder>>
    BY <1>6 DEF ClockTicks, MeterInv, PassIsUnderTheCap
  <2>2. Month(clock) \in Nat /\ Month(clock') \in Nat /\ Month(clock) <= Month(clock')
    BY <2>1, MonthsFollow
  <2>3. meter.month <= Month(clock') /\ (meter.month = Month(clock') => meter.month = Month(clock))
    BY <1>0, <2>2 DEF MeterInv, PassIsUnderTheCap
  <2> QED BY <2>1, <2>3 DEF MeterInv, BillsAreMetered, PassIsUnderTheCap, IsMemory
<1>7. CASE UNCHANGED feedVars
  BY <1>7 DEF feedVars, MeterInv, BillsAreMetered, PassIsUnderTheCap, IsMemory
<1> QED BY <1>1, <1>3, <1>4, <1>5, <1>6, <1>7 DEF FeedNext

LEMMA FeedStarts == FeedInit => ArchiveInv /\ MeterInv
<1> SUFFICES ASSUME FeedInit PROVE ArchiveInv /\ MeterInv
  OBVIOUS
<1>1. /\ clock = 0 /\ unmetered = 0 /\ meter = [month |-> 0, calls |-> 0]
      /\ billed = [m \in 0..Month(MaxNow) |-> 0] /\ archive = [e \in Names |-> <<>>]
  BY DEF FeedInit
<1>2. /\ recorder.up = TRUE /\ recorder.turn = 0 /\ IsMemory(recorder)
      /\ recorder.lastHash = [e \in Names |-> "none"]
  BY DEF FeedInit, Memory, IsMemory
<1>3. Len(Endpoints) \in Nat /\ Cap \in Nat \ {0} /\ Month(0) \in Nat
  BY FeedConstants, MonthsFollow
<1>4. ArchiveInv
  <2>1. \A e \in Names : LinesSay(archive[e])
    BY <1>1 DEF LinesSay
  <2>2. <<>> \in Seq(Line)
    OBVIOUS
  <2> QED BY <1>1, <1>2, <2>1, <2>2 DEF ArchiveInv
<1>5. DOMAIN billed \subseteq Nat /\ \A m \in DOMAIN billed : billed[m] = 0
  BY <1>1
<1>6. BillsAreMetered
  BY <1>1, <1>3, <1>5 DEF BillsAreMetered
<1>7. PassIsUnderTheCap
  <2>1. recorder.turn \in 0..Len(Endpoints) + 1 /\ clock \in Nat /\ meter.month <= Month(clock)
    BY <1>1, <1>2, <1>3
  <2>2. recorder.up \in BOOLEAN
    BY <1>2
  <2> QED BY <1>2, <2>1, <2>2 DEF PassIsUnderTheCap
<1> QED BY <1>4, <1>6, <1>7 DEF MeterInv

(* What the vendor bills in a month stays under the cap but for the last   *)
(* pass and the answers that were lost, also when the disk fills: the      *)
(* meter's file outlives the process (signals/meter.ts, recorder.ts).      *)
THEOREM SpendIsCapped == FeedSpec => []SpendStaysUnderTheCap
<1>1. FeedInit => MeterInv
  BY FeedStarts
<1>2. MeterInv /\ [FeedNext]_feedVars => MeterInv'
  BY MeterStepsKeep
<1>3. MeterInv => SpendStaysUnderTheCap
  <2> SUFFICES ASSUME MeterInv, NEW m \in DOMAIN billed PROVE billed[m] < Cap + Len(Endpoints) + unmetered
    BY DEF SpendStaysUnderTheCap
  <2>1. billed[m] \in 0..Cap + Len(Endpoints) + unmetered - 1 /\ unmetered \in Nat
    BY DEF MeterInv, BillsAreMetered
  <2>2. Len(Endpoints) \in Nat /\ Cap \in Nat
    BY FeedConstants
  <2> QED BY <2>1, <2>2
<1> QED BY <1>1, <1>2, <1>3, PTL DEF FeedSpec

(* While the disk takes what is appended, what the recorder keeps can be   *)
(* read back as it was said, over restarts, lost answers and day rolls,    *)
(* and it stays under the cap (signals/journal.ts, archive.ts).            *)
THEOREM RecordingIsFaithful == ASSUME ~DiskFills PROVE FeedSpec => []RecorderKeepsFaith
<1>1. FeedInit => ArchiveInv
  BY FeedStarts
<1>2. ArchiveInv /\ [FeedNext]_feedVars => ArchiveInv'
  BY ArchiveStepsKeep
<1>3. ArchiveInv => SeriesAreThoseOfTheirPoll
  BY LinesCanBeRead
<1>4. SeriesAreThoseOfTheirPoll /\ SpendStaysUnderTheCap => RecorderKeepsFaith
  BY DEF RecorderKeepsFaith
<1> QED BY <1>1, <1>2, <1>3, <1>4, SpendIsCapped, PTL DEF FeedSpec

-----------------------------------------------------------------------------
(* The public record.  The binary search of ruleAt is a recursive function *)
(* on the two ends of what is left; it exists, and what it returns is      *)
(* right, by induction on how much is left, as the least counterexample.   *)
Spans(L) == (0..L) \X (0..L)
Size(p) == p[2] - p[1]
Middle(p) == (p[1] + p[2]) \div 2
Upper(p) == <<Middle(p) + 1, p[2]>>
Lower(p) == <<p[1], Middle(p)>>
Halving(rs, t, f, p) ==
  IF p[1] >= p[2] THEN p[1]
  ELSE IF rs[Middle(p) + 1].effectiveAt <= t THEN f[Upper(p)] ELSE f[Lower(p)]
Searching(rs, t) == CHOOSE f : f = [p \in Spans(Len(rs)) |-> Halving(rs, t, f, p)]

LEMMA MiddleIsBetween ==
  ASSUME NEW lo \in Nat, NEW hi \in Nat, lo < hi
  PROVE  /\ (lo + hi) \div 2 \in Nat /\ lo <= (lo + hi) \div 2 /\ (lo + hi) \div 2 < hi
OBVIOUS

LEMMA HalvesAreSmaller ==
  ASSUME NEW L \in Nat, NEW p \in Spans(L), p[1] < p[2]
  PROVE  /\ Middle(p) \in 0..L /\ Middle(p) + 1 \in 1..L /\ p[1] <= Middle(p) /\ Middle(p) < p[2]
         /\ Upper(p) \in Spans(L) /\ Size(Upper(p)) < Size(p)
         /\ Lower(p) \in Spans(L) /\ Size(Lower(p)) < Size(p)
<1>1. p[1] \in 0..L /\ p[2] \in 0..L
  BY DEF Spans
<1>2. Middle(p) \in Nat /\ p[1] <= Middle(p) /\ Middle(p) < p[2]
  <2>1. p[1] \in Nat /\ p[2] \in Nat
    BY <1>1
  <2> QED BY <2>1, MiddleIsBetween DEF Middle
<1>3. Middle(p) \in 0..L /\ Middle(p) + 1 \in 1..L
  BY <1>1, <1>2
<1>4. Upper(p) \in Spans(L) /\ Lower(p) \in Spans(L)
  BY <1>1, <1>3 DEF Upper, Lower, Spans
<1>5. /\ Upper(p)[1] = Middle(p) + 1 /\ Upper(p)[2] = p[2]
      /\ Lower(p)[1] = p[1] /\ Lower(p)[2] = Middle(p)
  BY DEF Upper, Lower
<1>6. Size(Upper(p)) < Size(p) /\ Size(Lower(p)) < Size(p)
  BY <1>1, <1>2, <1>5 DEF Size
<1> QED BY <1>2, <1>3, <1>4, <1>6

LEMMA OneHalvingOn ==
  ASSUME NEW rs, NEW t, NEW L \in Nat, NEW n \in Int, NEW g,
         \A p \in Spans(L) : Size(p) < n => g[p] = Halving(rs, t, g, p)
  PROVE  LET h == [p \in Spans(L) |-> Halving(rs, t, g, p)]
         IN  \A p \in Spans(L) : Size(p) <= n => h[p] = Halving(rs, t, h, p)
<1> DEFINE h == [p \in Spans(L) |-> Halving(rs, t, g, p)]
<1>0. \A p \in Spans(L) : h[p] = Halving(rs, t, g, p)
  OBVIOUS
<1> HIDE DEF h
<1>1. ASSUME NEW p \in Spans(L), Size(p) <= n
      PROVE  h[p] = Halving(rs, t, h, p)
  <2>1. CASE p[1] >= p[2]
    BY <1>0, <2>1 DEF Halving
  <2>2. CASE ~(p[1] >= p[2])
    <3>1. p[1] < p[2] /\ Size(p) \in Int
      BY <2>2 DEF Spans, Size
    <3>2. /\ Upper(p) \in Spans(L) /\ Size(Upper(p)) < Size(p)
          /\ Lower(p) \in Spans(L) /\ Size(Lower(p)) < Size(p)
      BY <3>1, HalvesAreSmaller
    <3>3. \A q \in Spans(L) : Size(q) \in Int
      BY DEF Spans, Size
    <3>4. Size(Upper(p)) < n /\ Size(Lower(p)) < n
      BY <1>1, <3>1, <3>2, <3>3
    <3>5. h[Upper(p)] = g[Upper(p)] /\ h[Lower(p)] = g[Lower(p)]
      BY <3>2, <3>4, <1>0
    <3> QED BY <3>5, <1>0 DEF Halving
  <2> QED BY <2>1, <2>2
<1> QED BY <1>1 DEF h

LEMMA SearchExists ==
  ASSUME NEW rs, NEW t, NEW L \in Nat, L = Len(rs)
  PROVE  \A p \in Spans(L) : Searching(rs, t)[p] = Halving(rs, t, Searching(rs, t), p)
<1> DEFINE Fine(n) == \E g : \A p \in Spans(L) : Size(p) <= n => g[p] = Halving(rs, t, g, p)
           Bad == {n \in Nat : ~Fine(n)}
<1>0. \A p \in Spans(L) : p[1] \in 0..L /\ p[2] \in 0..L /\ Size(p) \in Int /\ Size(p) <= L
  BY DEF Spans, Size
<1>1. Bad = {}
  <2> SUFFICES ASSUME Bad # {} PROVE FALSE
    OBVIOUS
  <2>1. PICK n \in Bad : \A m \in Bad : n <= m
    <3> HIDE DEF Fine
    <3>1. Bad \in SUBSET Nat
      OBVIOUS
    <3> QED BY <3>1, LeastNatural
  <2>2. Fine(0)
    <3> DEFINE g == [p \in Spans(L) |-> p[1]]
    <3>1. ASSUME NEW p \in Spans(L), Size(p) <= 0
          PROVE  g[p] = Halving(rs, t, g, p)
      <4>0. p[1] \in 0..L /\ p[2] \in 0..L /\ p[2] - p[1] <= 0
        BY <1>0, <3>1 DEF Size
      <4>1. p[1] >= p[2]
        BY <4>0
      <4> QED BY <4>1 DEF Halving
    <3> HIDE DEF g
    <3> QED BY <3>1
  <2>3. n \in Nat /\ n # 0 /\ n - 1 \in Nat /\ Fine(n - 1)
    <3> HIDE DEF Fine
    <3> QED BY <2>1, <2>2
  <2>4. PICK g : \A p \in Spans(L) : Size(p) <= n - 1 => g[p] = Halving(rs, t, g, p)
    BY <2>3
  <2>5. \A p \in Spans(L) : Size(p) < n => g[p] = Halving(rs, t, g, p)
    BY <1>0, <2>3, <2>4
  <2> DEFINE h == [p \in Spans(L) |-> Halving(rs, t, g, p)]
  <2>6. \A p \in Spans(L) : Size(p) <= n => h[p] = Halving(rs, t, h, p)
    BY <2>3, <2>5, OneHalvingOn
  <2>7. Fine(n)
    <3> HIDE DEF h
    <3> QED BY <2>6
  <2> QED BY <2>1, <2>7
<1>2. PICK g : \A p \in Spans(L) : Size(p) <= L => g[p] = Halving(rs, t, g, p)
  BY <1>1
<1>3. \A p \in Spans(L) : Size(p) < L + 1 => g[p] = Halving(rs, t, g, p)
  BY <1>0, <1>2
<1> DEFINE h == [p \in Spans(L) |-> Halving(rs, t, g, p)]
<1>4. \A p \in Spans(L) : Size(p) <= L + 1 => h[p] = Halving(rs, t, h, p)
  <2>1. L + 1 \in Int
    OBVIOUS
  <2> QED BY <2>1, <1>3, OneHalvingOn
<1>5. h = [p \in Spans(L) |-> h[p]]
  OBVIOUS
<1> HIDE DEF h
<1>6. \A p \in Spans(L) : h[p] = Halving(rs, t, h, p)
  BY <1>0, <1>4
<1>7. h = [p \in Spans(L) |-> Halving(rs, t, h, p)]
  BY <1>5, <1>6
<1> DEFINE f == Searching(rs, t)
<1>8. f = [p \in Spans(L) |-> Halving(rs, t, f, p)]
  BY <1>7 DEF Searching
<1> HIDE DEF f
<1>9. \A p \in Spans(L) : f[p] = Halving(rs, t, f, p)
  BY <1>8
<1> QED BY <1>9 DEF f

Searched(rs, t) ==
  LET search[left \in (0..Len(rs)) \X (0..Len(rs))] ==
        LET lo == left[1]
            hi == left[2]
            mid == (lo + hi) \div 2
        IN IF lo >= hi THEN lo
           ELSE IF rs[mid + 1].effectiveAt <= t THEN search[<<mid + 1, hi>>] ELSE search[<<lo, mid>>]
  IN search[<<0, Len(rs)>>]

LEMMA SearchedIs ==
  ASSUME NEW rs, NEW t
  PROVE  Searched(rs, t) = Searching(rs, t)[<<0, Len(rs)>>]
  BY DEF Searched, Searching, Halving, Spans, Middle, Upper, Lower

\* The first k entries had begun by t, and no other.
BegunBy(rs, t, k) ==
  /\ k \in 0..Len(rs)
  /\ \A i \in 1..k : rs[i].effectiveAt <= t
  /\ \A i \in k + 1..Len(rs) : ~(rs[i].effectiveAt <= t)
Dated(rs) ==
  /\ Len(rs) \in Nat
  /\ \A i \in 1..Len(rs) : rs[i].effectiveAt \in Nat
  /\ \A i, j \in 1..Len(rs) : i <= j => rs[i].effectiveAt <= rs[j].effectiveAt
Around(rs, t, p) ==
  /\ p[1] <= p[2]
  /\ \A i \in 1..p[1] : rs[i].effectiveAt <= t
  /\ \A i \in p[2] + 1..Len(rs) : ~(rs[i].effectiveAt <= t)

LEMMA SearchFinds ==
  ASSUME NEW rs, NEW t \in Nat, Dated(rs)
  PROVE  BegunBy(rs, t, Searched(rs, t))
<1> DEFINE L == Len(rs)
           f == Searching(rs, t)
           Found(p) == Around(rs, t, p) => BegunBy(rs, t, f[p])
           Bad == {n \in Nat : \E p \in Spans(L) : Size(p) = n /\ ~Found(p)}
<1>0. L \in Nat /\ \A p \in Spans(L) : f[p] = Halving(rs, t, f, p)
  BY SearchExists DEF Dated
<1>. HIDE DEF f
<1>1. \A p \in Spans(L) : p[1] \in 0..L /\ p[2] \in 0..L /\ Size(p) = p[2] - p[1]
  BY DEF Spans, Size
<1>2. Bad = {}
  <2> SUFFICES ASSUME Bad # {} PROVE FALSE
    OBVIOUS
  <2>1. PICK n \in Bad : \A m \in Bad : n <= m
    <3> HIDE DEF Found
    <3>1. Bad \in SUBSET Nat
      OBVIOUS
    <3> HIDE DEF Bad
    <3> QED BY <3>1, LeastNatural
  <2>2. n \in Nat /\ \E p \in Spans(L) : Size(p) = n /\ ~Found(p)
    <3> HIDE DEF Found
    <3> QED BY <2>1
  <2>3. PICK p \in Spans(L) : Size(p) = n /\ ~Found(p)
    BY <2>2
  <2>4. ASSUME NEW q \in Spans(L), Size(q) < n, Size(q) \in Nat PROVE Found(q)
    <3> SUFFICES ASSUME ~Found(q) PROVE FALSE
      OBVIOUS
    <3>1. Size(q) \in Bad
      BY <2>4
    <3> HIDE DEF Bad
    <3> QED BY <3>1, <2>1, <2>2, <2>4
  <2>5. Around(rs, t, p) /\ p[1] \in 0..L /\ p[2] \in 0..L /\ p[1] <= p[2] /\ ~BegunBy(rs, t, f[p])
    BY <2>3, <1>1 DEF Around
  <2>6. CASE p[1] >= p[2]
    <3>1. f[p] = p[1] /\ p[1] = p[2]
      BY <1>0, <2>3, <2>5, <2>6 DEF Halving
    <3>2. BegunBy(rs, t, p[1])
      BY <2>5, <3>1 DEF Around, BegunBy
    <3> QED BY <2>5, <3>1, <3>2
  <2>7. CASE ~(p[1] >= p[2])
    <3> DEFINE m == Middle(p)
               at == rs[m + 1].effectiveAt
    <3>1. p[1] < p[2]
      BY <2>5, <2>7
    <3>2. /\ m \in 0..L /\ m + 1 \in 1..L /\ p[1] <= m /\ m < p[2]
          /\ Upper(p) \in Spans(L) /\ Size(Upper(p)) < Size(p)
          /\ Lower(p) \in Spans(L) /\ Size(Lower(p)) < Size(p)
      BY <1>0, <2>3, <3>1, HalvesAreSmaller
    <3>3. /\ Upper(p)[1] = m + 1 /\ Upper(p)[2] = p[2]
          /\ Lower(p)[1] = p[1] /\ Lower(p)[2] = m
      BY DEF Upper, Lower
    <3>4. f[p] = IF at <= t THEN f[Upper(p)] ELSE f[Lower(p)]
      BY <1>0, <2>3, <2>7 DEF Halving
    <3>5. at \in Nat /\ (\A i \in 1..m + 1 : rs[i].effectiveAt \in Nat /\ rs[i].effectiveAt <= at)
          /\ (\A i \in m + 1..L : rs[i].effectiveAt \in Nat /\ at <= rs[i].effectiveAt)
      BY <1>0, <3>2 DEF Dated
    <3> HIDE DEF m, at
    <3>6. Size(Upper(p)) \in Nat /\ Size(Lower(p)) \in Nat
      BY <1>1, <2>5, <3>2, <3>3
    <3>7. Found(Upper(p)) /\ Found(Lower(p))
      <4> HIDE DEF Found
      <4> QED BY <2>3, <2>4, <3>2, <3>6
    <3>8. CASE at <= t
      <4>1. Around(rs, t, Upper(p))
        <5>1. \A i \in 1..m + 1 : rs[i].effectiveAt <= t
          BY <3>2, <3>5, <3>8
        <5>2. m + 1 <= p[2]
          BY <3>2, <2>5
        <5> QED BY <5>1, <5>2, <2>5, <3>3 DEF Around
      <4> QED BY <4>1, <3>4, <3>7, <3>8, <2>5
    <3>9. CASE ~(at <= t)
      <4>1. Around(rs, t, Lower(p))
        <5>1. \A i \in m + 1..L : ~(rs[i].effectiveAt <= t)
          BY <3>2, <3>5, <3>9
        <5> QED BY <5>1, <3>2, <2>5, <3>3 DEF Around
      <4> QED BY <4>1, <3>4, <3>7, <3>9, <2>5
    <3> QED BY <3>8, <3>9
  <2> QED BY <2>6, <2>7
<1>3. <<0, L>> \in Spans(L) /\ Around(rs, t, <<0, L>>) /\ Size(<<0, L>>) \in Nat
  BY <1>0 DEF Spans, Around, Size
<1>4. Found(<<0, L>>)
  <2> HIDE DEF Found
  <2> QED BY <1>2, <1>3
<1> QED BY <1>3, <1>4, SearchedIs DEF f

LEMMA BegunOnce ==
  ASSUME NEW rs, NEW t \in Nat, Dated(rs), NEW j, NEW k, BegunBy(rs, t, j), BegunBy(rs, t, k)
  PROVE  j = k
<1>1. j \in Nat /\ k \in Nat /\ j <= Len(rs) /\ k <= Len(rs) /\ Len(rs) \in Nat
  BY DEF BegunBy, Dated
<1>2. ~(j < k)
  <2> SUFFICES ASSUME j < k PROVE FALSE
    OBVIOUS
  <2>1. k \in 1..k /\ k \in j + 1..Len(rs)
    BY <1>1
  <2> QED BY <2>1 DEF BegunBy
<1>3. ~(k < j)
  <2> SUFFICES ASSUME k < j PROVE FALSE
    OBVIOUS
  <2>1. j \in 1..j /\ j \in k + 1..Len(rs)
    BY <1>1
  <2> QED BY <2>1 DEF BegunBy
<1> QED BY <1>1, <1>2, <1>3

-----------------------------------------------------------------------------
RuleEntry == [rulesHash : Hashes, effectiveAt : Nat, publishedAt : Nat]
RulesInv == rules \in Seq(RuleEntry) /\ Dated(rules) /\ blockTime \in Nat

LEMMA RulesStart == RulebookInit => RulesInv
  BY DEF RulebookInit, RulesInv, Dated

\* Whatever is appended comes last, and does not begin before what is there.
RulesGrow ==
  \/ UNCHANGED rules
  \/ \E e \in RuleEntry : rules' = Append(rules, e) /\ (rules # <<>> => LastRule.effectiveAt <= e.effectiveAt)

LEMMA RulesStep ==
  ASSUME RulesInv, [RulebookNext]_rulebookVars
  PROVE  RulesGrow /\ blockTime' \in Nat
<1>1. CASE UNCHANGED rulebookVars
  BY <1>1 DEF rulebookVars, RulesInv, RulesGrow
<1>2. CASE BlockPasses
  BY <1>2 DEF BlockPasses, RulesInv, RulesGrow
<1>3. ASSUME NEW s \in Addresses, NEW h \in Hashes \cup {EmptyHash}, NEW t \in 0..LastBlock, Publish(s, h, t)
      PROVE  RulesGrow /\ blockTime' \in Nat
  <2>1. h \in Hashes /\ t \in Nat /\ blockTime \in Nat /\ blockTime' = blockTime
    BY <1>3, RulebookAssumption DEF Publish, RulesInv
  <2> DEFINE e == [rulesHash |-> h, effectiveAt |-> t, publishedAt |-> blockTime]
  <2>2. e \in RuleEntry /\ e.effectiveAt = t
    BY <2>1 DEF RuleEntry
  <2>3. rules' = Append(rules, e) /\ (rules # <<>> => LastRule.effectiveAt <= t)
    BY <1>3 DEF Publish, InOrder
  <2> HIDE DEF e
  <2> QED BY <2>1, <2>2, <2>3 DEF RulesGrow
<1>4. ASSUME NEW s \in Addresses, NEW n \in Addresses \cup {Zero}, TransferOperator(s, n)
      PROVE  RulesGrow /\ blockTime' \in Nat
  BY <1>4 DEF TransferOperator, RulesInv, RulesGrow
<1>5. ASSUME NEW s \in Addresses, AcceptOperator(s)
      PROVE  RulesGrow /\ blockTime' \in Nat
  BY <1>5 DEF AcceptOperator, RulesInv, RulesGrow
<1> QED BY <1>1, <1>2, <1>3, <1>4, <1>5 DEF RulebookNext

LEMMA AppendedIsDated ==
  ASSUME NEW rs \in Seq(RuleEntry), Dated(rs), NEW e \in RuleEntry,
         rs # <<>> => rs[Len(rs)].effectiveAt <= e.effectiveAt
  PROVE  /\ Append(rs, e) \in Seq(RuleEntry) /\ Dated(Append(rs, e))
         /\ Len(Append(rs, e)) = Len(rs) + 1 /\ Append(rs, e)[Len(rs) + 1] = e
         /\ \A i \in 1..Len(rs) : Append(rs, e)[i] = rs[i]
<1> DEFINE as == Append(rs, e)
<1>1. /\ as \in Seq(RuleEntry) /\ Len(as) = Len(rs) + 1 /\ as[Len(rs) + 1] = e
      /\ \A i \in 1..Len(rs) : as[i] = rs[i]
  OBVIOUS
<1>2. Len(rs) \in Nat /\ e.effectiveAt \in Nat
  BY DEF RuleEntry
<1>3. \A i \in 1..Len(rs) : rs[i].effectiveAt \in Nat /\ rs[i].effectiveAt <= e.effectiveAt
  <2> SUFFICES ASSUME NEW i \in 1..Len(rs) PROVE rs[i].effectiveAt \in Nat /\ rs[i].effectiveAt <= e.effectiveAt
    OBVIOUS
  <2>1. rs # <<>> /\ Len(rs) \in 1..Len(rs) /\ i <= Len(rs)
    BY <1>2
  <2>2. rs[i].effectiveAt \in Nat /\ rs[Len(rs)].effectiveAt \in Nat /\ rs[i].effectiveAt <= rs[Len(rs)].effectiveAt
    BY <2>1 DEF Dated
  <2> QED BY <1>2, <2>1, <2>2
<1> HIDE DEF as
<1>4. \A i \in 1..Len(as) : i = Len(rs) + 1 \/ i \in 1..Len(rs)
  BY <1>1, <1>2
<1>5. \A i \in 1..Len(as) : as[i].effectiveAt \in Nat
  BY <1>1, <1>2, <1>3, <1>4
<1>6. ASSUME NEW i \in 1..Len(as), NEW j \in 1..Len(as), i <= j
      PROVE  as[i].effectiveAt <= as[j].effectiveAt
  <2>1. CASE j \in 1..Len(rs)
    <3>1. i \in 1..Len(rs)
      BY <1>2, <1>6, <2>1
    <3> QED BY <1>1, <1>6, <2>1, <3>1 DEF Dated
  <2>2. CASE j = Len(rs) + 1 /\ i \in 1..Len(rs)
    BY <1>1, <1>3, <2>2
  <2>3. CASE j = Len(rs) + 1 /\ i = Len(rs) + 1
    <3>1. as[i].effectiveAt \in Nat
      BY <1>5
    <3>2. i = j
      BY <2>3
    <3>3. as[j].effectiveAt = as[i].effectiveAt
      BY <3>2
    <3>4. \A n \in Nat : n <= n
      OBVIOUS
    <3> QED BY <3>1, <3>3, <3>4
  <2>4. (i = Len(rs) + 1 \/ i \in 1..Len(rs)) /\ (j = Len(rs) + 1 \/ j \in 1..Len(rs))
    BY <1>4, <1>6
  <2>5. i = Len(rs) + 1 => ~(j \in 1..Len(rs))
    BY <1>2, <1>6
  <2> QED BY <2>1, <2>2, <2>3, <2>4, <2>5
<1>7. Dated(as)
  <2>1. Len(as) \in Nat
    BY <1>1, <1>2
  <2> QED BY <2>1, <1>5, <1>6 DEF Dated
<1> QED BY <1>1, <1>7 DEF as

LEMMA RulesKept == RulesInv /\ [RulebookNext]_rulebookVars => RulesInv'
<1> SUFFICES ASSUME RulesInv, [RulebookNext]_rulebookVars PROVE RulesInv'
  OBVIOUS
<1>1. RulesGrow /\ blockTime' \in Nat
  BY RulesStep
<1>2. CASE UNCHANGED rules
  BY <1>1, <1>2 DEF RulesInv, Dated
<1>3. ASSUME NEW e \in RuleEntry, rules' = Append(rules, e), rules # <<>> => LastRule.effectiveAt <= e.effectiveAt
      PROVE  RulesInv'
  <2>1. Append(rules, e) \in Seq(RuleEntry) /\ Dated(Append(rules, e))
    BY <1>3, AppendedIsDated DEF RulesInv, LastRule
  <2>2. rules' \in Seq(RuleEntry) /\ Dated(rules')
    BY <1>3, <2>1
  <2> QED BY <1>1, <2>2 DEF RulesInv, Dated
<1> QED BY <1>1, <1>2, <1>3 DEF RulesGrow

(* An answer is final: for any addresses, hashes and blocks, once an entry   *)
(* that begins after an instant is published, the public record's answer for *)
(* that instant is its last entry begun by then and never moves again        *)
(* (MandateRulebook.sol, publish and ruleAt).                                *)
THEOREM RecordIsFinal == RulebookSpec => AnswersAreFinal
<1>1. RulesInv /\ [RulebookNext]_rulebookVars =>
        [/\ \A t \in 0..LastBlock :
              rules # <<>> /\ t < LastRule.effectiveAt =>
                /\ AnswerAt(t)' = AnswerAt(t)
                /\ \A i \in DOMAIN rules : rules[i].effectiveAt <= t => i <= RuleAt(t)
         /\ operator' # operator => operator' = pendingOperator]_rulebookVars
  <2> SUFFICES ASSUME RulesInv, RulebookNext
               PROVE  /\ \A t \in 0..LastBlock :
                            rules # <<>> /\ t < LastRule.effectiveAt =>
                              /\ AnswerAt(t)' = AnswerAt(t)
                              /\ \A i \in DOMAIN rules : rules[i].effectiveAt <= t => i <= RuleAt(t)
                      /\ operator' # operator => operator' = pendingOperator
    OBVIOUS
  <2>1. operator' # operator => operator' = pendingOperator
    BY DEF RulebookNext, BlockPasses, Publish, TransferOperator, AcceptOperator
  <2>2. ASSUME NEW t \in 0..LastBlock, rules # <<>>, t < LastRule.effectiveAt
        PROVE  AnswerAt(t)' = AnswerAt(t) /\ \A i \in DOMAIN rules : rules[i].effectiveAt <= t => i <= RuleAt(t)
    <3> DEFINE k == Searched(rules, t)
               L == Len(rules)
    <3>1. t \in Nat /\ rules \in Seq(RuleEntry) /\ Dated(rules) /\ L \in Nat /\ DOMAIN rules = 1..L
      BY <2>2, RulebookAssumption DEF RulesInv
    <3>2. BegunBy(rules, t, k)
      BY <3>1, SearchFinds
    <3>3. RuleAt(t) = k /\ RuleAt(t)' = Searched(rules', t)
      BY DEF RuleAt, Searched
    <3> HIDE DEF k
    <3>4. \A i \in DOMAIN rules : rules[i].effectiveAt <= t => i <= k
      <4> SUFFICES ASSUME NEW i \in 1..L, rules[i].effectiveAt <= t PROVE i <= k
        BY <3>1
      <4>1. k \in Nat /\ (i <= k \/ i \in k + 1..L)
        BY <3>1, <3>2 DEF BegunBy
      <4> QED BY <4>1, <3>2 DEF BegunBy
    <3>5. CASE UNCHANGED rules
      <4>1. Searched(rules', t) = k
        BY <3>5 DEF k
      <4> QED BY <3>3, <3>4, <3>5, <4>1 DEF AnswerAt
    <3>6. ASSUME NEW e \in RuleEntry, rules' = Append(rules, e), LastRule.effectiveAt <= e.effectiveAt
          PROVE  AnswerAt(t)' = AnswerAt(t)
      <4> DEFINE as == Append(rules, e)
                 j == Searched(as, t)
      <4>1. /\ Dated(as) /\ Len(as) = L + 1 /\ as[L + 1] = e
            /\ \A i \in 1..L : as[i] = rules[i]
        BY <3>1, <3>6, AppendedIsDated DEF LastRule
      <4>2. BegunBy(as, t, j)
        BY <3>1, <4>1, SearchFinds
      <4>3. LastRule.effectiveAt \in Nat /\ e.effectiveAt \in Nat
        <5>1. L \in 1..L
          BY <2>2, <3>1
        <5>2. e.effectiveAt \in Nat
          BY <3>6 DEF RuleEntry
        <5> QED BY <3>1, <5>1, <5>2 DEF LastRule, Dated
      <4>4. ~(e.effectiveAt <= t)
        BY <2>2, <3>1, <3>6, <4>3
      <4>5. BegunBy(as, t, k)
        <5>1. k \in 0..L /\ k \in 0..L + 1
          BY <3>1, <3>2 DEF BegunBy
        <5>2. \A i \in 1..k : i \in 1..L
          BY <3>1, <5>1
        <5>3. \A i \in k + 1..L + 1 : i \in k + 1..L \/ i = L + 1
          BY <3>1, <5>1
        <5>4. \A i \in k + 1..L : i \in 1..L
          BY <3>1, <5>1
        <5> HIDE DEF as
        <5> QED BY <3>2, <4>1, <4>4, <5>1, <5>2, <5>3, <5>4 DEF BegunBy
      <4>6. j = k
        <5> HIDE DEF j, as
        <5> QED BY <3>1, <4>1, <4>2, <4>5, BegunOnce
      <4>7. RuleAt(t)' = k
        BY <3>3, <3>6, <4>6
      <4>8. k # 0 => k \in 1..L /\ rules'[k] = rules[k]
        BY <3>1, <3>2, <3>6, <4>1 DEF BegunBy
      <4>9. AnswerAt(t)' = IF RuleAt(t)' = 0 THEN EmptyHash ELSE rules'[RuleAt(t)'].rulesHash
        BY DEF AnswerAt
      <4> HIDE DEF j, as
      <4> QED BY <3>3, <4>7, <4>8, <4>9 DEF AnswerAt
    <3>7. RulesGrow
      BY RulesStep
    <3> QED BY <2>2, <3>3, <3>4, <3>5, <3>6, <3>7 DEF RulesGrow
  <2> QED BY <2>1, <2>2
<1> QED BY <1>1, RulesStart, RulesKept, PTL DEF RulebookSpec, AnswersAreFinal

-----------------------------------------------------------------------------
(* What a reading pools.  The archive is in the order it was polled in, a  *)
(* trip was decided on a poll that held something, and ended after it      *)
(* began: so the poll of every event of a block lies in the block's own    *)
(* window, and between two polls of a window lie only changes it looked at.*)
PollRow == [at : Nat, series : SUBSET UNION Published]
Trip == [ref : Followed, hold : BOOLEAN, opened : Nat, closed : Nat, poll : Nat]

LogInOrder ==
  /\ readingNow \in Nat /\ pollLog \in Seq(PollRow)
  /\ \A i \in DOMAIN pollLog : pollLog[i].at <= readingNow
  /\ \A i, j \in DOMAIN pollLog : i < j => pollLog[i].at < pollLog[j].at
DecidedOn(t, log) == t.poll \in DOMAIN log /\ log[t.poll].series # {} /\ log[t.poll].at < t.opened
TripsAreDated ==
  /\ trips \subseteq Trip
  /\ \A t \in trips : DecidedOn(t, pollLog) /\ t.opened <= readingNow 
                        /\ (t.closed = 0 \/ t.opened < t.closed) /\ t.closed <= readingNow
EventsAreCounted == configEvents \subseteq Nat /\ IsFiniteSet(configEvents)
ReadingInv == LogInOrder /\ TripsAreDated /\ EventsAreCounted

LEMMA PollsAreTimed ==
  ASSUME ReadingInv
  PROVE  /\ readingNow \in Nat /\ DOMAIN pollLog = 1..Len(pollLog) /\ Len(pollLog) \in Nat
         /\ \A i \in DOMAIN pollLog : pollLog[i].at \in Nat
<1>1. pollLog \in Seq(PollRow) /\ readingNow \in Nat
  BY DEF ReadingInv, LogInOrder
<1>2. \A i \in DOMAIN pollLog : pollLog[i] \in PollRow
  BY <1>1
<1>3. \A i \in DOMAIN pollLog : pollLog[i].at \in Nat
  BY <1>2 DEF PollRow
<1> QED BY <1>1, <1>3

LEMMA RecordedKeepsInv == ASSUME ReadingInv, Recorded PROVE ReadingInv'
<1>1. /\ readingNow \in Nat /\ readingNow' = readingNow + 1 /\ pollLog \in Seq(PollRow)
      /\ trips' = trips /\ configEvents' = configEvents
  BY DEF ReadingInv, LogInOrder, Recorded, Passes
<1>2. PICK s \in Published : pollLog' = Append(pollLog, [at |-> readingNow', series |-> s])
  BY DEF Recorded
<1> DEFINE new == [at |-> readingNow', series |-> s]
<1>3. new \in PollRow /\ new.at = readingNow + 1
  BY <1>1, <1>2 DEF PollRow
<1>4. /\ pollLog' \in Seq(PollRow) /\ DOMAIN pollLog' = 1..Len(pollLog) + 1 /\ DOMAIN pollLog = 1..Len(pollLog)
      /\ Len(pollLog) \in Nat
      /\ pollLog'[Len(pollLog) + 1] = new /\ \A i \in DOMAIN pollLog : pollLog'[i] = pollLog[i]
  <2> HIDE DEF new
  <2> QED BY <1>1, <1>2, <1>3 DEF new
<1>5. \A i \in DOMAIN pollLog : pollLog[i].at \in Nat
  BY PollsAreTimed
<1>6. LogInOrder'
  <2>1. \A i \in DOMAIN pollLog' : pollLog'[i].at <= readingNow'
    <3> HIDE DEF new
    <3> QED BY <1>1, <1>3, <1>4, <1>5 DEF ReadingInv, LogInOrder
  <2>2. ASSUME NEW i \in DOMAIN pollLog', NEW j \in DOMAIN pollLog', i < j
        PROVE  pollLog'[i].at < pollLog'[j].at
    <3>1. i \in DOMAIN pollLog
      BY <2>2, <1>4
    <3>2. CASE j \in DOMAIN pollLog
      BY <2>2, <3>1, <3>2, <1>4 DEF ReadingInv, LogInOrder
    <3>3. CASE j = Len(pollLog) + 1
      <4>1. pollLog[i].at <= readingNow /\ pollLog[i].at \in Nat
        BY <3>1, <1>5 DEF ReadingInv, LogInOrder
      <4> HIDE DEF new
      <4> QED BY <3>1, <3>3, <4>1, <1>1, <1>3, <1>4
    <3> QED BY <2>2, <3>2, <3>3, <1>4
  <2> QED BY <1>1, <1>4, <2>1, <2>2 DEF LogInOrder
<1>7. TripsAreDated'
  <2>1. ASSUME NEW t \in trips
        PROVE  /\ DecidedOn(t, pollLog') /\ t.opened <= readingNow'
               /\ (t.closed = 0 \/ t.opened < t.closed) /\ t.closed <= readingNow'
    <3>1. /\ DecidedOn(t, pollLog) /\ t.opened <= readingNow /\ (t.closed = 0 \/ t.opened < t.closed)
          /\ t.opened \in Nat /\ t.closed \in Nat /\ t.closed <= readingNow
      BY <2>1 DEF ReadingInv, TripsAreDated, Trip
    <3>2. DecidedOn(t, pollLog')
      BY <3>1, <1>4 DEF DecidedOn
    <3> QED BY <3>1, <3>2, <1>1
  <2> QED BY <2>1, <1>1 DEF ReadingInv, TripsAreDated
<1> QED BY <1>1, <1>6, <1>7 DEF ReadingInv, EventsAreCounted

LEMMA TripsKeepInv == ASSUME ReadingInv, Entered \/ Left PROVE ReadingInv'
<1>1. /\ readingNow \in Nat /\ readingNow' = readingNow + 1
      /\ pollLog' = pollLog /\ configEvents' = configEvents
  BY DEF ReadingInv, LogInOrder, Entered, Left, Passes
<1>2. /\ pollLog \in Seq(PollRow) /\ \A i \in DOMAIN pollLog : pollLog[i].at <= readingNow /\ pollLog[i].at \in Nat
  BY PollsAreTimed DEF ReadingInv, LogInOrder
<1>3. LogInOrder'
  BY <1>1, <1>2 DEF ReadingInv, LogInOrder
<1> DEFINE Apart(t) == /\ DecidedOn(t, pollLog) /\ t.opened <= readingNow + 1
                       /\ (t.closed = 0 \/ t.opened < t.closed) /\ t.closed <= readingNow + 1
<1>4. \A t \in trips : t \in Trip /\ t.opened \in Nat /\ t.opened <= readingNow /\ Apart(t)
  <2>1. \A t \in trips : t \in Trip /\ t.opened \in Nat /\ t.closed \in Nat
    BY DEF ReadingInv, TripsAreDated, Trip
  <2> QED BY <2>1, <1>1 DEF ReadingInv, TripsAreDated
<1>5. /\ trips' \subseteq Trip /\ \A t \in trips' : Apart(t)
  <2>1. CASE Entered
    <3>1. PICK o \in Followed, hold \in BOOLEAN :
             trips' = trips \cup {[ref |-> o, hold |-> hold, opened |-> readingNow', closed |-> 0, poll |-> Len(pollLog)]}
      BY <2>1 DEF Entered
    <3> DEFINE t == [ref |-> o, hold |-> hold, opened |-> readingNow', closed |-> 0, poll |-> Len(pollLog)]
    <3>2. pollLog # <<>> /\ pollLog[Len(pollLog)].series # {}
      BY <2>1 DEF Entered
    <3>3. Len(pollLog) \in DOMAIN pollLog /\ Len(pollLog) \in Nat
      BY <3>2, <1>2
    <3>4. t \in Trip
      BY <3>3, <1>1 DEF Trip
    <3>5. Apart(t)
      BY <3>2, <3>3, <1>1, <1>2 DEF DecidedOn
    <3> HIDE DEF t, Apart
    <3> QED BY <3>1, <3>4, <3>5, <1>4 DEF t
  <2>2. CASE Left
    <3>1. PICK t \in Running : trips' = (trips \ {t}) \cup {[t EXCEPT !.closed = readingNow']}
      BY <2>2 DEF Left
    <3> DEFINE u == [t EXCEPT !.closed = readingNow']
    <3>2. t \in trips /\ t \in Trip /\ t.opened <= readingNow /\ Apart(t) /\ t.opened \in Nat
      BY <3>1, <1>4 DEF Running
    <3>3. u \in Trip /\ u.opened = t.opened /\ u.poll = t.poll /\ u.closed = readingNow + 1
      BY <3>2, <1>1 DEF Trip
    <3>4. Apart(u)
      <4> HIDE DEF u
      <4> QED BY <3>2, <3>3, <1>1 DEF DecidedOn
    <3> HIDE DEF u, Apart
    <3> QED BY <3>1, <3>3, <3>4, <1>4 DEF u
  <2> QED BY <2>1, <2>2
<1>6. TripsAreDated'
  BY <1>1, <1>5 DEF TripsAreDated
<1> QED BY <1>1, <1>3, <1>6 DEF ReadingInv, EventsAreCounted

LEMMA BootedKeepsInv == ASSUME ReadingInv, BootedAnew PROVE ReadingInv'
<1>1. /\ readingNow \in Nat /\ readingNow' = readingNow + 1 /\ configEvents' = configEvents \cup {readingNow'}
      /\ pollLog' = pollLog /\ trips' = trips
  BY DEF ReadingInv, LogInOrder, BootedAnew, Passes
<1>2. \A i \in DOMAIN pollLog : pollLog[i].at \in Nat
  BY PollsAreTimed
<1>3. \A t \in trips : t.opened \in Nat /\ t.closed \in Nat
  BY DEF ReadingInv, TripsAreDated, Trip
<1>4. LogInOrder'
  BY <1>1, <1>2 DEF ReadingInv, LogInOrder
<1>5. TripsAreDated'
  BY <1>1, <1>3 DEF ReadingInv, TripsAreDated
<1>6. EventsAreCounted'
  <2>1. IsFiniteSet(configEvents \cup {readingNow'})
    BY FS_AddElement DEF ReadingInv, EventsAreCounted
  <2> QED BY <2>1, <1>1 DEF ReadingInv, EventsAreCounted
<1> QED BY <1>4, <1>5, <1>6 DEF ReadingInv

LEMMA ReadingInvHolds == ReadingSpec => []ReadingInv
<1>1. ReadingInit => ReadingInv
  <2> SUFFICES ASSUME ReadingInit PROVE ReadingInv
    OBVIOUS
  <2>1. IsFiniteSet(configEvents)
    BY FS_EmptySet DEF ReadingInit
  <2> QED BY <2>1 DEF ReadingInit, ReadingInv, LogInOrder, TripsAreDated, EventsAreCounted
<1>2. ReadingInv /\ [ReadingNext]_readingVars => ReadingInv'
  <2> SUFFICES ASSUME ReadingInv, [ReadingNext]_readingVars PROVE ReadingInv'
    OBVIOUS
  <2>1. CASE UNCHANGED readingVars
    BY <2>1 DEF readingVars, ReadingInv, LogInOrder, TripsAreDated, EventsAreCounted
  <2> QED BY <2>1, RecordedKeepsInv, TripsKeepInv, BootedKeepsInv DEF ReadingNext
<1> QED BY <1>1, <1>2, PTL DEF ReadingSpec

(* From one poll of a window without a break to a later one the words and  *)
(* the lengths are the same and the keys only grow: the two polls nearest  *)
(* each other between which they do not would be in turn.                  *)
LEMMA OneFeedAlong ==
  ASSUME NEW from, NEW to, ReadingInv, BreakingSpan(from, to) = {},
         NEW i \in HeldIn(from, to), NEW j \in HeldIn(from, to), i < j
  PROVE  Seen(i).keys \subseteq Seen(j).keys /\ Seen(i).words = Seen(j).words /\ Seen(i).parts = Seen(j).parts
<1> DEFINE H == HeldIn(from, to)
           Same(a, b) == Seen(a).keys \subseteq Seen(b).keys /\ Seen(a).words = Seen(b).words /\ Seen(a).parts = Seen(b).parts
           Bad == {n \in Nat : \E a, b \in H : a < b /\ n = b - a /\ ~Same(a, b)}
<1>1. H \subseteq Nat
  BY DEF HeldIn, ReadingInv, LogInOrder
<1>2. SUFFICES ASSUME ~Same(i, j) PROVE FALSE
  OBVIOUS
<1>3. j - i \in Bad
  BY <1>1, <1>2
<1>4. PICK n \in Bad : \A m \in Bad : n <= m
  <2> HIDE DEF Bad
  <2>1. Bad \in SUBSET Nat
    BY DEF Bad
  <2> QED BY <2>1, <1>3, LeastNatural
<1>5. PICK a \in H, b \in H : a < b /\ n = b - a /\ ~Same(a, b)
  BY <1>4
<1>6. CASE \E k \in H : a < k /\ k < b
  <2>1. PICK k \in H : a < k /\ k < b
    BY <1>6
  <2>2. a \in Nat /\ b \in Nat /\ k \in Nat
    BY <1>1
  <2>3. k - a \in Nat /\ k - a < n /\ b - k \in Nat /\ b - k < n
    BY <1>5, <2>1, <2>2
  <2>4. Same(a, k)
    <3>1. k - a \notin Bad
      <4>1. n \in Nat
        BY <1>4
      <4> HIDE DEF Bad
      <4> QED BY <2>3, <1>4, <4>1
    <3> QED BY <3>1, <2>1, <2>3
  <2>5. Same(k, b)
    <3>1. b - k \notin Bad
      <4>1. n \in Nat
        BY <1>4
      <4> HIDE DEF Bad
      <4> QED BY <2>3, <1>4, <4>1
    <3> QED BY <3>1, <2>1, <2>3
  <2> QED BY <2>4, <2>5, <1>5
<1>7. CASE ~\E k \in H : a < k /\ k < b
  <2>1. Seen(a) # Seen(b)
    BY <1>5
  <2>2. DiffContract(Seen(a), Seen(b)) \in ChangesAlong(H)
    <3> DEFINE inTurn == {p \in H \X H : p[1] < p[2] /\ ~\E k \in H : p[1] < k /\ k < p[2]}
    <3>1. <<a, b>> \in {q \in inTurn : Seen(q[1]) # Seen(q[2])}
      BY <1>5, <1>7, <2>1
    <3>2. ChangesAlong(H) = {DiffContract(Seen(p[1]), Seen(p[2])) : p \in {q \in inTurn : Seen(q[1]) # Seen(q[2])}}
      BY DEF ChangesAlong
    <3>3. DiffContract(Seen(<<a, b>>[1]), Seen(<<a, b>>[2])) = DiffContract(Seen(a), Seen(b))
      OBVIOUS
    <3> HIDE DEF inTurn
    <3> QED BY <3>1, <3>2, <3>3
  <2>3. Additive(DiffContract(Seen(a), Seen(b)))
    BY <2>2 DEF BreakingSpan
  <2>4. \A f \in {"words", "parts"} : Seen(b)[f] \ Seen(a)[f] = {} /\ Seen(a)[f] \ Seen(b)[f] = {}
    <3> SUFFICES ASSUME NEW f \in {"words", "parts"} PROVE Seen(b)[f] \ Seen(a)[f] = {} /\ Seen(a)[f] \ Seen(b)[f] = {}
      OBVIOUS
    <3>1. <<f, "+">> \notin {<<"keys", "+">>} /\ <<f, "-">> \notin {<<"keys", "+">>} /\ f \in Fields
      BY DEF Fields
    <3>2. <<f, "+">> \notin DiffContract(Seen(a), Seen(b)) /\ <<f, "-">> \notin DiffContract(Seen(a), Seen(b))
      BY <3>1, <2>3 DEF Additive
    <3> QED BY <3>1, <3>2 DEF DiffContract
  <2>5. Seen(a)["keys"] \ Seen(b)["keys"] = {}
    <3>1. <<"keys", "-">> \notin {<<"keys", "+">>} /\ "keys" \in Fields
      BY DEF Fields
    <3>2. <<"keys", "-">> \notin DiffContract(Seen(a), Seen(b))
      BY <3>1, <2>3 DEF Additive
    <3> QED BY <3>1, <3>2 DEF DiffContract
  <2>6. \A f \in Fields, k \in {a, b} : Seen(k)[f] = UNION {s[f] : s \in pollLog[k].series}
    BY DEF Seen, ContractOf
  <2> QED BY <2>4, <2>5, <1>5
<1> QED BY <1>6, <1>7

(* Whatever is published, traded and changed at whatever instants: no     *)
(* event of a block that is scored was decided on a feed that had broken   *)
(* with one its window holds, and no two of them were opened with two      *)
(* changes of the configuration between them.                              *)
THEOREM ReadingsAreOfOneFeed == ReadingSpec => []ReadingIsOneFeed
<1>1. ReadingInv => ReadingIsOneFeed
  <2>1. /\ Decision \in {"too small", "scored"}
           => HeadBlock # {} /\ BreakingSpan(WindowFrom, WindowTo) = {} /\ Scoreable(ConfigsInside)
    BY DEF Decision
  <2> SUFFICES ASSUME ReadingInv,
                      HeadBlock # {}, BreakingSpan(WindowFrom, WindowTo) = {}, Scoreable(ConfigsInside)
               PROVE  BlockIsOneFeed
    BY <2>1 DEF ReadingIsOneFeed
  <2>2. HeadBlock \subseteq {t \in trips : t.closed # 0}
    BY DEF HeadBlock, FirstTrips, Running
  <2>3. /\ HeadBlock \subseteq Trip
        /\ \A t \in HeadBlock : DecidedOn(t, pollLog) /\ t.opened < t.closed /\ t.closed <= readingNow
    BY <2>2 DEF ReadingInv, TripsAreDated
  <2>4. \A t \in HeadBlock : t.opened \in Nat /\ t.closed \in Nat
    BY <2>3 DEF Trip
  <2>5. readingNow \in Nat
    BY PollsAreTimed
  <2>6. \A t \in HeadBlock : WindowFrom <= t.opened /\ WindowFrom \in Nat
    <3> DEFINE O == {t.opened : t \in HeadBlock}
    <3>1. O \in SUBSET Nat /\ O # {}
      BY <2>4
    <3>2. Min(O) \in O /\ \A y \in O : Min(O) <= y
      <4> HIDE DEF O
      <4> QED BY <3>1, MinOfNaturals
    <3> QED BY <3>1, <3>2 DEF WindowFrom
  <2>7. \A t \in HeadBlock : t.closed <= WindowTo /\ WindowTo \in Nat
    <3> DEFINE C == {t.closed : t \in HeadBlock}
    <3>1. C \in SUBSET Int /\ C \subseteq Nat /\ C # {} /\ \A y \in C : y <= readingNow
      BY <2>3, <2>4, <2>5
    <3>2. Max(C) \in C /\ \A y \in C : Max(C) >= y
      <4>1. readingNow \in Int
        BY <2>5
      <4> HIDE DEF C
      <4> QED BY <3>1, <4>1, MaxOfBounded
    <3>3. \A t \in HeadBlock : Max(C) >= t.closed /\ Max(C) \in Nat
      BY <3>1, <3>2
    <3> QED BY <3>3, <2>4 DEF WindowTo
  <2>8. ASSUME NEW t \in HeadBlock, NEW i \in DOMAIN pollLog,
               WindowFrom <= pollLog[i].at, i < t.poll, pollLog[i].series # {}
        PROVE  Seen(i).keys \subseteq Seen(t.poll).keys /\ Seen(i).words = Seen(t.poll).words
               /\ Seen(i).parts = Seen(t.poll).parts
    <3>1. /\ t.poll \in DOMAIN pollLog /\ pollLog[t.poll].series # {} /\ pollLog[t.poll].at < t.opened
          /\ t.opened < t.closed /\ t.closed <= WindowTo /\ WindowTo \in Nat /\ WindowFrom \in Nat
          /\ t.opened \in Nat /\ t.closed \in Nat
      BY <2>3, <2>4, <2>6, <2>7 DEF DecidedOn
    <3>2. pollLog[i].at \in Nat /\ pollLog[t.poll].at \in Nat /\ pollLog[i].at < pollLog[t.poll].at
      BY <2>8, <3>1, PollsAreTimed DEF ReadingInv, LogInOrder
    <3>3. i \in HeldIn(WindowFrom, WindowTo) /\ t.poll \in HeldIn(WindowFrom, WindowTo)
      BY <2>8, <3>1, <3>2 DEF HeldIn
    <3> QED BY <2>8, <3>3, OneFeedAlong
  <2>9. ASSUME NEW t \in HeadBlock, NEW u \in HeadBlock
        PROVE  Cardinality({c \in configEvents : t.opened <= c /\ c <= u.opened}) <= 1
    <3> DEFINE B == {c \in configEvents : t.opened <= c /\ c <= u.opened}
    <3>1. IsFiniteSet(ConfigsInside) /\ configEvents \subseteq Nat
      BY FS_Subset DEF ConfigsInside, ReadingInv, EventsAreCounted
    <3>2. /\ WindowFrom <= t.opened /\ u.opened < u.closed /\ u.closed <= WindowTo /\ WindowFrom \in Nat
          /\ WindowTo \in Nat /\ t.opened \in Nat /\ u.opened \in Nat /\ u.closed \in Nat
      BY <2>3, <2>4, <2>6, <2>7
    <3>3. B \subseteq ConfigsInside
      <4> SUFFICES ASSUME NEW c \in B PROVE c \in ConfigsInside
        OBVIOUS
      <4>1. c \in configEvents /\ c \in Nat /\ t.opened <= c /\ c <= u.opened
        BY <3>1
      <4>2. WindowFrom <= c /\ c <= WindowTo
        BY <3>2, <4>1
      <4> QED BY <4>1, <4>2 DEF ConfigsInside
    <3>4. /\ Cardinality(B) \in Nat /\ Cardinality(ConfigsInside) \in Nat
          /\ Cardinality(B) <= Cardinality(ConfigsInside)
      <4> HIDE DEF B
      <4>1. IsFiniteSet(B)
        BY <3>1, <3>3, FS_Subset
      <4> QED BY <3>1, <3>3, <4>1, FS_Subset, FS_CardinalityType
    <3>5. Cardinality(ConfigsInside) <= 1
      BY DEF Scoreable
    <3> HIDE DEF B
    <3>6. Cardinality(B) <= 1
      BY <3>4, <3>5
    <3> QED BY <3>6 DEF B
  <2> QED BY <2>8, <2>9 DEF BlockIsOneFeed
<1> QED BY <1>1, ReadingInvHolds, PTL

-----------------------------------------------------------------------------
(* The budget.  The arithmetic first: sums of stakes to the cent, a count  *)
(* that lets in no more than the mandate, and the distance that clamp,     *)
(* rounding, slippage and the leverages an owner may choose leave between  *)
(* a stop and a liquidation.                                               *)
LEMMA ProductsGrow ==
  ASSUME NEW a \in Int, NEW b \in Int, a <= b, NEW k \in Nat
  PROVE  a * k <= b * k
<1>1. (b - a) * k >= 0
  OBVIOUS
<1>2. (b - a) * k = b * k - a * k
  OBVIOUS
<1> QED BY <1>1, <1>2

LEMMA CentsGrow ==
  ASSUME NEW a \in Int, NEW b \in Int, a <= b
  PROVE  Cents(a) <= Cents(b)
BY DEF Cents, Cent

LEMMA CentsApart ==
  ASSUME NEW a \in Int, NEW b \in Int, Cents(a) <= Cents(b)
  PROVE  a < b + Cent
BY DEF Cents, Cent

LEMMA StakesAreNumbers ==
  ASSUME mandate \in Nat, choice \in Offered
  PROVE  /\ PerSignalBudget \in Nat /\ TradeableBudget \in Nat /\ ReserveFor \in Nat
         /\ TradeableBudget + ReserveFor = mandate * Cent
<1>1. choice.pct \in 1..100
  BY BudgetAssumption
<1> DEFINE p == choice.pct
<1>2. PerSignalBudget = 99 * mandate * p
  BY DEF PerSignalBudget
<1> HIDE DEF p
<1>3. 99 * mandate * p \in Nat
  BY <1>1 DEF p
<1> QED BY <1>2, <1>3 DEF TradeableBudget, ReserveFor, Cent

LEMMA QuotientFits ==
  ASSUME NEW p \in 1..100, NEW n \in Nat, n < 100 \div p
  PROVE  (n + 1) * p <= 100
<1> DEFINE q == 100 \div p
<1>1. q \in Nat /\ q * p <= 100
  OBVIOUS
<1> HIDE DEF q
<1>2. n < q
  BY DEF q
<1>3. (n + 1) * p <= q * p
  BY <1>1, <1>2, ProductsGrow
<1>4. (n + 1) * p \in Int /\ q * p \in Int
  BY <1>1
<1> QED BY <1>1, <1>3, <1>4

(* A book of rows of the present size fits while the count lets it.        *)
LEMMA TheCountFits ==
  ASSUME mandate \in Nat, choice \in Offered, NEW n \in Nat, n < MaxConcurrent
  PROVE  n * PerSignalBudget + PerSignalBudget <= TradeableBudget
<1> DEFINE p == choice.pct
           m == mandate
           M == 99 * m
<1>1. p \in 1..100 /\ n < 100 \div p
  BY BudgetAssumption DEF MaxConcurrent
<1>2. PerSignalBudget = M * p /\ TradeableBudget = 100 * M /\ M \in Nat
  BY DEF PerSignalBudget, TradeableBudget
<1> HIDE DEF p, M
<1>3. (n + 1) * p <= 100 /\ (n + 1) * p \in Nat
  BY <1>1, QuotientFits
<1>4. ((n + 1) * p) * M <= 100 * M
  BY <1>2, <1>3, ProductsGrow
<1>5. ((n + 1) * p) * M = n * (M * p) + M * p
  BY <1>1, <1>2
<1> QED BY <1>2, <1>4, <1>5

(* The arithmetic of a stop: at the venue's distance n / m of an entry, a  *)
(* row's stop s within seven tenths of it of the price r it was planned    *)
(* at, and a fill a within three thousandths.                              *)
LEMMA LongStopHolds ==
  ASSUME NEW n \in Nat \ {0}, NEW m \in Nat, n <= m, m <= 40 * n, NEW r \in Nat, NEW a \in Nat \ {0}, NEW s \in Int,
         ~(7 * n * r < (r - s) * (10 * m)), ~(3 * a < (a - r) * 1000)
  PROVE  (a - s) * m < n * a
<1> DEFINE na == n * a
           ma == m * a
           nr == n * r
           mr == m * r
           ms == m * s
<1>1. na \in Int /\ ma \in Int /\ nr \in Int /\ mr \in Int /\ ms \in Int
  OBVIOUS
<1>2. na > 0
  OBVIOUS
<1>3. 10 * mr - 10 * ms <= 7 * nr
  <2>1. (r - s) * (10 * m) = 10 * mr - 10 * ms /\ 7 * n * r = 7 * nr
    OBVIOUS
  <2> HIDE DEF na, ma, nr, mr, ms
  <2> QED BY <1>1, <2>1
<1>4. 997 * a <= 1000 * r
  OBVIOUS
<1>5. 10 * m - 7 * n \in Nat
  OBVIOUS
<1>6. (997 * a) * (10 * m - 7 * n) <= (1000 * r) * (10 * m - 7 * n)
  <2> HIDE DEF na, ma, nr, mr, ms
  <2>1. 997 * a \in Int /\ 1000 * r \in Int
    OBVIOUS
  <2> QED BY <1>4, <1>5, <2>1, ProductsGrow
<1>7. /\ (997 * a) * (10 * m - 7 * n) = 9970 * ma - 6979 * na
      /\ (1000 * r) * (10 * m - 7 * n) = 10000 * mr - 7000 * nr
  OBVIOUS
<1>8. m * a <= (40 * n) * a
  BY ProductsGrow
<1>9. (40 * n) * a = 40 * na
  OBVIOUS
<1>10. (a - s) * m = ma - ms
  OBVIOUS
<1> HIDE DEF na, ma, nr, mr, ms
<1>11. ma <= 40 * na
  BY <1>8, <1>9 DEF ma
<1>12. ma - ms < na
  BY <1>1, <1>2, <1>3, <1>6, <1>7, <1>11
<1> QED BY <1>10, <1>12 DEF na

LEMMA ShortStopHolds ==
  ASSUME NEW n \in Nat \ {0}, NEW m \in Nat, n <= m, m <= 40 * n, NEW r \in Nat, NEW a \in Nat \ {0}, NEW s \in Int,
         ~(7 * n * r < (s - r) * (10 * m)), ~(3 * a < (r - a) * 1000)
  PROVE  (s - a) * m < n * a
<1> DEFINE na == n * a
           ma == m * a
           nr == n * r
           mr == m * r
           ms == m * s
<1>1. na \in Int /\ ma \in Int /\ nr \in Int /\ mr \in Int /\ ms \in Int
  OBVIOUS
<1>2. na > 0
  OBVIOUS
<1>3. 10 * ms - 10 * mr <= 7 * nr
  <2>1. (s - r) * (10 * m) = 10 * ms - 10 * mr /\ 7 * n * r = 7 * nr
    OBVIOUS
  <2> HIDE DEF na, ma, nr, mr, ms
  <2> QED BY <1>1, <2>1
<1>4. 1000 * r <= 1003 * a
  OBVIOUS
<1>5. 10 * m + 7 * n \in Nat
  OBVIOUS
<1>6. (1000 * r) * (10 * m + 7 * n) <= (1003 * a) * (10 * m + 7 * n)
  <2> HIDE DEF na, ma, nr, mr, ms
  <2>1. 1003 * a \in Int /\ 1000 * r \in Int
    OBVIOUS
  <2> QED BY <1>4, <1>5, <2>1, ProductsGrow
<1>7. /\ (1003 * a) * (10 * m + 7 * n) = 10030 * ma + 7021 * na
      /\ (1000 * r) * (10 * m + 7 * n) = 10000 * mr + 7000 * nr
  OBVIOUS
<1>8. m * a <= (40 * n) * a
  BY ProductsGrow
<1>9. (40 * n) * a = 40 * na
  OBVIOUS
<1>10. (s - a) * m = ms - ma
  OBVIOUS
<1> HIDE DEF na, ma, nr, mr, ms
<1>11. ma <= 40 * na
  BY <1>8, <1>9 DEF ma
<1>12. ms - ma < na
  BY <1>1, <1>2, <1>3, <1>6, <1>7, <1>11
<1> QED BY <1>10, <1>12 DEF na

(* What the rows of some coins stake, and the coins that have a row.       *)
Stakes(r, S) == MapThenSumSet(LAMBDA c : r[c].margin, S)
Rows(r) == {c \in Listed : r[c].status # "none"}
Book(r) == Total([c \in Listed |-> r[c].margin], Listed)

LEMMA StakesAreTotal ==
  ASSUME NEW r, NEW S, IsFiniteSet(S)
  PROVE  Stakes(r, S) = Total([c \in S |-> r[c].margin], S)
<1> DEFINE w == [c \in S |-> r[c].margin]
           g(f, s) == IF s = {} THEN 0 ELSE r[CHOOSE x \in s : TRUE].margin + f[s \ {CHOOSE x \in s : TRUE}]
           Iter(f) == f = [s \in SUBSET S |-> g(f, s)]
           i == CHOOSE f : Iter(f)
<1>1. ASSUME NEW f, NEW s \in SUBSET S PROVE Adding(f, w, s) = g(f, s)
  <2>1. CASE s = {}
    BY <2>1 DEF Adding
  <2>2. CASE s # {}
    <3>1. (CHOOSE x \in s : TRUE) \in S
      BY <2>2
    <3> QED BY <2>2, <3>1 DEF Adding, AnyOf
  <2> QED BY <2>1, <2>2
<1>2. \A f : SumsUp(f, w, S) <=> Iter(f)
  <2> HIDE DEF g, w
  <2> QED BY <1>1 DEF SumsUp
<1>3. PICK h : SumsUp(h, w, S)
  BY SumsExist
<1>4. Iter(i)
  <2>1. Iter(h)
    BY <1>2, <1>3
  <2> HIDE DEF Iter
  <2> QED BY <2>1
<1>5. Total(w, S) = i[S]
  <2>1. SumsUp(i, w, S)
    BY <1>2, <1>4
  <2> HIDE DEF w, i
  <2> QED BY <2>1, TotalIs
<1>6. Stakes(r, S) = (CHOOSE f : f = [s \in SUBSET S |-> IF s = {} THEN 0 ELSE r[CHOOSE x \in s : TRUE].margin + f[s \ {CHOOSE x \in s : TRUE}]])[S]
  BY DEF Stakes, MapThenSumSet, MapThenFoldSet
<1> QED BY <1>5, <1>6

LEMMA HeldIsTotal ==
  ASSUME NEW h, NEW S, IsFiniteSet(S)
  PROVE  MapThenSumSet(LAMBDA c : h[c].posted, S) = Total([c \in S |-> h[c].posted], S)
<1> DEFINE w == [c \in S |-> h[c].posted]
           g(f, s) == IF s = {} THEN 0 ELSE h[CHOOSE x \in s : TRUE].posted + f[s \ {CHOOSE x \in s : TRUE}]
           Iter(f) == f = [s \in SUBSET S |-> g(f, s)]
           i == CHOOSE f : Iter(f)
<1>1. ASSUME NEW f, NEW s \in SUBSET S PROVE Adding(f, w, s) = g(f, s)
  <2>1. CASE s = {}
    BY <2>1 DEF Adding
  <2>2. CASE s # {}
    <3>1. (CHOOSE x \in s : TRUE) \in S
      BY <2>2
    <3> QED BY <2>2, <3>1 DEF Adding, AnyOf
  <2> QED BY <2>1, <2>2
<1>2. \A f : SumsUp(f, w, S) <=> Iter(f)
  <2> HIDE DEF g, w
  <2> QED BY <1>1 DEF SumsUp
<1>3. PICK k : SumsUp(k, w, S)
  BY SumsExist
<1>4. Iter(i)
  <2>1. Iter(k)
    BY <1>2, <1>3
  <2> HIDE DEF Iter
  <2> QED BY <2>1
<1>5. Total(w, S) = i[S]
  <2>1. SumsUp(i, w, S)
    BY <1>2, <1>4
  <2> HIDE DEF w, i
  <2> QED BY <2>1, TotalIs
<1>6. MapThenSumSet(LAMBDA c : h[c].posted, S) = (CHOOSE f : f = [s \in SUBSET S |-> IF s = {} THEN 0 ELSE h[CHOOSE x \in s : TRUE].posted + f[s \ {CHOOSE x \in s : TRUE}]])[S]
  BY DEF MapThenSumSet, MapThenFoldSet
<1> QED BY <1>5, <1>6

(* Rows that stake nothing when there is none.                             *)
RowsFit(r) == \A c \in Listed : r[c].margin \in Nat /\ (r[c].status = "none" => r[c].margin = 0)

LEMMA StakesOfRows ==
  ASSUME NEW r, RowsFit(r)
  PROVE  /\ IsFiniteSet(Rows(r)) /\ Cardinality(Rows(r)) \in Nat
         /\ Stakes(r, Rows(r)) = Book(r) /\ Book(r) \in Nat
<1> DEFINE L == Rows(r)
           w == [c \in Listed |-> r[c].margin]
           v == [c \in L |-> r[c].margin]
<1>1. IsFiniteSet(L) /\ IsFiniteSet(Listed \ L) /\ Cardinality(L) \in Nat
  BY BudgetAssumption, FS_Subset, FS_CardinalityType DEF Rows
<1>2. Stakes(r, L) = Total(v, L)
  BY <1>1, StakesAreTotal
<1>3. Total(v, L) = Total(w, L)
  <2>1. \A c \in L : v[c] = w[c]
    BY DEF Rows
  <2> HIDE DEF v, w, L
  <2> QED BY <1>1, <2>1, TotalOfSame
<1>4. Total(w, Listed \ L) = 0
  <2>1. \A c \in Listed \ L : w[c] = 0
    BY DEF Rows, RowsFit
  <2> HIDE DEF w, L
  <2>2. Total(w, Listed \ L) = Cardinality(Listed \ L) * 0
    BY <1>1, <2>1, TotalOfEquals
  <2>3. Cardinality(Listed \ L) \in Nat
    BY <1>1, FS_CardinalityType
  <2> QED BY <2>2, <2>3
<1>5. \A c \in Listed : w[c] \in Nat
  BY DEF RowsFit
<1>6. Listed = L \cup (Listed \ L)
  BY DEF Rows
<1> HIDE DEF w, L, v
<1>7. Total(w, Listed) \in Nat /\ Total(w, L) \in Int
  BY <1>1, <1>5, <1>6, BudgetAssumption, TotalIsNatural, TotalIsNumber
<1>8. Total(w, L \cup (Listed \ L)) = Total(w, L) + Total(w, Listed \ L)
  BY <1>1, <1>5, <1>6, TotalOfTwo
<1>9. Total(w, Listed) = Total(w, L) + Total(w, Listed \ L)
  BY <1>6, <1>8
<1>10. Total(v, L) = Total(w, Listed)
  BY <1>3, <1>4, <1>7, <1>9
<1>11. Stakes(r, L) = Total(w, Listed) /\ Total(w, Listed) \in Nat
  BY <1>2, <1>7, <1>10
<1> QED BY <1>1, <1>11 DEF Book, w, L

(* One row more, or rows fewer.                                            *)
LEMMA BookWithOneMore ==
  ASSUME NEW r, RowsFit(r), NEW c \in Listed, c \notin Rows(r), NEW q, RowsFit(q),
         \A d \in Listed \ {c} : q[d].margin = r[d].margin
  PROVE  Book(q) = Book(r) + q[c].margin
<1> DEFINE w == [d \in Listed |-> r[d].margin]
           v == [d \in Listed |-> q[d].margin]
<1>1. (\A d \in Listed : w[d] \in Int) /\ \A d \in Listed : v[d] \in Int
  BY DEF RowsFit
<1>2. w[c] = 0 /\ v[c] = q[c].margin
  BY DEF RowsFit, Rows
<1>3. \A d \in Listed \ {c} : w[d] = v[d]
  OBVIOUS
<1> HIDE DEF w, v
<1>4. IsFiniteSet(Listed) /\ IsFiniteSet(Listed \ {c})
  BY BudgetAssumption, FS_Subset
<1>5. Total(w, Listed) = Total(w, Listed \ {c}) + w[c]
  BY <1>1, <1>4, TotalWithout
<1>6. Total(v, Listed) = Total(v, Listed \ {c}) + v[c]
  BY <1>1, <1>4, TotalWithout
<1>7. Total(w, Listed \ {c}) = Total(v, Listed \ {c})
  BY <1>3, <1>4, TotalOfSame
<1>8. Total(w, Listed \ {c}) \in Int
  BY <1>1, <1>4, TotalIsNumber
<1> QED BY <1>1, <1>2, <1>5, <1>6, <1>7, <1>8 DEF Book, w, v

LEMMA BookIsMonotone ==
  ASSUME NEW r, RowsFit(r), NEW q, RowsFit(q), \A c \in Listed : q[c].margin <= r[c].margin
  PROVE  Book(q) <= Book(r)
<1> DEFINE w == [c \in Listed |-> r[c].margin]
           v == [c \in Listed |-> q[c].margin]
<1>1. \A c \in Listed : v[c] \in Int /\ w[c] \in Int /\ v[c] <= w[c]
  BY DEF RowsFit
<1> HIDE DEF w, v
<1>2. Total(v, Listed) <= Total(w, Listed)
  BY <1>1, BudgetAssumption, TotalIsMonotone
<1> QED BY <1>2 DEF Book, w, v

LEMMA BookOfEquals ==
  ASSUME NEW r, RowsFit(r), NEW k \in Nat, \A c \in Rows(r) : r[c].margin = k
  PROVE  Book(r) = Cardinality(Rows(r)) * k
<1> DEFINE L == Rows(r)
           v == [c \in L |-> r[c].margin]
<1>1. IsFiniteSet(L) /\ Stakes(r, L) = Book(r)
  BY StakesOfRows
<1>2. Stakes(r, L) = Total(v, L)
  BY <1>1, StakesAreTotal
<1>3. \A c \in L : v[c] = k
  OBVIOUS
<1> HIDE DEF v, L
<1>4. Total(v, L) = Cardinality(L) * k
  BY <1>1, <1>3, TotalOfEquals
<1> QED BY <1>1, <1>2, <1>4 DEF L

LEMMA PostedIsStaked ==
  ASSUME NEW r, RowsFit(r), NEW h, \A c \in Listed : h[c].posted \in Int /\ h[c].posted <= r[c].margin
  PROVE  Total([c \in Listed |-> h[c].posted], Listed) <= Book(r)
<1> DEFINE w == [c \in Listed |-> r[c].margin]
           v == [c \in Listed |-> h[c].posted]
<1>1. \A c \in Listed : v[c] \in Int /\ w[c] \in Int /\ v[c] <= w[c]
  BY DEF RowsFit
<1> HIDE DEF w, v
<1>2. Total(v, Listed) <= Total(w, Listed)
  BY <1>1, BudgetAssumption, TotalIsMonotone
<1> QED BY <1>2 DEF Book, v, w

(* What the desk and the venue hold of an account between any two awaits.  *)
Turns ==
  [at : {"idle", "consider", "insert", "place"}, calls : SUBSET Listed, deployed : Int, count : Int, free : Int,
   coin : Listed \cup {NobodysCoin}, whole : BOOLEAN,
   veto : {"none", "already-open", "max-concurrent", "no-budget", "insufficient-collateral"}]
Intents == [status : {"none", "pending", "open"}, margin : Nat, leverage : Nat, ref : Nat, stop : Int]
Positions == [posted : Int, at : Nat]

BudgetTypeOK ==
  /\ mandate \in Nat /\ choice \in Offered /\ cash \in Int /\ mark \in Marks
  /\ row \in [Listed -> Intents] /\ held \in [Listed -> Positions]
  /\ isolated \in [Listed -> Nat \ {0}] /\ believed \in [Listed -> Nat] /\ byHand \subseteq Listed
  /\ turn \in Turns

(* A row is there or is nothing at all.                                    *)
RowsAreWhole == \A c \in Listed : row[c].status # "none" \/ row[c] = NoIntent

(* The stop of a row is inside the buffer of the leverage it is written    *)
(* at, which the venue still has unless the owner set another.             *)
LeavesRoom(c, leverage, ref, stop) ==
  /\ leverage \in 1..20 /\ leverage <= CapOf[c] /\ ref \in Nat \ {0} /\ stop \in Int
  /\ ~Under(MaxStop(leverage, CapOf[c]), Distance(c, ref, stop))
RowsLeaveRoom ==
  \A c \in Listed : row[c].status # "none" =>
    /\ LeavesRoom(c, row[c].leverage, row[c].ref, row[c].stop)
    /\ c \notin byHand => isolated[c] = row[c].leverage
DeskKnows == \A c \in Listed : c \notin byHand => believed[c] = 0 \/ believed[c] = isolated[c]
FillsHaveAPrice == \A c \in Listed : held[c] = Flat \/ held[c].at # 0

(* What a pass counted of the book is the book, as long as it considers    *)
(* calls; what it found free covers what a mandate that was whole lacks.   *)
PassIsInStep ==
  turn.at \in {"consider", "insert"} =>
    /\ turn.deployed = Book(row) /\ turn.count = Cardinality(Rows(row))
    /\ turn.whole => mandate * Cent <= turn.free + Book(row)
CallInHandFits ==
  turn.at = "insert" =>
    /\ turn.coin \in Listed /\ turn.coin \notin Rows(row) /\ turn.veto = "none"
    /\ Book(row) + PerSignalBudget < TradeableBudget + Cent
    /\ LeavesRoom(turn.coin, Leverage(turn.coin), mark, StopPrice(turn.coin))
    /\ turn.coin \notin byHand => isolated[turn.coin] = Leverage(turn.coin)
EntriesArePending == turn.at = "place" => \A c \in turn.calls : row[c].status = "pending"
BookFits == Book(row) < TradeableBudget + Cent
FullBook ==
  turn.at = "consider" /\ turn.whole /\ (\A c \in Rows(row) : row[c].margin = PerSignalBudget)
    => turn.veto # "no-budget" /\ turn.veto # "insufficient-collateral"

BudgetInv ==
  /\ BudgetTypeOK /\ RowsAreWhole /\ RowsLeaveRoom /\ DeskKnows /\ FillsHaveAPrice
  /\ PassIsInStep /\ CallInHandFits /\ EntriesArePending /\ BookFits /\ FullBook

-----------------------------------------------------------------------------
LEMMA RowsOfAWholeBookFit ==
  ASSUME BudgetTypeOK, RowsAreWhole
  PROVE  RowsFit(row)
BY DEF BudgetTypeOK, RowsAreWhole, RowsFit, NoIntent, Intents

LEMMA LeveragesAreOffered ==
  ASSUME BudgetTypeOK, NEW c \in Listed
  PROVE  Leverage(c) \in 1..20 /\ Leverage(c) <= CapOf[c]
<1> DEFINE a == choice.leverage
           b == CapOf[c]
<1>1. a \in 1..20 /\ b \in Nat \ {0}
  BY BudgetAssumption DEF BudgetTypeOK
<1>2. Leverage(c) = Min({a, b})
  BY DEF Leverage
<1> HIDE DEF a, b
<1>3. \E n \in {a, b} : \A m \in {a, b} : n <= m
  BY <1>1
<1>4. Min({a, b}) \in {a, b} /\ \A m \in {a, b} : Min({a, b}) <= m
  BY <1>3 DEF Min
<1> QED BY <1>1, <1>2, <1>4 DEF b

LEMMA VetoesAre ==
  ASSUME NEW c
  PROVE  Veto(c) \in {"none", "already-open", "max-concurrent", "no-budget", "insufficient-collateral"}
BY DEF Veto

LEMMA StopsAreNumbers ==
  ASSUME BudgetTypeOK, NEW c \in Listed, InsideLiqBuffer(c)
  PROVE  LeavesRoom(c, Leverage(c), mark, StopPrice(c))
<1>1. Leverage(c) \in 1..20 /\ Leverage(c) <= CapOf[c] /\ CapOf[c] \in Nat \ {0}
  BY LeveragesAreOffered, BudgetAssumption
<1>2. mark \in Nat \ {0}
  BY BudgetAssumption DEF BudgetTypeOK
<1>3. StopPrice(c) \in Int
  <2> DEFINE l == Leverage(c)
             k == CapOf[c]
             d == LiqDistance(l, k)
             most == MaxStop(l, k)
             s == ClampedStop(c)
  <2>1. d[1] = 2 * k - l /\ d[2] = 2 * k * l
    BY DEF LiqDistance
  <2>2. most[1] = 7 * d[1] /\ most[2] = 10 * d[2]
    BY DEF MaxStop
  <2>3. l \in Nat \ {0} /\ k \in Nat \ {0}
    BY <1>1
  <2> HIDE DEF l, k, d, most
  <2>4. 2 * k * l \in Nat \ {0} /\ 2 * k - l \in Int
    BY <2>3
  <2>5. most[1] \in Int /\ most[2] \in Nat \ {0}
    BY <2>1, <2>2, <2>4
  <2>6. choice.stop \in Nat
    BY BudgetAssumption DEF BudgetTypeOK
  <2>7. s = <<choice.stop, 1000>> \/ s = most
    BY DEF ClampedStop, most, l, k
  <2>8. s[1] \in Int /\ s[2] \in Nat \ {0}
    BY <2>5, <2>6, <2>7
  <2> HIDE DEF s
  <2> DEFINE u == s[1]
             v == s[2]
  <2>9. u \in Int /\ v \in Nat \ {0}
    BY <2>8
  <2>10. StopPrice(c) = IF SideOf[c] = "long" THEN -((-(mark * (v - u))) \div v) ELSE (mark * (v + u)) \div v
    BY DEF StopPrice, s
  <2> HIDE DEF u, v
  <2>11. -(mark * (v - u)) \in Int /\ mark * (v + u) \in Int
    BY <1>2, <2>9
  <2>12. \A x \in Int : x \div v \in Int
    BY <2>9
  <2> QED BY <2>10, <2>11, <2>12
<1> QED BY <1>1, <1>2, <1>3 DEF LeavesRoom, InsideLiqBuffer

LEMMA BudgetTypeInit == BudgetInit => BudgetTypeOK
<1> SUFFICES ASSUME BudgetInit PROVE BudgetTypeOK
  OBVIOUS
<1>1. NoIntent \in Intents
  BY DEF NoIntent, Intents
<1>2. Flat \in Positions
  BY DEF Flat, Positions
<1>3. Between \in Turns
  BY DEF Between, Turns
<1>4. mandate \in Nat /\ choice \in Offered /\ mark \in Marks
  BY BudgetAssumption DEF BudgetInit
<1>5. cash \in Int
  BY BudgetAssumption DEF BudgetInit, Cent
<1>6. row \in [Listed -> Intents] /\ held \in [Listed -> Positions] /\ byHand \subseteq Listed /\ turn \in Turns
  BY <1>1, <1>2, <1>3 DEF BudgetInit
<1>7. isolated \in [Listed -> Nat \ {0}] /\ believed \in [Listed -> Nat]
  BY BudgetAssumption DEF BudgetInit
<1> QED BY <1>4, <1>5, <1>6, <1>7 DEF BudgetTypeOK

(* What the steps of a pass make of its account.                           *)
LEMMA NextCallIs ==
  ASSUME NEW c \in Listed, NEW veto \in {"none", "already-open", "max-concurrent", "no-budget", "insufficient-collateral"},
         turn \in Turns, NEW u, u = NextCall(c, veto)
  PROVE  /\ u \in Turns /\ u.at = turn.at /\ u.calls \subseteq turn.calls /\ u.deployed = turn.deployed /\ u.count = turn.count
         /\ u.free = turn.free /\ u.coin = turn.coin /\ u.whole = turn.whole /\ u.veto = veto
BY DEF NextCall, Turns

LEMMA CallInHandIs ==
  ASSUME NEW c \in Listed, turn \in Turns, NEW u, u = [NextCall(c, "none") EXCEPT !.at = "insert", !.coin = c]
  PROVE  /\ u \in Turns /\ u.at = "insert" /\ u.deployed = turn.deployed /\ u.count = turn.count
         /\ u.free = turn.free /\ u.coin = c /\ u.whole = turn.whole /\ u.veto = "none"
<1> DEFINE t == NextCall(c, "none")
<1>1. /\ t \in Turns /\ t.at = turn.at /\ t.calls \subseteq turn.calls /\ t.deployed = turn.deployed /\ t.count = turn.count
      /\ t.free = turn.free /\ t.coin = turn.coin /\ t.whole = turn.whole /\ t.veto = "none"
  BY NextCallIs
<1>2. u = [t EXCEPT !.at = "insert", !.coin = c]
  OBVIOUS
<1> HIDE DEF t
<1> QED BY <1>1, <1>2 DEF Turns

LEMMA CountedIs ==
  ASSUME PerSignalBudget \in Nat, turn \in Turns, NEW u, u = [Counted(turn) EXCEPT !.at = "consider", !.coin = NobodysCoin]
  PROVE  /\ u \in Turns /\ u.at = "consider" /\ u.deployed = turn.deployed + PerSignalBudget /\ u.count = turn.count + 1
         /\ u.free = turn.free /\ u.whole = turn.whole /\ u.veto = turn.veto
<1> DEFINE t == Counted(turn)
           p == PerSignalBudget
<1>1. t = [turn EXCEPT !.count = @ + 1, !.deployed = @ + p]
  BY DEF Counted
<1>2. u = [t EXCEPT !.at = "consider", !.coin = NobodysCoin] /\ p \in Nat
  OBVIOUS
<1> HIDE DEF t, p
<1>3. t \in Turns /\ t.deployed = turn.deployed + p /\ t.count = turn.count + 1 /\ t.free = turn.free /\ t.whole = turn.whole /\ t.veto = turn.veto
  <2> DEFINE n == turn.count + 1
             d == turn.deployed + p
  <2>1. n \in Int /\ d \in Int
    BY <1>2 DEF Turns
  <2>2. t = [turn EXCEPT !.count = n, !.deployed = d]
    BY <1>1
  <2> HIDE DEF n, d
  <2>3. t \in Turns /\ t.deployed = d /\ t.count = n /\ t.free = turn.free /\ t.whole = turn.whole /\ t.veto = turn.veto
    BY <2>1, <2>2 DEF Turns
  <2> QED BY <2>3 DEF n, d
<1>4. u \in Turns /\ u.at = "consider" /\ u.deployed = t.deployed /\ u.count = t.count /\ u.free = t.free /\ u.whole = t.whole /\ u.veto = t.veto
  BY <1>2, <1>3 DEF Turns
<1> QED BY <1>3, <1>4 DEF p

LEMMA TurnsOf ==
  ASSUME turn \in Turns, NEW S \in SUBSET Listed, NEW u
  PROVE  /\ u = [turn EXCEPT !.at = "place", !.calls = S] => u \in Turns /\ u.at = "place" /\ u.calls = S
         /\ u = [turn EXCEPT !.calls = S] => u \in Turns /\ u.at = turn.at /\ u.calls = S
BY DEF Turns

LEMMA BetweenIs ==
  Between \in Turns /\ Between.at = "idle"
BY DEF Between, Turns

NewPass(S, d, n, f, w) == [Between EXCEPT !.at = "consider", !.calls = S, !.deployed = d, !.count = n, !.free = f, !.whole = w]
LEMMA PassIs ==
  ASSUME NEW S \in SUBSET Listed, NEW d \in Int, NEW n \in Int, NEW f \in Int, NEW w \in BOOLEAN
  PROVE  /\ NewPass(S, d, n, f, w) \in Turns /\ NewPass(S, d, n, f, w).at = "consider"
         /\ NewPass(S, d, n, f, w).deployed = d /\ NewPass(S, d, n, f, w).count = n
         /\ NewPass(S, d, n, f, w).free = f /\ NewPass(S, d, n, f, w).whole = w /\ NewPass(S, d, n, f, w).veto = "none"
BY DEF NewPass, Between, Turns

(* What holds if a step leaves the rows and all they are measured by.      *)
LEMMA RowsStay ==
  ASSUME UNCHANGED <<row, isolated, byHand, mandate, choice>>
  PROVE  /\ RowsAreWhole => RowsAreWhole'
         /\ RowsLeaveRoom => RowsLeaveRoom'
         /\ BookFits => BookFits'
         /\ Book(row') = Book(row) /\ Rows(row') = Rows(row)
         /\ PerSignalBudget' = PerSignalBudget
BY DEF RowsAreWhole, RowsLeaveRoom, BookFits, TradeableBudget, PerSignalBudget

LEMMA CallStays ==
  ASSUME UNCHANGED <<row, isolated, byHand, mandate, choice, mark, turn>>
  PROVE  /\ PassIsInStep => PassIsInStep'
         /\ CallInHandFits => CallInHandFits'
         /\ EntriesArePending => EntriesArePending'
         /\ FullBook => FullBook'
<1>1. /\ Book(row') = Book(row) /\ Rows(row') = Rows(row) /\ PerSignalBudget' = PerSignalBudget
      /\ TradeableBudget' = TradeableBudget
      /\ Leverage(turn.coin)' = Leverage(turn.coin) /\ StopPrice(turn.coin)' = StopPrice(turn.coin)
  BY DEF PerSignalBudget, TradeableBudget, Leverage, StopPrice, ClampedStop
<1>2. PassIsInStep => PassIsInStep'
  BY DEF PassIsInStep
<1>3. CallInHandFits => CallInHandFits'
  BY <1>1 DEF CallInHandFits
<1>4. FullBook => FullBook'
  BY <1>1 DEF FullBook
<1> QED BY <1>2, <1>3, <1>4 DEF EntriesArePending

(* A pass that is over holds nothing.                                      *)
LEMMA NothingInHand ==
  turn.at = "idle" => PassIsInStep /\ CallInHandFits /\ EntriesArePending /\ FullBook
BY DEF PassIsInStep, CallInHandFits, EntriesArePending, FullBook
LEMMA NothingInHandNow ==
  turn'.at = "idle" => PassIsInStep' /\ CallInHandFits' /\ EntriesArePending' /\ FullBook'
BY DEF PassIsInStep, CallInHandFits, EntriesArePending, FullBook

LEMMA BudgetInvInit == BudgetInit => BudgetInv
<1> SUFFICES ASSUME BudgetInit PROVE BudgetInv
  OBVIOUS
<1>1. BudgetTypeOK
  BY BudgetTypeInit
<1>2. \A c \in Listed : row[c] = NoIntent /\ held[c] = Flat /\ believed[c] = 0
  BY DEF BudgetInit
<1>3. NoIntent.status = "none" /\ NoIntent.margin = 0
  BY DEF NoIntent
<1>4. RowsAreWhole /\ RowsLeaveRoom /\ DeskKnows /\ FillsHaveAPrice
  BY <1>2, <1>3 DEF RowsAreWhole, RowsLeaveRoom, DeskKnows, FillsHaveAPrice
<1>5. PassIsInStep /\ CallInHandFits /\ EntriesArePending /\ FullBook
  BY NothingInHand, BetweenIs DEF BudgetInit
<1>6. BookFits
  <2>1. RowsFit(row) /\ Rows(row) = {}
    BY <1>1, <1>2, <1>3, <1>4, RowsOfAWholeBookFit DEF Rows
  <2>2. Book(row) = Cardinality(Rows(row)) * 0 /\ Cardinality(Rows(row)) \in Nat
    BY <2>1, BookOfEquals, StakesOfRows
  <2>3. Book(row) = 0 /\ TradeableBudget \in Nat
    BY <1>1, <2>2, StakesAreNumbers DEF BudgetTypeOK
  <2> QED BY <2>3 DEF BookFits, Cent
<1> QED BY <1>1, <1>4, <1>5, <1>6 DEF BudgetInv

LEMMA PassBeginsKeeps == ASSUME BudgetInv, PassBegins PROVE BudgetInv'
<1> DEFINE now == mandate * Cent
           P == Posted
           covered == \A c \in Listed : held[c].posted <= row[c].margin
           w == cash >= now /\ covered
           f == Max({0, cash - P})
<1>1. RowsFit(row) /\ Deployed = Book(row) /\ Live = Rows(row) /\ Book(row) \in Nat /\ Cardinality(Rows(row)) \in Nat
  <2>1. RowsFit(row)
    BY RowsOfAWholeBookFit DEF BudgetInv
  <2>2. Live = Rows(row) /\ Margins(Live) = Stakes(row, Live)
    BY DEF Live, Rows, Margins, Stakes
  <2> QED BY <2>1, <2>2, StakesOfRows DEF Deployed
<1>2. \A c \in Listed : held[c].posted \in Int
  BY DEF BudgetInv, BudgetTypeOK, Positions
<1>3. P \in Int
  <2>1. P = Total([c \in Listed |-> held[c].posted], Listed)
    BY BudgetAssumption, HeldIsTotal DEF Posted
  <2> DEFINE v == [c \in Listed |-> held[c].posted]
  <2>2. \A c \in Listed : v[c] \in Int
    BY <1>2
  <2> HIDE DEF v, P
  <2>3. Total(v, Listed) \in Int
    BY <2>2, BudgetAssumption, TotalIsNumber
  <2> QED BY <2>1, <2>3 DEF v
<1>4. covered => P <= Book(row)
  <2> SUFFICES ASSUME covered PROVE P <= Book(row)
    OBVIOUS
  <2>1. \A c \in Listed : held[c].posted \in Int /\ held[c].posted <= row[c].margin
    BY <1>2
  <2>2. P = Total([c \in Listed |-> held[c].posted], Listed)
    BY BudgetAssumption, HeldIsTotal DEF Posted
  <2> HIDE DEF covered, P
  <2>3. Total([c \in Listed |-> held[c].posted], Listed) <= Book(row)
    BY <1>1, <2>1, PostedIsStaked
  <2> QED BY <2>2, <2>3
<1>5. cash \in Int /\ now \in Int
  BY DEF BudgetInv, BudgetTypeOK, Cent
<1>6. f \in Int /\ cash - P <= f
  <2> DEFINE x == cash - P
  <2>1. x \in Int
    BY <1>3, <1>5
  <2> HIDE DEF x
  <2>2. Max({0, x}) \in {0, x} /\ x <= Max({0, x})
    BY <2>1, MaxOfTwo
  <2>3. Max({0, x}) \in Int /\ x <= Max({0, x})
    BY <2>1, <2>2
  <2> QED BY <2>3 DEF x
<1>7. w => now <= f + Book(row)
  <2> SUFFICES ASSUME cash >= now, covered PROVE now <= f + Book(row)
    OBVIOUS
  <2>1. P <= Book(row)
    BY <1>4
  <2> HIDE DEF f, P, covered, now
  <2> QED BY <1>1, <1>3, <1>5, <1>6, <2>1
<1>8. PICK S \in SUBSET Listed :
        turn' = [Between EXCEPT !.at = "consider", !.calls = S, !.deployed = Deployed, !.count = Cardinality(Live), !.free = f, !.whole = w]
  BY DEF PassBegins
<1>9. w \in BOOLEAN
  OBVIOUS
<1> DEFINE d == Deployed
           n == Cardinality(Live)
<1>10. d = Book(row) /\ n = Cardinality(Rows(row)) /\ d \in Int /\ n \in Int
  BY <1>1
<1> HIDE DEF w, f, d, n
<1>11. turn' = NewPass(S, d, n, f, w)
  BY <1>8 DEF d, n, NewPass
<1>12. /\ turn' \in Turns /\ turn'.at = "consider" /\ turn'.deployed = d /\ turn'.count = n /\ turn'.free = f /\ turn'.whole = w
       /\ turn'.veto = "none"
  BY <1>6, <1>9, <1>10, <1>11, PassIs
<1>13. UNCHANGED <<mandate, choice, row, cash, held, isolated, believed, mark, byHand>>
  BY DEF PassBegins
<1>14. BudgetTypeOK'
  BY <1>12, <1>13 DEF BudgetInv, BudgetTypeOK
<1>15. RowsAreWhole' /\ RowsLeaveRoom' /\ BookFits' /\ Book(row') = Book(row) /\ Rows(row') = Rows(row)
  BY <1>13, RowsStay DEF BudgetInv
<1>16. DeskKnows' /\ FillsHaveAPrice'
  BY <1>13 DEF BudgetInv, DeskKnows, FillsHaveAPrice
<1>17. PassIsInStep'
  <2>1. turn'.whole => mandate' * Cent <= turn'.free + Book(row')
    BY <1>7, <1>12, <1>13 DEF now
  <2>2. turn'.deployed = Book(row') /\ turn'.count = Cardinality(Rows(row'))
    BY <1>10, <1>12, <1>15
  <2> QED BY <2>1, <2>2 DEF PassIsInStep
<1>18. CallInHandFits' /\ EntriesArePending' /\ FullBook'
  BY <1>12 DEF CallInHandFits, EntriesArePending, FullBook
<1> QED BY <1>14, <1>15, <1>16, <1>17, <1>18 DEF BudgetInv

(* The caps bind at the same point.                                        *)
LEMMA OnlyTheCountRefuses ==
  ASSUME BudgetInv, turn.at = "consider", turn.whole, \A c \in Rows(row) : row[c].margin = PerSignalBudget, NEW c \in Listed
  PROVE  Veto(c) # "no-budget" /\ Veto(c) # "insufficient-collateral"
<1> DEFINE B == Book(row)
           n == Cardinality(Rows(row))
           p == PerSignalBudget
           T == TradeableBudget
           R == ReserveFor
           f == turn.free
<1>1. RowsFit(row) /\ Live = Rows(row) /\ B \in Nat /\ n \in Nat
  <2>1. RowsFit(row) /\ Live = Rows(row)
    BY RowsOfAWholeBookFit DEF BudgetInv, Live, Rows
  <2> QED BY <2>1, StakesOfRows
<1>2. p \in Nat /\ T \in Nat /\ R \in Nat /\ T + R = mandate * Cent
  BY StakesAreNumbers DEF BudgetInv, BudgetTypeOK
<1>3. B = n * p
  <2> HIDE DEF n, p, B
  <2> QED BY <1>1, <1>2, BookOfEquals DEF n, p, B
<1>4. turn.deployed = B /\ turn.count = n
  BY DEF BudgetInv, PassIsInStep
<1>5. mandate * Cent <= f + B
  BY DEF BudgetInv, PassIsInStep
<1>6. f \in Int
  BY DEF BudgetInv, BudgetTypeOK, Turns
<1>7. ASSUME n < MaxConcurrent
      PROVE  ~(Cents(p) > Cents(T - B)) /\ ~(Cents(f - p) < Cents(R))
  <2>1. B + p <= T
    <3>1. n * p + p <= T
      BY <1>1, <1>7, TheCountFits DEF BudgetInv, BudgetTypeOK
    <3> QED BY <1>3, <3>1
  <2> HIDE DEF B, n, p, T, R, f
  <2>2. p <= T - B /\ R <= f - p /\ T - B \in Int /\ f - p \in Int /\ p \in Int /\ R \in Int
    BY <1>1, <1>2, <1>5, <1>6, <2>1
  <2>3. Cents(p) <= Cents(T - B) /\ Cents(R) <= Cents(f - p)
    BY <2>2, CentsGrow
  <2>4. Cents(p) \in Int /\ Cents(T - B) \in Int /\ Cents(R) \in Int /\ Cents(f - p) \in Int
    BY <2>2 DEF Cents, Cent
  <2> QED BY <2>3, <2>4
<1>8. MaxConcurrent \in Int
  <2>1. choice.pct \in 1..100
    BY BudgetAssumption DEF BudgetInv, BudgetTypeOK
  <2> QED BY <2>1 DEF MaxConcurrent
<1> HIDE DEF B, n, f
<1>9. /\ Veto(c) = "no-budget" => n < MaxConcurrent /\ Cents(p) > Cents(T - B)
      /\ Veto(c) = "insufficient-collateral" => n < MaxConcurrent /\ Cents(f - p) < Cents(R)
  BY <1>1, <1>4, <1>8 DEF Veto, f
<1> QED BY <1>7, <1>9

LEMMA CallIsVetoedKeeps == ASSUME BudgetInv, NEW c \in Listed, CallIsVetoed(c) PROVE BudgetInv'
<1> DEFINE v == Veto(c)
<1>1. turn' = NextCall(c, v) /\ turn.at = "consider" /\ turn \in Turns
  BY DEF CallIsVetoed, Considering, BudgetInv, BudgetTypeOK
<1>2. v \in {"none", "already-open", "max-concurrent", "no-budget", "insufficient-collateral"}
  BY VetoesAre
<1> HIDE DEF v
<1>3. /\ turn' \in Turns /\ turn'.at = turn.at /\ turn'.deployed = turn.deployed /\ turn'.count = turn.count
      /\ turn'.free = turn.free /\ turn'.whole = turn.whole /\ turn'.veto = v
  BY <1>1, <1>2, NextCallIs
<1>4. UNCHANGED <<mandate, choice, row, cash, held, isolated, believed, mark, byHand>>
  BY DEF CallIsVetoed
<1>5. BudgetTypeOK'
  BY <1>3, <1>4 DEF BudgetInv, BudgetTypeOK
<1>6. RowsAreWhole' /\ RowsLeaveRoom' /\ BookFits' /\ Book(row') = Book(row) /\ Rows(row') = Rows(row) /\ PerSignalBudget' = PerSignalBudget
  BY <1>4, RowsStay DEF BudgetInv
<1>7. DeskKnows' /\ FillsHaveAPrice'
  BY <1>4 DEF BudgetInv, DeskKnows, FillsHaveAPrice
<1>8. PassIsInStep'
  BY <1>3, <1>4, <1>6 DEF BudgetInv, PassIsInStep
<1>9. CallInHandFits' /\ EntriesArePending'
  BY <1>1, <1>3 DEF CallInHandFits, EntriesArePending
<1>10. FullBook'
  <2> SUFFICES ASSUME turn'.whole, \A d \in Rows(row') : row'[d].margin = PerSignalBudget'
               PROVE  turn'.veto # "no-budget" /\ turn'.veto # "insufficient-collateral"
    BY DEF FullBook
  <2>1. turn.whole
    BY <1>3
  <2>2. \A d \in Rows(row) : row[d].margin = PerSignalBudget
    BY <1>4, <1>6
  <2>3. Veto(c) # "no-budget" /\ Veto(c) # "insufficient-collateral"
    BY <1>1, <2>1, <2>2, OnlyTheCountRefuses
  <2> QED BY <1>3, <2>3 DEF v
<1> QED BY <1>5, <1>6, <1>7, <1>8, <1>9, <1>10 DEF BudgetInv

LEMMA CallIsUnfitKeeps == ASSUME BudgetInv, NEW c \in Listed, CallIsUnfit(c) PROVE BudgetInv'
<1>1. turn' = NextCall(c, "none") /\ turn.at = "consider" /\ turn \in Turns
  BY DEF CallIsUnfit, Considering, BudgetInv, BudgetTypeOK
<1>2. /\ turn' \in Turns /\ turn'.at = turn.at /\ turn'.deployed = turn.deployed /\ turn'.count = turn.count
      /\ turn'.free = turn.free /\ turn'.whole = turn.whole /\ turn'.veto = "none"
  BY <1>1, NextCallIs
<1>3. UNCHANGED <<mandate, choice, row, cash, held, isolated, believed, mark, byHand>>
  BY DEF CallIsUnfit
<1>4. BudgetTypeOK'
  BY <1>2, <1>3 DEF BudgetInv, BudgetTypeOK
<1>5. RowsAreWhole' /\ RowsLeaveRoom' /\ BookFits' /\ Book(row') = Book(row) /\ Rows(row') = Rows(row)
  BY <1>3, RowsStay DEF BudgetInv
<1>6. DeskKnows' /\ FillsHaveAPrice'
  BY <1>3 DEF BudgetInv, DeskKnows, FillsHaveAPrice
<1>7. PassIsInStep'
  BY <1>2, <1>3, <1>5 DEF BudgetInv, PassIsInStep
<1>8. CallInHandFits' /\ EntriesArePending' /\ FullBook'
  BY <1>1, <1>2 DEF CallInHandFits, EntriesArePending, FullBook
<1> QED BY <1>4, <1>5, <1>6, <1>7, <1>8 DEF BudgetInv

LEMMA LeverageIsSetKeeps == ASSUME BudgetInv, NEW c \in Listed, LeverageIsSet(c) PROVE BudgetInv'
<1>1. /\ turn' = [NextCall(c, "none") EXCEPT !.at = "insert", !.coin = c] /\ turn.at = "consider" /\ turn \in Turns
      /\ Veto(c) = "none" /\ InsideLiqBuffer(c)
  BY DEF LeverageIsSet, Considering, BudgetInv, BudgetTypeOK
<1>2. /\ turn' \in Turns /\ turn'.at = "insert" /\ turn'.deployed = turn.deployed /\ turn'.count = turn.count
      /\ turn'.free = turn.free /\ turn'.coin = c /\ turn'.whole = turn.whole /\ turn'.veto = "none"
  BY <1>1, CallInHandIs
<1>3. UNCHANGED <<mandate, choice, row, cash, held, mark>>
  BY DEF LeverageIsSet
<1>4. Leverage(c) \in Nat \ {0} /\ LeavesRoom(c, Leverage(c), mark, StopPrice(c))
  <2>1. Leverage(c) \in 1..20
    BY LeveragesAreOffered DEF BudgetInv
  <2> QED BY <1>1, <2>1, StopsAreNumbers DEF BudgetInv
<1>5. \/ believed[c] = Leverage(c) /\ UNCHANGED <<isolated, believed, byHand>>
      \/ /\ believed' = [believed EXCEPT ![c] = Leverage(c)] /\ isolated' = [isolated EXCEPT ![c] = Leverage(c)]
         /\ byHand' = byHand \ {c}
  BY DEF LeverageIsSet
<1>6. isolated \in [Listed -> Nat \ {0}] /\ believed \in [Listed -> Nat] /\ byHand \subseteq Listed
  BY DEF BudgetInv, BudgetTypeOK
<1> DEFINE l == Leverage(c)
<1> HIDE DEF l
<1>7. /\ isolated' \in [Listed -> Nat \ {0}] /\ believed' \in [Listed -> Nat] /\ byHand' \subseteq Listed
      /\ \A d \in Listed : d # c => isolated'[d] = isolated[d] /\ believed'[d] = believed[d] /\ (d \in byHand' <=> d \in byHand)
      /\ believed'[c] = l
      /\ c \notin byHand' => isolated'[c] = l
  <2>1. l \in Nat \ {0}
    BY <1>4 DEF l
  <2>2. \/ believed[c] = l /\ UNCHANGED <<isolated, believed, byHand>>
        \/ believed' = [believed EXCEPT ![c] = l] /\ isolated' = [isolated EXCEPT ![c] = l] /\ byHand' = byHand \ {c}
    BY <1>5 DEF l
  <2>3. c \notin byHand => believed[c] = 0 \/ believed[c] = isolated[c]
    BY DEF BudgetInv, DeskKnows
  <2> QED BY <1>6, <2>1, <2>2, <2>3
<1>8. BudgetTypeOK'
  BY <1>2, <1>3, <1>7 DEF BudgetInv, BudgetTypeOK
<1>9. c \notin Rows(row) /\ Live = Rows(row)
  BY <1>1 DEF Veto, Live, Rows
<1>10. RowsAreWhole' /\ BookFits' /\ Book(row') = Book(row) /\ Rows(row') = Rows(row)
  BY <1>3 DEF BudgetInv, RowsAreWhole, BookFits, TradeableBudget
<1>11. RowsLeaveRoom'
  <2> SUFFICES ASSUME NEW d \in Listed, row[d].status # "none"
               PROVE  /\ LeavesRoom(d, row[d].leverage, row[d].ref, row[d].stop)
                      /\ d \notin byHand' => isolated'[d] = row[d].leverage
    BY <1>3 DEF RowsLeaveRoom
  <2>1. d # c
    BY <1>9 DEF Rows
  <2> QED BY <1>7, <2>1 DEF BudgetInv, RowsLeaveRoom
<1>12. DeskKnows'
  <2> SUFFICES ASSUME NEW d \in Listed, d \notin byHand' PROVE believed'[d] = 0 \/ believed'[d] = isolated'[d]
    BY DEF DeskKnows
  <2>1. CASE d = c
    BY <1>7, <2>1
  <2>2. CASE d # c
    BY <1>7, <2>2 DEF BudgetInv, DeskKnows
  <2> QED BY <2>1, <2>2
<1>13. FillsHaveAPrice'
  BY <1>3 DEF BudgetInv, FillsHaveAPrice
<1>14. PassIsInStep'
  BY <1>1, <1>2, <1>3, <1>10 DEF BudgetInv, PassIsInStep
<1>15. CallInHandFits'
  <2>1. /\ Leverage(turn.coin)' = Leverage(c) /\ StopPrice(turn.coin)' = StopPrice(c)
        /\ PerSignalBudget' = PerSignalBudget /\ TradeableBudget' = TradeableBudget
    BY <1>2, <1>3 DEF Leverage, StopPrice, ClampedStop, PerSignalBudget, TradeableBudget
  <2>2. Book(row) + PerSignalBudget < TradeableBudget + Cent
    <3> DEFINE B == Book(row)
               p == PerSignalBudget
               T == TradeableBudget
    <3>1. B \in Nat
      BY RowsOfAWholeBookFit, StakesOfRows DEF BudgetInv
    <3>2. p \in Nat /\ T \in Nat
      BY StakesAreNumbers DEF BudgetInv, BudgetTypeOK
    <3>3. turn.deployed = B
      BY <1>1 DEF BudgetInv, PassIsInStep
    <3>4. ~(Cents(p) > Cents(T - B))
      BY <1>1, <3>3 DEF Veto
    <3> HIDE DEF B, p, T
    <3>5. Cents(p) \in Int /\ Cents(T - B) \in Int
      BY <3>1, <3>2 DEF Cents, Cent
    <3>6. p < T - B + Cent
      BY <3>1, <3>2, <3>4, <3>5, CentsApart
    <3> QED BY <3>1, <3>2, <3>6 DEF B, p, T, Cent
  <2>3. turn'.coin \notin byHand' => isolated'[turn'.coin] = Leverage(c)
    BY <1>2, <1>7 DEF l
  <2>4. LeavesRoom(c, Leverage(c), mark', StopPrice(c))
    BY <1>3, <1>4
  <2>5. turn'.coin = c
    BY <1>2
  <2>6. Book(row') + PerSignalBudget' < TradeableBudget' + Cent
    BY <1>10, <2>1, <2>2
  <2>7. turn'.coin \in Listed /\ turn'.coin \notin Rows(row') /\ turn'.veto = "none"
    BY <1>2, <1>9, <1>10
  <2> QED BY <2>1, <2>3, <2>4, <2>5, <2>6, <2>7 DEF CallInHandFits
<1>16. EntriesArePending' /\ FullBook'
  BY <1>2 DEF EntriesArePending, FullBook
<1> QED BY <1>8, <1>10, <1>11, <1>12, <1>13, <1>14, <1>15, <1>16 DEF BudgetInv

(* A step of a pass at its entries has nothing in hand but them.           *)
LEMMA NotConsidering ==
  turn'.at \notin {"consider", "insert"} => PassIsInStep' /\ CallInHandFits' /\ FullBook'
BY DEF PassIsInStep, CallInHandFits, FullBook

LEMMA BookIsNumber == ASSUME BudgetInv PROVE RowsFit(row) /\ Book(row) \in Nat /\ Cardinality(Rows(row)) \in Nat
BY RowsOfAWholeBookFit, StakesOfRows DEF BudgetInv

LEMMA IntentIsWrittenKeeps == ASSUME BudgetInv, IntentIsWritten PROVE BudgetInv'
<1> DEFINE c == turn.coin
           p == PerSignalBudget
           i == [status |-> "pending", margin |-> p, leverage |-> Leverage(c), ref |-> mark, stop |-> StopPrice(c)]
<1>1. /\ turn.at = "insert" /\ turn \in Turns /\ row' = [row EXCEPT ![c] = i]
      /\ turn' = [Counted(turn) EXCEPT !.at = "consider", !.coin = NobodysCoin]
  BY DEF IntentIsWritten, BudgetInv, BudgetTypeOK
<1>2. UNCHANGED <<mandate, choice, cash, held, isolated, believed, mark, byHand>>
  BY DEF IntentIsWritten
<1>3. /\ c \in Listed /\ c \notin Rows(row) /\ turn.veto = "none" /\ Book(row) + p < TradeableBudget + Cent
      /\ LeavesRoom(c, Leverage(c), mark, StopPrice(c)) /\ (c \notin byHand => isolated[c] = Leverage(c))
  BY <1>1 DEF BudgetInv, CallInHandFits
<1>4. p \in Nat
  BY StakesAreNumbers DEF BudgetInv, BudgetTypeOK
<1>5. /\ turn' \in Turns /\ turn'.at = "consider" /\ turn'.deployed = turn.deployed + p /\ turn'.count = turn.count + 1
      /\ turn'.free = turn.free /\ turn'.whole = turn.whole /\ turn'.veto = turn.veto
  BY <1>1, <1>4, CountedIs
<1>6. i \in Intents /\ i.status = "pending" /\ i.margin = p /\ i.leverage = Leverage(c) /\ i.ref = mark /\ i.stop = StopPrice(c)
  <2>1. Leverage(c) \in Nat /\ mark \in Nat /\ StopPrice(c) \in Int
    BY <1>3 DEF LeavesRoom
  <2> HIDE DEF c, p
  <2> QED BY <1>4, <2>1 DEF Intents
<1> HIDE DEF i, p, c
<1>7. row \in [Listed -> Intents] /\ row' \in [Listed -> Intents] /\ row'[c] = i /\ \A d \in Listed : d # c => row'[d] = row[d]
  BY <1>1, <1>3, <1>6 DEF BudgetInv, BudgetTypeOK
<1>8. BudgetTypeOK'
  BY <1>2, <1>5, <1>7 DEF BudgetInv, BudgetTypeOK
<1>9. RowsAreWhole'
  <2> SUFFICES ASSUME NEW d \in Listed PROVE row'[d].status # "none" \/ row'[d] = NoIntent
    BY DEF RowsAreWhole
  <2>1. row[d].status # "none" \/ row[d] = NoIntent
    BY DEF BudgetInv, RowsAreWhole
  <2> QED BY <1>6, <1>7, <2>1
<1>10. RowsLeaveRoom'
  <2> SUFFICES ASSUME NEW d \in Listed, row'[d].status # "none"
               PROVE  /\ LeavesRoom(d, row'[d].leverage, row'[d].ref, row'[d].stop)
                      /\ d \notin byHand => isolated[d] = row'[d].leverage
    BY <1>2 DEF RowsLeaveRoom
  <2>1. CASE d = c
    BY <1>3, <1>6, <1>7, <2>1
  <2>2. CASE d # c
    BY <1>7, <2>2 DEF BudgetInv, RowsLeaveRoom
  <2> QED BY <2>1, <2>2
<1>11. DeskKnows' /\ FillsHaveAPrice'
  BY <1>2 DEF BudgetInv, DeskKnows, FillsHaveAPrice
<1>12. RowsFit(row) /\ RowsFit(row')
  <2>1. RowsFit(row)
    BY BookIsNumber
  <2>2. \A d \in Listed : row'[d].margin \in Nat /\ (row'[d].status = "none" => row'[d].margin = 0)
    BY <1>4, <1>6, <1>7, <2>1 DEF RowsFit
  <2> QED BY <2>1, <2>2 DEF RowsFit
<1>13. Book(row') = Book(row) + p
  <2>1. \A d \in Listed \ {c} : row'[d].margin = row[d].margin
    BY <1>7
  <2>2. Book(row') = Book(row) + row'[c].margin
    BY <1>3, <1>12, <2>1, BookWithOneMore
  <2> QED BY <1>6, <1>7, <2>2
<1>14. Rows(row') = Rows(row) \cup {c} /\ Cardinality(Rows(row')) = Cardinality(Rows(row)) + 1
  <2>1. Rows(row') = Rows(row) \cup {c}
    BY <1>3, <1>6, <1>7 DEF Rows
  <2>2. IsFiniteSet(Rows(row))
    BY <1>12, StakesOfRows
  <2> QED BY <1>3, <2>1, <2>2, FS_AddElement
<1>15. PerSignalBudget' = p /\ TradeableBudget' = TradeableBudget
  BY <1>2 DEF PerSignalBudget, TradeableBudget, p
<1>16. BookFits'
  BY <1>3, <1>13, <1>15 DEF BookFits, p
<1>17. PassIsInStep'
  <2>1. turn.deployed = Book(row) /\ turn.count = Cardinality(Rows(row))
    BY <1>1 DEF BudgetInv, PassIsInStep
  <2>2. turn'.deployed = Book(row') /\ turn'.count = Cardinality(Rows(row'))
    BY <1>5, <1>13, <1>14, <2>1
  <2>3. ASSUME turn'.whole PROVE mandate' * Cent <= turn'.free + Book(row')
    <3>1. mandate * Cent <= turn.free + Book(row)
      BY <1>1, <1>5, <2>3 DEF BudgetInv, PassIsInStep
    <3>2. Book(row) \in Nat /\ turn.free \in Int /\ mandate * Cent \in Int
      BY BookIsNumber DEF BudgetInv, BudgetTypeOK, Turns, Cent
    <3> QED BY <1>2, <1>4, <1>5, <1>13, <3>1, <3>2
  <2> QED BY <2>2, <2>3 DEF PassIsInStep
<1>18. CallInHandFits' /\ EntriesArePending' /\ FullBook'
  BY <1>3, <1>5 DEF CallInHandFits, EntriesArePending, FullBook
<1> QED BY <1>8, <1>9, <1>10, <1>11, <1>16, <1>17, <1>18 DEF BudgetInv

LEMMA CallsAreThroughKeeps == ASSUME BudgetInv, CallsAreThrough PROVE BudgetInv'
<1> DEFINE S == {c \in Listed : row[c].status = "pending"}
<1>1. turn \in Turns /\ turn' = [turn EXCEPT !.at = "place", !.calls = S]
  BY DEF CallsAreThrough, BudgetInv, BudgetTypeOK
<1>2. turn' \in Turns /\ turn'.at = "place" /\ turn'.calls = S
  BY <1>1, TurnsOf
<1>3. UNCHANGED <<mandate, choice, row, cash, held, isolated, believed, mark, byHand>>
  BY DEF CallsAreThrough
<1>4. BudgetTypeOK'
  BY <1>2, <1>3 DEF BudgetInv, BudgetTypeOK
<1>5. RowsAreWhole' /\ RowsLeaveRoom' /\ BookFits'
  BY <1>3, RowsStay DEF BudgetInv
<1>6. DeskKnows' /\ FillsHaveAPrice'
  BY <1>3 DEF BudgetInv, DeskKnows, FillsHaveAPrice
<1>7. PassIsInStep' /\ CallInHandFits' /\ FullBook'
  BY <1>2, NotConsidering
<1>8. EntriesArePending'
  BY <1>2, <1>3 DEF EntriesArePending
<1> QED BY <1>4, <1>5, <1>6, <1>7, <1>8 DEF BudgetInv

(* An entry leaves the others to be tried.                                 *)
LEMMA EnteringLeaves ==
  ASSUME BudgetInv, NEW c \in Listed, Entering(c)
  PROVE  /\ row[c].status = "pending" /\ turn' \in Turns /\ turn'.at = "place"
         /\ c \notin turn'.calls /\ \A d \in turn'.calls : d \in Listed /\ row[d].status = "pending"
         /\ PassIsInStep' /\ CallInHandFits' /\ FullBook'
<1>1. turn \in Turns /\ turn.at = "place" /\ c \in turn.calls /\ turn' = [turn EXCEPT !.calls = @ \ {c}]
  BY DEF Entering, BudgetInv, BudgetTypeOK
<1> DEFINE S == turn.calls \ {c}
<1>2. S \in SUBSET Listed /\ turn' = [turn EXCEPT !.calls = S]
  BY <1>1 DEF Turns
<1> HIDE DEF S
<1>3. turn' \in Turns /\ turn'.at = "place" /\ turn'.calls = S
  BY <1>1, <1>2, TurnsOf
<1>4. \A d \in turn.calls : row[d].status = "pending"
  BY <1>1 DEF BudgetInv, EntriesArePending
<1>5. PassIsInStep' /\ CallInHandFits' /\ FullBook'
  BY <1>3, NotConsidering
<1> QED BY <1>1, <1>2, <1>3, <1>4, <1>5 DEF S

LEMMA FillsArePrices ==
  ASSUME BudgetTypeOK, NEW c \in Listed, NEW px \in FillPrices(c)
  PROVE  px \in Nat \ {0}
<1>1. mark \in Nat \ {0}
  BY BudgetAssumption DEF BudgetTypeOK
<1>2. Slip \in Nat /\ Slip < mark
  BY <1>1 DEF Slip
<1> QED BY <1>1, <1>2 DEF FillPrices

LEMMA EntryFillsKeeps == ASSUME BudgetInv, NEW c \in Listed, EntryFills(c) PROVE BudgetInv'
<1>1. /\ row[c].status = "pending" /\ turn' \in Turns /\ turn'.at = "place"
      /\ c \notin turn'.calls /\ \A d \in turn'.calls : d \in Listed /\ row[d].status = "pending"
      /\ PassIsInStep' /\ CallInHandFits' /\ FullBook'
  BY EnteringLeaves DEF EntryFills
<1>2. /\ row' = [row EXCEPT ![c].status = "open"] /\ cash' = cash - EntryFee
      /\ UNCHANGED <<mandate, choice, isolated, believed, mark, byHand>>
  BY DEF EntryFills
<1> DEFINE m == row[c].margin
           l == row[c].leverage
           k == isolated[c]
           r == row[c].ref
<1>3. PICK px \in FillPrices(c) : held' = [held EXCEPT ![c] = [posted |-> (((m * l) \div k) \div r) * px, at |-> px]]
  BY DEF EntryFills
<1>4. px \in Nat \ {0}
  BY <1>3, FillsArePrices DEF BudgetInv
<1>5. m \in Nat /\ l \in Nat /\ k \in Nat \ {0} /\ r \in Nat \ {0}
  <2>1. row[c] \in Intents /\ isolated[c] \in Nat \ {0}
    BY DEF BudgetInv, BudgetTypeOK
  <2>2. row[c].margin \in Nat /\ row[c].leverage \in Nat
    BY <2>1 DEF Intents
  <2>3. r \in Nat \ {0}
    BY <1>1 DEF BudgetInv, RowsLeaveRoom, LeavesRoom
  <2> QED BY <2>1, <2>2, <2>3
<1> HIDE DEF m, l, k, r
<1> DEFINE x == (((m * l) \div k) \div r) * px
<1>6. x \in Int
  <2>1. m * l \in Nat
    BY <1>5
  <2>2. (m * l) \div k \in Int
    <3> DEFINE y == m * l
    <3> HIDE DEF y
    <3>1. y \in Int => y \div k \in Int
      BY <1>5
    <3> QED BY <2>1, <3>1 DEF y
  <2> DEFINE y == (m * l) \div k
  <2>3. y \in Int
    BY <2>2
  <2> HIDE DEF y
  <2>4. y \div r \in Int
    BY <1>5, <2>3
  <2> DEFINE z == y \div r
  <2>5. z \in Int
    BY <2>4
  <2> HIDE DEF z
  <2>6. z * px \in Int
    BY <1>4, <2>5
  <2> QED BY <2>6 DEF y, z
<1> HIDE DEF x
<1>7. /\ held' \in [Listed -> Positions] /\ \A d \in Listed : held'[d] = IF d = c THEN [posted |-> x, at |-> px] ELSE held[d]
  <2>1. held' = [held EXCEPT ![c] = [posted |-> x, at |-> px]]
    BY <1>3 DEF x
  <2> QED BY <1>4, <1>6, <2>1 DEF BudgetInv, BudgetTypeOK, Positions
<1>8. /\ row' \in [Listed -> Intents] /\ (\A d \in Listed : d # c => row'[d] = row[d])
      /\ row'[c].status = "open" /\ row'[c].margin = row[c].margin /\ row'[c].leverage = row[c].leverage
      /\ row'[c].ref = row[c].ref /\ row'[c].stop = row[c].stop
  BY <1>2 DEF BudgetInv, BudgetTypeOK, Intents
<1>9. BudgetTypeOK'
  <2>1. cash' \in Int
    BY <1>2, BudgetAssumption DEF BudgetInv, BudgetTypeOK
  <2> QED BY <1>1, <1>2, <1>7, <1>8, <2>1 DEF BudgetInv, BudgetTypeOK
<1>10. RowsAreWhole'
  <2> SUFFICES ASSUME NEW d \in Listed PROVE row'[d].status # "none" \/ row'[d] = NoIntent
    BY DEF RowsAreWhole
  <2>1. row[d].status # "none" \/ row[d] = NoIntent
    BY DEF BudgetInv, RowsAreWhole
  <2> QED BY <1>8, <2>1
<1>11. RowsLeaveRoom'
  <2> SUFFICES ASSUME NEW d \in Listed, row'[d].status # "none"
               PROVE  /\ LeavesRoom(d, row'[d].leverage, row'[d].ref, row'[d].stop)
                      /\ d \notin byHand => isolated[d] = row'[d].leverage
    BY <1>2 DEF RowsLeaveRoom
  <2>1. CASE d = c
    <3>1. LeavesRoom(c, row[c].leverage, row[c].ref, row[c].stop) /\ (c \notin byHand => isolated[c] = row[c].leverage)
      BY <1>1 DEF BudgetInv, RowsLeaveRoom
    <3> QED BY <1>8, <2>1, <3>1
  <2>2. CASE d # c
    BY <1>8, <2>2 DEF BudgetInv, RowsLeaveRoom
  <2> QED BY <2>1, <2>2
<1>12. DeskKnows'
  BY <1>2 DEF BudgetInv, DeskKnows
<1>13. FillsHaveAPrice'
  BY <1>4, <1>7 DEF BudgetInv, FillsHaveAPrice
<1>14. EntriesArePending'
  <2>1. \A d \in turn'.calls : row'[d].status = "pending"
    BY <1>1, <1>8
  <2> QED BY <2>1 DEF EntriesArePending
<1>15. BookFits'
  <2>1. \A d \in Listed : row'[d].margin = row[d].margin
    BY <1>8
  <2>2. RowsFit(row')
    BY <1>9, <1>10 DEF BudgetTypeOK, RowsAreWhole, RowsFit, NoIntent, Intents
  <2>3. Book(row') <= Book(row) /\ Book(row') \in Nat /\ Book(row) \in Nat
    <3>1. \A d \in Listed : row'[d].margin \in Int
      BY <2>2 DEF RowsFit
    <3>2. \A d \in Listed : row'[d].margin <= row[d].margin
      BY <2>1, <3>1
    <3> QED BY <2>2, <3>2, BookIsNumber, BookIsMonotone, StakesOfRows
  <2>4. TradeableBudget' = TradeableBudget /\ TradeableBudget \in Nat
    BY <1>2, StakesAreNumbers DEF TradeableBudget, BudgetInv, BudgetTypeOK
  <2> QED BY <2>3, <2>4 DEF BudgetInv, BookFits, Cent
<1> QED BY <1>1, <1>9, <1>10, <1>11, <1>12, <1>13, <1>14, <1>15 DEF BudgetInv

LEMMA EntryWaitsKeeps == ASSUME BudgetInv, NEW c \in Listed, EntryWaits(c) PROVE BudgetInv'
<1>1. /\ turn' \in Turns /\ turn'.at = "place" /\ \A d \in turn'.calls : d \in Listed /\ row[d].status = "pending"
  BY EnteringLeaves DEF EntryWaits
<1>2. PassIsInStep' /\ CallInHandFits' /\ FullBook'
  BY EnteringLeaves DEF EntryWaits
<1>3. UNCHANGED <<mandate, choice, row, cash, held, isolated, believed, mark, byHand>>
  BY DEF EntryWaits
<1>4. BudgetTypeOK'
  BY <1>1, <1>3 DEF BudgetInv, BudgetTypeOK
<1>5. RowsAreWhole' /\ RowsLeaveRoom' /\ BookFits'
  BY <1>3, RowsStay DEF BudgetInv
<1>6. DeskKnows' /\ FillsHaveAPrice'
  BY <1>3 DEF BudgetInv, DeskKnows, FillsHaveAPrice
<1>7. EntriesArePending'
  BY <1>1, <1>3 DEF EntriesArePending
<1> QED BY <1>2, <1>4, <1>5, <1>6, <1>7 DEF BudgetInv

(* Rows that go leave the others as they are.                              *)
LEMMA RowsGo ==
  ASSUME BudgetInv, \A d \in Listed : row'[d] = row[d] \/ row'[d] = NoIntent, row' = [d \in Listed |-> row'[d]],
         UNCHANGED <<mandate, choice, isolated, byHand>>
  PROVE  row' \in [Listed -> Intents] /\ RowsAreWhole' /\ RowsLeaveRoom' /\ BookFits'
<1>1. NoIntent \in Intents /\ NoIntent.status = "none" /\ NoIntent.margin = 0
  BY DEF NoIntent, Intents
<1>2. \A d \in Listed : row[d] \in Intents
  BY DEF BudgetInv, BudgetTypeOK
<1>3. \A d \in Listed : row'[d] \in Intents
  BY <1>1, <1>2
<1>4. row' \in [Listed -> Intents]
  BY <1>3
<1>5. RowsAreWhole'
  BY DEF BudgetInv, RowsAreWhole
<1>6. RowsLeaveRoom'
  BY <1>1 DEF BudgetInv, RowsLeaveRoom
<1>7. RowsFit(row) /\ Book(row) \in Nat
  BY BookIsNumber
<1>8. RowsFit(row') /\ \A d \in Listed : row'[d].margin <= row[d].margin
  <2> SUFFICES ASSUME NEW d \in Listed
               PROVE  row'[d].margin \in Nat /\ (row'[d].status = "none" => row'[d].margin = 0) /\ row'[d].margin <= row[d].margin
    BY DEF RowsFit
  <2>1. row[d].margin \in Nat /\ (row[d].status = "none" => row[d].margin = 0)
    BY <1>7 DEF RowsFit
  <2>2. CASE row'[d] = row[d]
    BY <2>1, <2>2
  <2>3. CASE row'[d] = NoIntent
    BY <1>1, <2>1, <2>3
  <2> QED BY <2>2, <2>3
<1>9. Book(row') <= Book(row) /\ Book(row') \in Nat
  BY <1>7, <1>8, BookIsMonotone, StakesOfRows
<1>10. TradeableBudget' = TradeableBudget /\ TradeableBudget \in Nat
  BY StakesAreNumbers DEF TradeableBudget, BudgetInv, BudgetTypeOK
<1>11. BookFits'
  BY <1>7, <1>9, <1>10 DEF BudgetInv, BookFits, Cent
<1> QED BY <1>4, <1>5, <1>6, <1>11

LEMMA EntryIsRejectedKeeps == ASSUME BudgetInv, NEW c \in Listed, EntryIsRejected(c) PROVE BudgetInv'
<1>1. /\ turn' \in Turns /\ turn'.at = "place" /\ c \notin turn'.calls
      /\ \A d \in turn'.calls : d \in Listed /\ row[d].status = "pending"
  BY EnteringLeaves DEF EntryIsRejected
<1>2. PassIsInStep' /\ CallInHandFits' /\ FullBook'
  BY EnteringLeaves DEF EntryIsRejected
<1>3. row' = [row EXCEPT ![c] = NoIntent] /\ UNCHANGED <<mandate, choice, cash, held, isolated, believed, mark, byHand>>
  BY DEF EntryIsRejected
<1>4. \A d \in Listed : row'[d] = IF d = c THEN NoIntent ELSE row[d]
  BY <1>3 DEF BudgetInv, BudgetTypeOK
<1>5. row' = [d \in Listed |-> row'[d]]
  BY <1>3 DEF BudgetInv, BudgetTypeOK
<1>6. row' \in [Listed -> Intents] /\ RowsAreWhole' /\ RowsLeaveRoom' /\ BookFits'
  BY <1>3, <1>4, <1>5, RowsGo
<1>7. BudgetTypeOK'
  BY <1>1, <1>3, <1>6 DEF BudgetInv, BudgetTypeOK
<1>8. DeskKnows' /\ FillsHaveAPrice'
  BY <1>3 DEF BudgetInv, DeskKnows, FillsHaveAPrice
<1>9. EntriesArePending'
  BY <1>1, <1>4 DEF EntriesArePending
<1> QED BY <1>2, <1>6, <1>7, <1>8, <1>9 DEF BudgetInv

LEMMA PassSettlesKeeps == ASSUME BudgetInv, PassSettles PROVE BudgetInv'
<1>1. /\ turn' = Between /\ row' = [c \in Listed |-> IF row[c].status = "open" /\ held[c] = Flat THEN NoIntent ELSE row[c]]
      /\ UNCHANGED <<mandate, choice, cash, held, isolated, believed, mark, byHand>>
  BY DEF PassSettles
<1>2. turn' \in Turns /\ PassIsInStep' /\ CallInHandFits' /\ EntriesArePending' /\ FullBook'
  BY <1>1, BetweenIs, NothingInHandNow
<1>3. (\A d \in Listed : row'[d] = row[d] \/ row'[d] = NoIntent) /\ row' = [d \in Listed |-> row'[d]]
  BY <1>1
<1>4. row' \in [Listed -> Intents] /\ RowsAreWhole' /\ RowsLeaveRoom' /\ BookFits'
  BY <1>1, <1>3, RowsGo
<1>5. BudgetTypeOK'
  BY <1>1, <1>2, <1>4 DEF BudgetInv, BudgetTypeOK
<1>6. DeskKnows' /\ FillsHaveAPrice'
  BY <1>1 DEF BudgetInv, DeskKnows, FillsHaveAPrice
<1> QED BY <1>2, <1>4, <1>5, <1>6 DEF BudgetInv

LEMMA ProcessDiesKeeps == ASSUME BudgetInv, ProcessDies PROVE BudgetInv'
<1>1. /\ turn' = Between /\ believed' = [c \in Listed |-> 0]
      /\ UNCHANGED <<mandate, choice, row, cash, held, isolated, mark, byHand>>
  BY DEF ProcessDies
<1>2. turn' \in Turns /\ PassIsInStep' /\ CallInHandFits' /\ EntriesArePending' /\ FullBook'
  BY <1>1, BetweenIs, NothingInHandNow
<1>3. RowsAreWhole' /\ RowsLeaveRoom' /\ BookFits'
  BY <1>1, RowsStay DEF BudgetInv
<1>4. BudgetTypeOK'
  BY <1>1, <1>2 DEF BudgetInv, BudgetTypeOK
<1>5. DeskKnows' /\ FillsHaveAPrice'
  BY <1>1 DEF BudgetInv, DeskKnows, FillsHaveAPrice
<1> QED BY <1>2, <1>3, <1>4, <1>5 DEF BudgetInv

LEMMA SettingsAreServedKeeps == ASSUME BudgetInv, SettingsAreServed PROVE BudgetInv'
<1>1. /\ turn'.at = "idle" /\ choice' \in Offered
      /\ UNCHANGED <<mandate, row, cash, held, isolated, believed, mark, turn, byHand>>
  BY DEF SettingsAreServed
<1>2. PassIsInStep' /\ CallInHandFits' /\ EntriesArePending' /\ FullBook'
  BY <1>1, NothingInHandNow
<1>3. BudgetTypeOK'
  BY <1>1 DEF BudgetInv, BudgetTypeOK
<1>4. RowsAreWhole' /\ RowsLeaveRoom' /\ DeskKnows' /\ FillsHaveAPrice' /\ BookFits'
  BY <1>1 DEF BudgetInv, RowsAreWhole, RowsLeaveRoom, DeskKnows, FillsHaveAPrice, BookFits, TradeableBudget
<1> QED BY <1>2, <1>3, <1>4 DEF BudgetInv

(* A mandate is re-read when there is nothing it must cover.               *)
LEMMA MandateIsServedKeeps == ASSUME BudgetInv, MandateIsServed PROVE BudgetInv'
<1>1. /\ turn'.at = "idle" /\ Live = {} /\ cash >= Cent /\ mandate' = cash \div Cent
      /\ UNCHANGED <<choice, row, cash, held, isolated, believed, mark, turn, byHand>>
  BY DEF MandateIsServed
<1>2. PassIsInStep' /\ CallInHandFits' /\ EntriesArePending' /\ FullBook'
  BY <1>1, NothingInHandNow
<1>3. mandate' \in Nat
  BY <1>1 DEF BudgetInv, BudgetTypeOK, Cent
<1>4. BudgetTypeOK'
  BY <1>1, <1>3 DEF BudgetInv, BudgetTypeOK
<1>5. RowsAreWhole' /\ RowsLeaveRoom' /\ DeskKnows' /\ FillsHaveAPrice'
  BY <1>1 DEF BudgetInv, RowsAreWhole, RowsLeaveRoom, DeskKnows, FillsHaveAPrice
<1>6. BookFits'
  <2>1. Rows(row) = {}
    BY <1>1 DEF Rows, Live
  <2>2. Book(row) = Cardinality(Rows(row)) * 0 /\ Cardinality(Rows(row)) \in Nat
    BY <2>1, BookIsNumber, BookOfEquals
  <2>3. Book(row') = 0
    BY <1>1, <2>2
  <2>4. PICK m \in Nat : m = mandate'
    BY <1>3
  <2>5. TradeableBudget' = 9900 * m
    BY <2>4 DEF TradeableBudget
  <2>6. 0 < 9900 * m + Cent
    BY DEF Cent
  <2>7. 0 < TradeableBudget' + Cent
    BY <2>5, <2>6
  <2> QED BY <2>3, <2>7 DEF BookFits
<1> QED BY <1>2, <1>4, <1>5, <1>6 DEF BudgetInv

LEMMA MarkMovesKeeps == ASSUME BudgetInv, MarkMoves PROVE BudgetInv'
<1>1. /\ turn'.at = "idle" /\ mark' \in Marks
      /\ UNCHANGED <<mandate, choice, row, cash, held, isolated, believed, turn, byHand>>
  BY DEF MarkMoves
<1>2. PassIsInStep' /\ CallInHandFits' /\ EntriesArePending' /\ FullBook'
  BY <1>1, NothingInHandNow
<1>3. BudgetTypeOK'
  BY <1>1 DEF BudgetInv, BudgetTypeOK
<1>4. RowsAreWhole' /\ RowsLeaveRoom' /\ BookFits'
  BY <1>1, RowsStay DEF BudgetInv
<1>5. DeskKnows' /\ FillsHaveAPrice'
  BY <1>1 DEF BudgetInv, DeskKnows, FillsHaveAPrice
<1> QED BY <1>2, <1>3, <1>4, <1>5 DEF BudgetInv

LEMMA CashMovesKeeps == ASSUME BudgetInv, CashMoves PROVE BudgetInv'
<1>1. UNCHANGED <<mandate, choice, row, held, isolated, believed, mark, turn, byHand>>
  BY DEF CashMoves
<1>2. cash' \in Int
  <2>1. PICK f \in Flows : cash' = cash + f * Cent
    BY DEF CashMoves
  <2>2. f \in Int /\ cash \in Int
    BY BudgetAssumption DEF BudgetInv, BudgetTypeOK
  <2> QED BY <2>1, <2>2 DEF Cent
<1>3. BudgetTypeOK'
  BY <1>1, <1>2 DEF BudgetInv, BudgetTypeOK
<1>4. RowsAreWhole' /\ RowsLeaveRoom' /\ BookFits'
  BY <1>1, RowsStay DEF BudgetInv
<1>5. PassIsInStep' /\ CallInHandFits' /\ EntriesArePending' /\ FullBook'
  BY <1>1, CallStays DEF BudgetInv
<1>6. DeskKnows' /\ FillsHaveAPrice'
  BY <1>1 DEF BudgetInv, DeskKnows, FillsHaveAPrice
<1> QED BY <1>3, <1>4, <1>5, <1>6 DEF BudgetInv

LEMMA PositionClosesKeeps == ASSUME BudgetInv, NEW c \in Listed, PositionCloses(c) PROVE BudgetInv'
<1>1. /\ held' = [held EXCEPT ![c] = Flat]
      /\ UNCHANGED <<mandate, choice, row, isolated, believed, mark, turn, byHand>>
  BY DEF PositionCloses
<1>2. cash' \in Int
  <2>1. PICK r \in Results : cash' = cash + (held[c].posted \div 100) * r
    BY DEF PositionCloses
  <2> DEFINE q == held[c].posted \div 100
  <2>2. held[c].posted \in Int
    BY DEF BudgetInv, BudgetTypeOK, Positions
  <2>3. q \in Int /\ r \in Int /\ cash \in Int
    BY <2>2, BudgetAssumption DEF BudgetInv, BudgetTypeOK
  <2> HIDE DEF q
  <2>4. q * r \in Int
    BY <2>3
  <2> QED BY <2>1, <2>3, <2>4 DEF q
<1>3. Flat \in Positions
  BY DEF Flat, Positions
<1>4. held' \in [Listed -> Positions] /\ \A d \in Listed : held'[d] = Flat \/ held'[d] = held[d]
  BY <1>1, <1>3 DEF BudgetInv, BudgetTypeOK
<1>5. BudgetTypeOK'
  BY <1>1, <1>2, <1>4 DEF BudgetInv, BudgetTypeOK
<1>6. RowsAreWhole' /\ RowsLeaveRoom' /\ BookFits'
  BY <1>1, RowsStay DEF BudgetInv
<1>7. PassIsInStep' /\ CallInHandFits' /\ EntriesArePending' /\ FullBook'
  BY <1>1, CallStays DEF BudgetInv
<1>8. DeskKnows' /\ FillsHaveAPrice'
  BY <1>1, <1>4 DEF BudgetInv, DeskKnows, FillsHaveAPrice
<1> QED BY <1>5, <1>6, <1>7, <1>8 DEF BudgetInv

(* What the owner set by hand is no longer what the desk knows.            *)
LEMMA OwnerSetsLeverageKeeps == ASSUME BudgetInv, NEW c \in Listed, OwnerSetsLeverage(c) PROVE BudgetInv'
<1>1. /\ isolated' = [isolated EXCEPT ![c] = CapOf[c]] /\ byHand' = byHand \cup {c}
      /\ UNCHANGED <<mandate, choice, row, cash, held, believed, mark, turn>>
  BY DEF OwnerSetsLeverage
<1>2. CapOf[c] \in Nat \ {0}
  BY BudgetAssumption
<1>3. /\ isolated' \in [Listed -> Nat \ {0}] /\ byHand' \subseteq Listed
      /\ \A d \in Listed : d \notin byHand' => d \notin byHand /\ isolated'[d] = isolated[d]
  BY <1>1, <1>2 DEF BudgetInv, BudgetTypeOK
<1>4. BudgetTypeOK'
  BY <1>1, <1>3 DEF BudgetInv, BudgetTypeOK
<1>5. RowsAreWhole' /\ BookFits'
  BY <1>1 DEF BudgetInv, RowsAreWhole, BookFits, TradeableBudget
<1>6. RowsLeaveRoom'
  <2> SUFFICES ASSUME NEW d \in Listed, row[d].status # "none"
               PROVE  /\ LeavesRoom(d, row[d].leverage, row[d].ref, row[d].stop)
                      /\ d \notin byHand' => isolated'[d] = row[d].leverage
    BY <1>1 DEF RowsLeaveRoom
  <2> QED BY <1>3 DEF BudgetInv, RowsLeaveRoom
<1>7. DeskKnows'
  BY <1>1, <1>3 DEF BudgetInv, DeskKnows
<1>8. FillsHaveAPrice'
  BY <1>1 DEF BudgetInv, FillsHaveAPrice
<1>9. PassIsInStep' /\ EntriesArePending' /\ FullBook'
  <2>1. PerSignalBudget' = PerSignalBudget
    BY <1>1 DEF PerSignalBudget
  <2> QED BY <1>1, <2>1 DEF BudgetInv, PassIsInStep, EntriesArePending, FullBook
<1>10. CallInHandFits'
  <2> SUFFICES ASSUME turn.at = "insert" PROVE CallInHandFits'
    BY <1>1 DEF CallInHandFits
  <2>1. /\ Leverage(turn.coin)' = Leverage(turn.coin) /\ StopPrice(turn.coin)' = StopPrice(turn.coin)
        /\ PerSignalBudget' = PerSignalBudget /\ TradeableBudget' = TradeableBudget
    BY <1>1 DEF Leverage, StopPrice, ClampedStop, PerSignalBudget, TradeableBudget
  <2>2. /\ turn.coin \in Listed /\ turn.coin \notin Rows(row) /\ turn.veto = "none"
        /\ Book(row) + PerSignalBudget < TradeableBudget + Cent
        /\ LeavesRoom(turn.coin, Leverage(turn.coin), mark, StopPrice(turn.coin))
        /\ turn.coin \notin byHand => isolated[turn.coin] = Leverage(turn.coin)
    BY DEF BudgetInv, CallInHandFits
  <2>3. turn.coin \notin byHand' => isolated'[turn.coin] = Leverage(turn.coin)
    BY <1>3, <2>2
  <2> QED BY <1>1, <2>1, <2>2, <2>3 DEF CallInHandFits
<1> QED BY <1>4, <1>5, <1>6, <1>7, <1>8, <1>9, <1>10 DEF BudgetInv

LEMMA BudgetStutters == ASSUME BudgetInv, UNCHANGED budgetVars PROVE BudgetInv'
<1>1. UNCHANGED <<mandate, choice, row, cash, held, isolated, believed, mark, turn, byHand>>
  BY DEF budgetVars
<1>2. BudgetTypeOK'
  BY <1>1 DEF BudgetInv, BudgetTypeOK
<1>3. RowsAreWhole' /\ RowsLeaveRoom' /\ BookFits'
  BY <1>1, RowsStay DEF BudgetInv
<1>4. PassIsInStep' /\ CallInHandFits' /\ EntriesArePending' /\ FullBook'
  BY <1>1, CallStays DEF BudgetInv
<1>5. DeskKnows' /\ FillsHaveAPrice'
  BY <1>1 DEF BudgetInv, DeskKnows, FillsHaveAPrice
<1> QED BY <1>2, <1>3, <1>4, <1>5 DEF BudgetInv

LEMMA BudgetInvNext == ASSUME BudgetInv, [BudgetNext]_budgetVars PROVE BudgetInv'
<1>1. CASE PassBegins
  BY <1>1, PassBeginsKeeps
<1>2. CASE IntentIsWritten
  BY <1>2, IntentIsWrittenKeeps
<1>3. CASE CallsAreThrough
  BY <1>3, CallsAreThroughKeeps
<1>4. CASE PassSettles
  BY <1>4, PassSettlesKeeps
<1>5. ASSUME NEW c \in Listed, CallIsVetoed(c) PROVE BudgetInv'
  BY <1>5, CallIsVetoedKeeps
<1>6. ASSUME NEW c \in Listed, CallIsUnfit(c) PROVE BudgetInv'
  BY <1>6, CallIsUnfitKeeps
<1>7. ASSUME NEW c \in Listed, LeverageIsSet(c) PROVE BudgetInv'
  BY <1>7, LeverageIsSetKeeps
<1>8. ASSUME NEW c \in Listed, EntryFills(c) PROVE BudgetInv'
  BY <1>8, EntryFillsKeeps
<1>9. ASSUME NEW c \in Listed, EntryWaits(c) PROVE BudgetInv'
  BY <1>9, EntryWaitsKeeps
<1>10. ASSUME NEW c \in Listed, EntryIsRejected(c) PROVE BudgetInv'
  BY <1>10, EntryIsRejectedKeeps
<1>11. ASSUME NEW c \in Listed, PositionCloses(c) PROVE BudgetInv'
  BY <1>11, PositionClosesKeeps
<1>12. ASSUME NEW c \in Listed, OwnerSetsLeverage(c) PROVE BudgetInv'
  BY <1>12, OwnerSetsLeverageKeeps
<1>13. CASE ProcessDies
  BY <1>13, ProcessDiesKeeps
<1>14. CASE SettingsAreServed
  BY <1>14, SettingsAreServedKeeps
<1>15. CASE MandateIsServed
  BY <1>15, MandateIsServedKeeps
<1>16. CASE CashMoves
  BY <1>16, CashMovesKeeps
<1>17. CASE MarkMoves
  BY <1>17, MarkMovesKeeps
<1>18. CASE UNCHANGED budgetVars
  BY <1>18, BudgetStutters
<1> QED BY <1>1, <1>2, <1>3, <1>4, <1>5, <1>6, <1>7, <1>8, <1>9, <1>10, <1>11, <1>12, <1>13, <1>14, <1>15, <1>16, <1>17, <1>18 DEF BudgetNext

(* At a leverage an owner may choose and the venue allows, liquidation is  *)
(* a fortieth of the entry away at the least.                              *)
LEMMA LiquidationIsFar ==
  ASSUME NEW l \in 1..20, NEW k \in Nat \ {0}, l <= k
  PROVE  /\ 2 * k - l \in Nat \ {0} /\ 2 * k * l \in Nat /\ 2 * k - l <= 2 * k * l /\ 2 * k * l <= 40 * (2 * k - l)
<1>1. 1 * k <= l * k
  BY ProductsGrow
<1>2. l * k <= 20 * k
  BY ProductsGrow
<1>3. 2 * k * l = 2 * (l * k)
  OBVIOUS
<1> DEFINE x == l * k
<1>4. x \in Nat
  OBVIOUS
<1> HIDE DEF x
<1>5. 2 * k * l = 2 * x /\ k <= x /\ x <= 20 * k
  BY <1>1, <1>2, <1>3 DEF x
<1> QED BY <1>4, <1>5

LEMMA StopsHold == BudgetInv => StopsHoldAtTheirPrice
<1> SUFFICES ASSUME BudgetInv, NEW c \in Listed, c \notin byHand, AtItsPrice(c), row[c].status = "open", held[c] # Flat
             PROVE  Under(Distance(c, held[c].at, row[c].stop), LiqDistance(isolated[c], CapOf[c]))
  BY DEF StopsHoldAtTheirPrice, StopComesFirst
<1> DEFINE l == row[c].leverage
           k == CapOf[c]
           r == row[c].ref
           s == row[c].stop
           a == held[c].at
           n == 2 * k - l
           m == 2 * k * l
<1>1. LeavesRoom(c, l, r, s) /\ isolated[c] = l
  BY DEF BudgetInv, RowsLeaveRoom
<1>2. l \in 1..20 /\ l <= k /\ r \in Nat /\ s \in Int /\ k \in Nat \ {0}
  BY <1>1, BudgetAssumption DEF LeavesRoom
<1>3. a \in Nat \ {0}
  <2>1. held[c] \in Positions /\ a # 0
    BY DEF BudgetInv, BudgetTypeOK, FillsHaveAPrice
  <2> QED BY <2>1 DEF Positions
<1>4. ~Under(MaxStop(l, k), Distance(c, r, s)) /\ ~Under(<<3, 1000>>, Distance(c, a, r))
  BY <1>1 DEF LeavesRoom, AtItsPrice
<1>5. SideOf[c] = "long" \/ SideOf[c] # "long"
  OBVIOUS
<1>6. MaxStop(l, k) = <<7 * n, 10 * m>> /\ LiqDistance(l, k) = <<n, m>>
  BY DEF MaxStop, LiqDistance
<1> HIDE DEF l, k, r, s, a
<1>7. n \in Nat \ {0} /\ m \in Nat /\ n <= m /\ m <= 40 * n
  BY <1>2, LiquidationIsFar
<1> HIDE DEF n, m
<1>8. CASE SideOf[c] = "long"
  <2>1. Distance(c, r, s) = <<r - s, r>> /\ Distance(c, a, r) = <<a - r, a>> /\ Distance(c, a, s) = <<a - s, a>>
    BY <1>8 DEF Distance
  <2>2. ~(7 * n * r < (r - s) * (10 * m)) /\ ~(3 * a < (a - r) * 1000)
    BY <1>4, <1>6, <2>1 DEF Under
  <2>3. (a - s) * m < n * a
    BY <1>2, <1>3, <1>7, <2>2, LongStopHolds
  <2>4. Under(Distance(c, a, s), LiqDistance(l, k))
    BY <1>6, <2>1, <2>3 DEF Under
  <2> QED BY <1>1, <2>4 DEF l, k, a, s
<1>9. CASE SideOf[c] # "long"
  <2>1. Distance(c, r, s) = <<s - r, r>> /\ Distance(c, a, r) = <<r - a, a>> /\ Distance(c, a, s) = <<s - a, a>>
    BY <1>9 DEF Distance
  <2>2. ~(7 * n * r < (s - r) * (10 * m)) /\ ~(3 * a < (r - a) * 1000)
    BY <1>4, <1>6, <2>1 DEF Under
  <2>3. (s - a) * m < n * a
    BY <1>2, <1>3, <1>7, <2>2, ShortStopHolds
  <2>4. Under(Distance(c, a, s), LiqDistance(l, k))
    BY <1>6, <2>1, <2>3 DEF Under
  <2> QED BY <1>1, <2>4 DEF l, k, a, s
<1> QED BY <1>8, <1>9

LEMMA BudgetInvKeepsIt == BudgetInv => BudgetIsKept
<1> SUFFICES ASSUME BudgetInv PROVE BudgetIsKept
  OBVIOUS
<1>1. Live = Rows(row) /\ Margins(Live) = Stakes(row, Live)
  BY DEF Live, Rows, Margins, Stakes
<1>2. Deployed = Book(row)
  BY <1>1, BookIsNumber, StakesOfRows DEF Deployed
<1>3. MarginsFit
  BY <1>2 DEF BudgetInv, BookFits, MarginsFit
<1>4. FullBookIsReached
  BY <1>1 DEF BudgetInv, FullBook, FullBookIsReached
<1>5. StopsHoldAtTheirPrice
  BY StopsHold
<1> QED BY <1>3, <1>4, <1>5 DEF BudgetIsKept

(* The book, the pass that adds to it, the call it has in hand and the     *)
(* leverage the venue has stay in step, whatever the owner, the market and *)
(* the process do between two awaits.                                      *)
THEOREM BudgetIsInductive == BudgetSpec => []BudgetInv
<1>1. BudgetInit => BudgetInv
  BY BudgetInvInit
<1>2. BudgetInv /\ [BudgetNext]_budgetVars => BudgetInv'
  BY BudgetInvNext
<1> QED BY <1>1, <1>2, PTL DEF BudgetSpec

(* BudgetIsKept, for any settings the code accepts, any caps of the venue, *)
(* any marks, deposits and results: what is staked fits the mandate        *)
(* (risk/ledger.ts:90), a full book is refused only by the count, and a    *)
(* stop at its row's price comes before the liquidation (risk/sizing.ts).  *)
THEOREM BudgetIsAlwaysKept == BudgetSpec => []BudgetIsKept
<1>1. BudgetSpec => []BudgetInv
  BY BudgetIsInductive
<1>2. BudgetInv => BudgetIsKept
  BY BudgetInvKeepsIt
<1> QED BY <1>1, <1>2, PTL

-----------------------------------------------------------------------------
(* The feed's watch.  Ratios of positive numbers, by their products.       *)
Ratios == (Nat \ {0}) \X (Nat \ {0})
AtMost(a, b) == ~Smaller(b, a)

LEMMA ProductsAreOrdered ==
  ASSUME NEW x \in Nat, NEW y \in Nat, NEW k \in Nat \ {0}
  PROVE  (x < y <=> x * k < y * k) /\ x * k \in Nat /\ (x # 0 => x * k # 0)
OBVIOUS

LEMMA RatiosAreNumbers ==
  ASSUME NEW a \in Ratios
  PROVE  a[1] \in Nat \ {0} /\ a[2] \in Nat \ {0} /\ IsNumber(a)
BY DEF Ratios, IsNumber

LEMMA SmallerIsAnOrder ==
  ASSUME NEW a \in Ratios, NEW b \in Ratios, NEW c \in Ratios
  PROVE  /\ ~Smaller(a, a)
         /\ Smaller(a, b) => AtMost(a, b)
         /\ AtMost(a, b) /\ AtMost(b, c) => AtMost(a, c)
         /\ AtMost(a, b) /\ Smaller(b, c) => Smaller(a, c)
         /\ Smaller(a, b) /\ AtMost(b, c) => Smaller(a, c)
<1>1. PICK a1 \in Nat \ {0}, a2 \in Nat \ {0} : a1 = a[1] /\ a2 = a[2]
  BY RatiosAreNumbers
<1>2. PICK b1 \in Nat \ {0}, b2 \in Nat \ {0} : b1 = b[1] /\ b2 = b[2]
  BY RatiosAreNumbers
<1>3. PICK c1 \in Nat \ {0}, c2 \in Nat \ {0} : c1 = c[1] /\ c2 = c[2]
  BY RatiosAreNumbers
<1> DEFINE ab == a1 * b2
           ba == b1 * a2
           bc == b1 * c2
           cb == c1 * b2
           ac == a1 * c2
           ca == c1 * a2
<1>4. /\ ab \in Nat /\ ba \in Nat /\ bc \in Nat /\ cb \in Nat /\ ac \in Nat /\ ca \in Nat
  OBVIOUS
<1>5. /\ Smaller(a, b) <=> ab < ba
      /\ Smaller(b, a) <=> ba < ab
      /\ Smaller(b, c) <=> bc < cb
      /\ Smaller(c, b) <=> cb < bc
      /\ Smaller(a, c) <=> ac < ca
      /\ Smaller(c, a) <=> ca < ac
      /\ ~Smaller(a, a)
  BY <1>1, <1>2, <1>3 DEF Smaller
<1>6. /\ ab * c2 = ac * b2 /\ ba * c2 = bc * a2 /\ cb * a2 = ca * b2
  BY <1>1, <1>2, <1>3
<1>7. /\ ab < ba <=> ab * c2 < ba * c2
      /\ ba < ab <=> ba * c2 < ab * c2
      /\ bc < cb <=> bc * a2 < cb * a2
      /\ cb < bc <=> cb * a2 < bc * a2
      /\ ac < ca <=> ac * b2 < ca * b2
      /\ ca < ac <=> ca * b2 < ac * b2
  <2> HIDE DEF ab, ba, bc, cb, ac, ca
  <2> QED BY <1>4, ProductsAreOrdered
<1>8. PICK x \in Nat, y \in Nat, z \in Nat : x = ab * c2 /\ y = ba * c2 /\ z = cb * a2
  BY <1>4
<1> HIDE DEF ab, ba, bc, cb, ac, ca
<1> QED BY <1>5, <1>6, <1>7, <1>8 DEF AtMost

-----------------------------------------------------------------------------
(* What is out of the band stays out further on, and what lies between two  *)
(* is out of the band only if one of them is.                              *)
LEMMA BandsAreOrdered ==
  ASSUME NEW a \in Ratios, NEW b \in Ratios, AtMost(a, b)
  PROVE  (Above(a) => Above(b)) /\ (Below(b) => Below(a))
<1>1. PICK a1 \in Nat \ {0}, a2 \in Nat \ {0} : a1 = a[1] /\ a2 = a[2]
  BY RatiosAreNumbers
<1>2. PICK b1 \in Nat \ {0}, b2 \in Nat \ {0} : b1 = b[1] /\ b2 = b[2]
  BY RatiosAreNumbers
<1>3. PICK l \in Nat, h \in Nat : l = Low /\ h = High
  BY BandAssumption
<1> DEFINE ab == a1 * b2
           ba == b1 * a2
           ra == 100 * a1
           rb == 100 * b1
<1>4. /\ Above(a) <=> ra > h * a2
      /\ Above(b) <=> rb > h * b2
      /\ Below(a) <=> ra < l * a2
      /\ Below(b) <=> rb < l * b2
  BY <1>1, <1>2, <1>3, RatiosAreNumbers DEF Above, Below
<1>5. ab <= ba
  BY <1>1, <1>2 DEF AtMost, Smaller
<1>6. /\ ra \in Nat /\ rb \in Nat /\ ab \in Nat /\ ba \in Nat
      /\ h * a2 \in Nat /\ h * b2 \in Nat /\ l * a2 \in Nat /\ l * b2 \in Nat
  OBVIOUS
<1>7. /\ h * a2 < ra <=> (h * a2) * b2 < ra * b2
      /\ h * b2 < rb <=> (h * b2) * a2 < rb * a2
      /\ ra < l * a2 <=> ra * b2 < (l * a2) * b2
      /\ rb < l * b2 <=> rb * a2 < (l * b2) * a2
  <2> HIDE DEF ra, rb
  <2> QED BY <1>6, ProductsAreOrdered
<1>8. ra * b2 = 100 * ab /\ rb * a2 = 100 * ba
  OBVIOUS
<1>9. (h * a2) * b2 = (h * b2) * a2 /\ (l * a2) * b2 = (l * b2) * a2
  OBVIOUS
<1>10. PICK x \in Nat, y \in Nat : x = (h * a2) * b2 /\ y = (l * a2) * b2
  BY <1>6
<1> HIDE DEF ra, rb, ab, ba
<1>11. /\ h * a2 < ra <=> x < 100 * ab
       /\ h * b2 < rb <=> x < 100 * ba
       /\ ra < l * a2 <=> 100 * ab < y
       /\ rb < l * b2 <=> 100 * ba < y
  BY <1>7, <1>8, <1>9, <1>10
<1> QED BY <1>4, <1>5, <1>6, <1>11

LEMMA MidwayIsBetween ==
  ASSUME NEW a \in Ratios, NEW b \in Ratios, AtMost(a, b)
  PROVE  /\ Midway(a, b) \in Ratios
         /\ AtMost(a, Midway(a, b)) /\ AtMost(Midway(a, b), b)
<1>1. PICK a1 \in Nat \ {0}, a2 \in Nat \ {0} : a1 = a[1] /\ a2 = a[2]
  BY RatiosAreNumbers
<1>2. PICK b1 \in Nat \ {0}, b2 \in Nat \ {0} : b1 = b[1] /\ b2 = b[2]
  BY RatiosAreNumbers
<1> DEFINE ab == a1 * b2
           ba == b1 * a2
           d == a2 * b2
<1>3. ab \in Nat \ {0} /\ ba \in Nat \ {0} /\ d \in Nat \ {0} /\ ab <= ba
  BY <1>1, <1>2 DEF AtMost, Smaller
<1>4. Midway(a, b) = <<ab + ba, 2 * d>>
  BY <1>1, <1>2 DEF Midway
<1>5. PICK m1 \in Nat \ {0}, m2 \in Nat \ {0} : m1 = ab + ba /\ m2 = 2 * d
  <2> HIDE DEF ab, ba, d
  <2> QED BY <1>3
<1>6. Midway(a, b) \in Ratios /\ Midway(a, b)[1] = m1 /\ Midway(a, b)[2] = m2
  BY <1>4, <1>5 DEF Ratios
<1>7. Smaller(Midway(a, b), a) <=> m1 * a2 < a1 * m2
  BY <1>1, <1>6 DEF Smaller
<1>8. Smaller(b, Midway(a, b)) <=> b1 * m2 < m1 * b2
  BY <1>2, <1>6 DEF Smaller
<1>9. m1 * a2 = ab * a2 + ba * a2 /\ a1 * m2 = 2 * (ab * a2)
  BY <1>5
<1>10. m1 * b2 = ab * b2 + ba * b2 /\ b1 * m2 = 2 * (ba * b2)
  BY <1>5
<1>11. /\ ab * a2 \in Nat /\ ba * a2 \in Nat /\ ab * b2 \in Nat /\ ba * b2 \in Nat
       /\ ab * a2 <= ba * a2 /\ ab * b2 <= ba * b2
  <2> HIDE DEF ab, ba, d
  <2>1. (ba < ab <=> ba * a2 < ab * a2) /\ (ba < ab <=> ba * b2 < ab * b2)
    BY <1>3, ProductsAreOrdered
  <2>2. ab * a2 \in Nat /\ ba * a2 \in Nat /\ ab * b2 \in Nat /\ ba * b2 \in Nat
    BY <1>3
  <2> QED BY <1>3, <2>1, <2>2
<1>12. PICK x \in Nat, y \in Nat, z \in Nat, w \in Nat : x = ab * a2 /\ y = ba * a2 /\ z = ab * b2 /\ w = ba * b2
  BY <1>11
<1> HIDE DEF ab, ba, d
<1>13. ~Smaller(Midway(a, b), a)
  BY <1>7, <1>9, <1>11, <1>12
<1>14. ~Smaller(b, Midway(a, b))
  BY <1>8, <1>10, <1>11, <1>12
<1> QED BY <1>6, <1>13, <1>14 DEF AtMost

-----------------------------------------------------------------------------
(* The k-th value of finitely many ratios is one: a highest of a set, by    *)
(* counting what is not above it, and then the lowest of those with k such. *)
Beneath(f, x) == {y \in DOMAIN f : Smaller(f[y], f[x])}
UpTo(f, x)  == {y \in DOMAIN f : AtMost(f[y], f[x])}
Onward(f, x) == {y \in DOMAIN f : AtMost(f[x], f[y])}

LEMMA CountsGrow ==
  ASSUME NEW S, IsFiniteSet(S), NEW T \in SUBSET S, NEW x \in S, x \notin T
  PROVE  Cardinality(T) \in Nat /\ Cardinality(S) \in Nat /\ Cardinality(T) < Cardinality(S)
<1>1. IsFiniteSet(T) /\ Cardinality(T) <= Cardinality(S) /\ (Cardinality(S) = Cardinality(T) => S = T)
  BY FS_Subset
<1>2. Cardinality(T) \in Nat /\ Cardinality(S) \in Nat
  BY <1>1, FS_CardinalityType
<1> QED BY <1>1, <1>2

LEMMA HighestOfFinite ==
  ASSUME NEW S, NEW f \in [S -> Ratios], NEW U \in SUBSET S, IsFiniteSet(U), U # {}
  PROVE  \E x \in U : \A y \in U : AtMost(f[y], f[x])
<1> DEFINE under(x) == {y \in U : AtMost(f[y], f[x])}
           counts == {Cardinality(under(x)) : x \in U}
<1>1. \A x \in U : IsFiniteSet(under(x)) /\ Cardinality(under(x)) \in Nat /\ Cardinality(under(x)) <= Cardinality(U)
  <2> TAKE x \in U
  <2>1. under(x) \in SUBSET U
    OBVIOUS
  <2> HIDE DEF under
  <2>2. IsFiniteSet(under(x)) /\ Cardinality(under(x)) <= Cardinality(U)
    BY <2>1, FS_Subset
  <2> QED BY <2>2, FS_CardinalityType
<1>2. Cardinality(U) \in Nat
  BY FS_CardinalityType
<1>3. counts \in SUBSET Int /\ counts # {} /\ \A n \in counts : n <= Cardinality(U)
  <2> HIDE DEF under
  <2> QED BY <1>1, <1>2
<1>4. PICK n \in counts : \A m \in counts : n >= m
  <2> HIDE DEF counts
  <2>1. PICK b \in Int : b = Cardinality(U)
    BY <1>2
  <2>2. counts \in SUBSET Int /\ counts # {} /\ \A m \in counts : m <= b
    BY <1>3, <2>1
  <2> QED BY <2>2, GreatestBelow
<1>5. PICK x \in U : n = Cardinality(under(x))
  BY <1>4
<1>6. ASSUME NEW y \in U, ~AtMost(f[y], f[x]) PROVE FALSE
  <2>1. Smaller(f[x], f[y]) /\ f[x] \in Ratios /\ f[y] \in Ratios
    BY <1>6 DEF AtMost
  <2>2. \A z \in U : AtMost(f[z], f[x]) => AtMost(f[z], f[y])
    <3> TAKE z \in U
    <3>1. f[z] \in Ratios
      OBVIOUS
    <3> QED BY <2>1, <3>1, SmallerIsAnOrder
  <2>3. under(x) \in SUBSET under(y)
    BY <2>2
  <2>4. y \in under(y) /\ y \notin under(x)
    BY <1>6, <2>1, SmallerIsAnOrder DEF AtMost
  <2>5. IsFiniteSet(under(y))
    BY <1>1
  <2> HIDE DEF under
  <2>6. Cardinality(under(x)) < Cardinality(under(y))
    BY <2>3, <2>4, <2>5, CountsGrow
  <2>7. Cardinality(under(x)) >= Cardinality(under(y))
    BY <1>4, <1>5
  <2> QED BY <1>1, <2>6, <2>7
<1> QED BY <1>6

LEMMA RankIsFound ==
  ASSUME NEW S, IsFiniteSet(S), NEW f \in [S -> Ratios], NEW k \in 1..Cardinality(S)
  PROVE  \E x \in S : Cardinality(Beneath(f, x)) < k /\ Cardinality(UpTo(f, x)) >= k
<1>0. Cardinality(S) \in Nat /\ DOMAIN f = S
  BY FS_CardinalityType
<1>1. \A x \in S : /\ Beneath(f, x) \in SUBSET S /\ UpTo(f, x) \in SUBSET S
                   /\ IsFiniteSet(Beneath(f, x)) /\ IsFiniteSet(UpTo(f, x))
                   /\ Cardinality(Beneath(f, x)) \in Nat /\ Cardinality(UpTo(f, x)) \in Nat
  <2> TAKE x \in S
  <2>1. Beneath(f, x) \in SUBSET S /\ UpTo(f, x) \in SUBSET S
    BY <1>0 DEF Beneath, UpTo
  <2>2. IsFiniteSet(Beneath(f, x)) /\ IsFiniteSet(UpTo(f, x))
    BY <2>1, FS_Subset
  <2> QED BY <2>1, <2>2, FS_CardinalityType
<1> DEFINE T == {x \in S : Cardinality(UpTo(f, x)) >= k}
           counts == {Cardinality(UpTo(f, x)) : x \in T}
<1>2. T # {}
  <2>1. S # {}
    BY <1>0, FS_EmptySet
  <2>2. PICK x \in S : \A y \in S : AtMost(f[y], f[x])
    BY <2>1, HighestOfFinite
  <2>3. UpTo(f, x) = S
    BY <1>0, <2>2 DEF UpTo
  <2> QED BY <1>0, <2>2, <2>3
<1>3. counts \in SUBSET Nat /\ counts # {}
  BY <1>1, <1>2
<1>4. PICK n \in counts : \A m \in counts : n <= m
  <2> HIDE DEF counts
  <2> QED BY <1>3, LeastNatural
<1>5. PICK x \in T : n = Cardinality(UpTo(f, x))
  BY <1>4
<1>6. ASSUME ~(Cardinality(Beneath(f, x)) < k) PROVE FALSE
  <2>1. Cardinality(Beneath(f, x)) >= k /\ Beneath(f, x) # {}
    BY <1>1, <1>5, <1>6, <1>0, FS_EmptySet
  <2>2. PICK y \in Beneath(f, x) : \A z \in Beneath(f, x) : AtMost(f[z], f[y])
    BY <1>1, <1>5, <2>1, HighestOfFinite
  <2>3. y \in S /\ x \in S /\ Smaller(f[y], f[x]) /\ f[x] \in Ratios /\ f[y] \in Ratios
    BY <1>0, <1>5, <2>2 DEF Beneath
  <2>4. Beneath(f, x) \in SUBSET UpTo(f, y)
    BY <2>2 DEF Beneath, UpTo
  <2>5. UpTo(f, y) \in SUBSET UpTo(f, x)
    <3>1. \A z \in S : AtMost(f[z], f[y]) => AtMost(f[z], f[x])
      <4> TAKE z \in S
      <4>1. f[z] \in Ratios
        OBVIOUS
      <4> QED BY <2>3, <4>1, SmallerIsAnOrder
    <3> QED BY <1>0, <3>1 DEF UpTo
  <2>6. x \in UpTo(f, x) /\ x \notin UpTo(f, y)
    <3>1. AtMost(f[x], f[x]) /\ ~AtMost(f[x], f[y])
      BY <2>3, SmallerIsAnOrder DEF AtMost
    <3> QED BY <1>0, <2>3, <3>1 DEF UpTo
  <2>7. Cardinality(UpTo(f, y)) < Cardinality(UpTo(f, x))
    BY <1>1, <2>3, <2>5, <2>6, CountsGrow
  <2>8. Cardinality(Beneath(f, x)) <= Cardinality(UpTo(f, y))
    BY <1>1, <2>3, <2>4, FS_Subset
  <2>9. Cardinality(UpTo(f, y)) >= k
    BY <1>1, <2>1, <2>3, <2>8
  <2>10. Cardinality(UpTo(f, y)) \in counts
    BY <2>3, <2>9
  <2>11. Cardinality(UpTo(f, x)) <= Cardinality(UpTo(f, y))
    <3> HIDE DEF counts
    <3> QED BY <1>4, <1>5, <2>10
  <2>12. Cardinality(UpTo(f, x)) \in Nat /\ Cardinality(UpTo(f, y)) \in Nat
    BY <1>1, <2>3
  <2> QED BY <2>7, <2>11, <2>12
<1> QED BY <1>5, <1>6

LEMMA RankedIs ==
  ASSUME NEW S, IsFiniteSet(S), NEW f \in [S -> Ratios], NEW k \in 1..Cardinality(S)
  PROVE  \E x \in S : /\ Ranked(f, k) = f[x]
                      /\ Cardinality(Beneath(f, x)) < k /\ Cardinality(UpTo(f, x)) >= k
<1> DEFINE P(x) == Cardinality(Beneath(f, x)) < k /\ Cardinality(UpTo(f, x)) >= k
           c == CHOOSE x \in S : P(x)
<1>1. c \in S /\ P(c)
  <2>1. \E x \in S : P(x)
    BY RankIsFound
  <2> HIDE DEF P
  <2> QED BY <2>1
<1>2. DOMAIN f = S
  OBVIOUS
<1>3. Ranked(f, k) = f[c]
  BY <1>2 DEF Ranked, Beneath, UpTo, AtMost
<1> QED BY <1>1, <1>3

-----------------------------------------------------------------------------
(* The median of finitely many ratios lies between two of them, each with   *)
(* half of them on its outer side.                                         *)
LEMMA HalfIs ==
  ASSUME NEW n \in Nat \ {0}
  PROVE  /\ n \div 2 \in Nat
         /\ n % 2 = 1 => (n \div 2) + 1 \in 1..n /\ n = 2 * (n \div 2) + 1
         /\ n % 2 # 1 => n \div 2 \in 1..n /\ (n \div 2) + 1 \in 1..n /\ n = 2 * (n \div 2)
OBVIOUS

LEMMA RestIs ==
  ASSUME NEW S, IsFiniteSet(S), NEW f \in [S -> Ratios], NEW x \in S
  PROVE  /\ Cardinality(Onward(f, x)) = Cardinality(S) - Cardinality(Beneath(f, x))
         /\ Cardinality(Onward(f, x)) \in Nat /\ Cardinality(Beneath(f, x)) \in Nat
         /\ Cardinality(UpTo(f, x)) \in Nat
<1>1. Beneath(f, x) \in SUBSET S /\ UpTo(f, x) \in SUBSET S /\ Onward(f, x) = S \ Beneath(f, x)
  BY DEF Beneath, UpTo, Onward, AtMost
<1>2. S \cap Beneath(f, x) = Beneath(f, x)
  BY <1>1
<1>3. IsFiniteSet(S \ Beneath(f, x))
      /\ Cardinality(S \ Beneath(f, x)) = Cardinality(S) - Cardinality(S \cap Beneath(f, x))
  BY FS_Difference
<1>4. IsFiniteSet(Beneath(f, x)) /\ IsFiniteSet(UpTo(f, x))
  BY <1>1, FS_Subset
<1> QED BY <1>1, <1>2, <1>3, <1>4, FS_CardinalityType

LEMMA RanksAreOrdered ==
  ASSUME NEW S, IsFiniteSet(S), NEW f \in [S -> Ratios], NEW x \in S, NEW y \in S, NEW k \in Nat,
         Cardinality(Beneath(f, x)) < k, Cardinality(UpTo(f, y)) > k
  PROVE  AtMost(f[x], f[y])
<1>1. SUFFICES ASSUME Smaller(f[y], f[x]) PROVE FALSE
  BY DEF AtMost
<1>2. UpTo(f, y) \in SUBSET Beneath(f, x)
  <2>1. \A z \in S : AtMost(f[z], f[y]) => Smaller(f[z], f[x])
    <3> TAKE z \in S
    <3>1. f[z] \in Ratios /\ f[x] \in Ratios /\ f[y] \in Ratios
      OBVIOUS
    <3> QED BY <1>1, <3>1, SmallerIsAnOrder
  <2> QED BY <2>1 DEF UpTo, Beneath
<1>3. Beneath(f, x) \in SUBSET S
  BY DEF Beneath
<1>4. Cardinality(UpTo(f, y)) <= Cardinality(Beneath(f, x))
  BY <1>2, <1>3, FS_Subset
<1>5. Cardinality(Beneath(f, x)) \in Nat /\ Cardinality(UpTo(f, y)) \in Nat
  BY RestIs
<1> QED BY <1>4, <1>5

LEMMA MedianIsBetween ==
  ASSUME NEW S, IsFiniteSet(S), S # {}, NEW f \in [S -> Ratios]
  PROVE  /\ Median(f) \in Ratios
         /\ \E x \in S, y \in S :
              /\ AtMost(f[x], Median(f)) /\ 2 * Cardinality(UpTo(f, x)) >= Cardinality(S)
              /\ AtMost(Median(f), f[y]) /\ 2 * Cardinality(Onward(f, y)) >= Cardinality(S)
<1>1. PICK n \in Nat \ {0} : n = Cardinality(S)
  BY FS_CardinalityType, FS_EmptySet
<1>2. PICK m \in Nat : m = n \div 2
  BY HalfIs
<1>3. DOMAIN f = S
  OBVIOUS
<1>4. CASE n % 2 = 1
  <2>1. m + 1 \in 1..Cardinality(S) /\ n = 2 * m + 1
    BY <1>1, <1>2, <1>4, HalfIs
  <2>2. PICK x \in S : /\ Ranked(f, m + 1) = f[x]
                       /\ Cardinality(Beneath(f, x)) < m + 1 /\ Cardinality(UpTo(f, x)) >= m + 1
    BY <2>1, RankedIs
  <2>3. Median(f) = f[x]
    BY <1>1, <1>2, <1>3, <1>4, <2>2 DEF Median
  <2>4. f[x] \in Ratios /\ AtMost(f[x], f[x])
    <3>1. f[x] \in Ratios
      OBVIOUS
    <3> QED BY <3>1, SmallerIsAnOrder DEF AtMost
  <2>5. 2 * Cardinality(UpTo(f, x)) >= n /\ 2 * Cardinality(Onward(f, x)) >= n
    <3>1. /\ Cardinality(Onward(f, x)) = n - Cardinality(Beneath(f, x))
          /\ Cardinality(Beneath(f, x)) \in Nat /\ Cardinality(UpTo(f, x)) \in Nat
      BY <1>1, RestIs
    <3> QED BY <2>1, <2>2, <3>1
  <2> QED BY <1>1, <2>3, <2>4, <2>5
<1>5. CASE n % 2 # 1
  <2>1. m \in 1..Cardinality(S) /\ m + 1 \in 1..Cardinality(S) /\ n = 2 * m
    BY <1>1, <1>2, <1>5, HalfIs
  <2>2. PICK x \in S : /\ Ranked(f, m) = f[x]
                       /\ Cardinality(Beneath(f, x)) < m /\ Cardinality(UpTo(f, x)) >= m
    BY <2>1, RankedIs
  <2>3. PICK y \in S : /\ Ranked(f, m + 1) = f[y]
                       /\ Cardinality(Beneath(f, y)) < m + 1 /\ Cardinality(UpTo(f, y)) >= m + 1
    BY <2>1, RankedIs
  <2>4. Median(f) = Midway(f[x], f[y])
    BY <1>1, <1>2, <1>3, <1>5, <2>2, <2>3 DEF Median
  <2>5. f[x] \in Ratios /\ f[y] \in Ratios /\ AtMost(f[x], f[y])
    <3>1. Cardinality(UpTo(f, y)) \in Nat
      BY RestIs
    <3>2. Cardinality(UpTo(f, y)) > m
      BY <2>3, <3>1
    <3> QED BY <2>2, <3>2, RanksAreOrdered
  <2>6. Median(f) \in Ratios /\ AtMost(f[x], Median(f)) /\ AtMost(Median(f), f[y])
    BY <2>4, <2>5, MidwayIsBetween
  <2>7. 2 * Cardinality(UpTo(f, x)) >= n /\ 2 * Cardinality(Onward(f, y)) >= n
    <3>1. /\ Cardinality(Onward(f, y)) = n - Cardinality(Beneath(f, y))
          /\ Cardinality(Beneath(f, y)) \in Nat /\ Cardinality(UpTo(f, x)) \in Nat
      BY <1>1, RestIs
    <3> QED BY <2>1, <2>2, <2>3, <3>1
  <2> QED BY <1>1, <2>6, <2>7
<1> QED BY <1>4, <1>5

LEMMA MedianOfNone ==
  ASSUME NEW f, DOMAIN f = {}
  PROVE  Median(f) = NoNumber /\ ~IsNumber(Median(f))
<1>1. Cardinality(DOMAIN f) = 0
  BY FS_EmptySet
<1> QED BY <1>1 DEF Median, NoNumber, IsNumber

(* So a median is out of the band only if half of them are, on its side,    *)
(* and it is if all of them are.                                           *)
LEMMA MediansAreMajorities ==
  ASSUME NEW S, IsFiniteSet(S), S # {}, NEW f \in [S -> Ratios]
  PROVE  /\ Above(Median(f)) => 2 * Cardinality({p \in S : Above(f[p])}) >= Cardinality(S)
         /\ Below(Median(f)) => 2 * Cardinality({p \in S : Below(f[p])}) >= Cardinality(S)
         /\ (\A p \in S : Above(f[p])) => Above(Median(f))
         /\ (\A p \in S : Below(f[p])) => Below(Median(f))
<1>1. Median(f) \in Ratios
  BY MedianIsBetween
<1>2. PICK x \in S, y \in S :
        /\ AtMost(f[x], Median(f)) /\ 2 * Cardinality(UpTo(f, x)) >= Cardinality(S)
        /\ AtMost(Median(f), f[y]) /\ 2 * Cardinality(Onward(f, y)) >= Cardinality(S)
  BY MedianIsBetween
<1>3. f[x] \in Ratios /\ f[y] \in Ratios
  OBVIOUS
<1>4. /\ Above(f[x]) => Above(Median(f))
      /\ Below(f[y]) => Below(Median(f))
      /\ Above(Median(f)) => Above(f[y])
      /\ Below(Median(f)) => Below(f[x])
  BY <1>1, <1>2, <1>3, BandsAreOrdered
<1>5. Above(f[y]) => Onward(f, y) \in SUBSET {p \in S : Above(f[p])}
  <2>1. \A p \in S : AtMost(f[y], f[p]) /\ Above(f[y]) => Above(f[p])
    <3> TAKE p \in S
    <3>1. f[p] \in Ratios
      OBVIOUS
    <3> QED BY <1>3, <3>1, BandsAreOrdered
  <2> QED BY <2>1 DEF Onward
<1>6. Below(f[x]) => UpTo(f, x) \in SUBSET {p \in S : Below(f[p])}
  <2>1. \A p \in S : AtMost(f[p], f[x]) /\ Below(f[x]) => Below(f[p])
    <3> TAKE p \in S
    <3>1. f[p] \in Ratios
      OBVIOUS
    <3> QED BY <1>3, <3>1, BandsAreOrdered
  <2> QED BY <2>1 DEF UpTo
<1>7. \A T \in SUBSET S : IsFiniteSet(T) /\ Cardinality(T) \in Nat
  BY FS_Subset, FS_CardinalityType
<1>8. ASSUME NEW T \in SUBSET S, NEW W \in SUBSET T, 2 * Cardinality(W) >= Cardinality(S)
      PROVE  2 * Cardinality(T) >= Cardinality(S)
  <2>1. Cardinality(W) <= Cardinality(T)
    BY <1>7, FS_Subset
  <2>2. W \in SUBSET S /\ Cardinality(W) \in Nat /\ Cardinality(T) \in Nat /\ Cardinality(S) \in Nat
    BY <1>7, FS_CardinalityType
  <2> QED BY <1>8, <2>1, <2>2
<1>9. Above(Median(f)) => 2 * Cardinality({p \in S : Above(f[p])}) >= Cardinality(S)
  <2> DEFINE T == {p \in S : Above(f[p])}
  <2>1. T \in SUBSET S
    OBVIOUS
  <2> HIDE DEF T
  <2>2. Above(Median(f)) => Onward(f, y) \in SUBSET T
    BY <1>4, <1>5 DEF T
  <2> QED BY <1>2, <1>8, <2>1, <2>2 DEF T
<1>10. Below(Median(f)) => 2 * Cardinality({p \in S : Below(f[p])}) >= Cardinality(S)
  <2> DEFINE T == {p \in S : Below(f[p])}
  <2>1. T \in SUBSET S
    OBVIOUS
  <2> HIDE DEF T
  <2>2. Below(Median(f)) => UpTo(f, x) \in SUBSET T
    BY <1>4, <1>6 DEF T
  <2> QED BY <1>2, <1>8, <2>1, <2>2 DEF T
<1> QED BY <1>4, <1>9, <1>10

-----------------------------------------------------------------------------
(* The newest days of a set are those with few at or after them, and the    *)
(* days after the last one inside number s or more exactly when the newest  *)
(* s are outside.                                                          *)
Since(D, d)  == {e \in D : e >= d}
Newest(D, s) == {d \in D : Cardinality(Since(D, d)) <= s}

LEMMA SinceShrinks ==
  ASSUME NEW D \in SUBSET Nat, IsFiniteSet(D), NEW d \in D
  PROVE  /\ IsFiniteSet(Since(D, d)) /\ Cardinality(Since(D, d)) \in 1..Cardinality(D)
         /\ \A e \in D : d < e => Cardinality(Since(D, e)) < Cardinality(Since(D, d))
<1>1. \A e \in D : /\ Since(D, e) \in SUBSET D /\ IsFiniteSet(Since(D, e))
                   /\ Cardinality(Since(D, e)) \in Nat /\ Cardinality(Since(D, e)) <= Cardinality(D)
  <2> TAKE e \in D
  <2>1. Since(D, e) \in SUBSET D
    BY DEF Since
  <2>2. IsFiniteSet(Since(D, e)) /\ Cardinality(Since(D, e)) <= Cardinality(D)
    BY <2>1, FS_Subset
  <2> QED BY <2>1, <2>2, FS_CardinalityType
<1>2. d \in Since(D, d) /\ d \in Nat
  BY DEF Since
<1>3. Cardinality(Since(D, d)) # 0
  BY <1>1, <1>2, FS_EmptySet
<1>4. ASSUME NEW e \in D, d < e PROVE Cardinality(Since(D, e)) < Cardinality(Since(D, d))
  <2>1. \A x \in D : x \in Nat /\ (x >= e => x >= d) /\ ~(d >= e)
    BY <1>4
  <2>2. Since(D, e) \in SUBSET Since(D, d) /\ d \notin Since(D, e)
    BY <2>1 DEF Since
  <2> QED BY <1>1, <1>2, <2>2, CountsGrow
<1>5. Cardinality(D) \in Nat
  BY FS_CardinalityType
<1> QED BY <1>1, <1>3, <1>4, <1>5

LEMMA NewestAreMany ==
  ASSUME NEW D \in SUBSET Nat, IsFiniteSet(D), NEW s \in Nat, s <= Cardinality(D)
  PROVE  Cardinality(Newest(D, s)) = s
<1>1. PICK n \in Nat : n = Cardinality(D)
  BY FS_CardinalityType
<1> DEFINE f == [d \in D |-> Cardinality(Since(D, d))]
           T == Newest(D, s)
           g == [d \in T |-> Cardinality(Since(D, d))]
<1>2. f \in [D -> 1..n]
  BY <1>1, SinceShrinks
<1>3. \A d \in D, e \in D : f[d] = f[e] => d = e
  <2> TAKE d \in D, e \in D
  <2>1. d \in Nat /\ e \in Nat /\ f[d] \in Int /\ f[e] \in Int
    BY <1>2
  <2>2. (d < e => f[e] < f[d]) /\ (e < d => f[d] < f[e])
    BY SinceShrinks
  <2> HIDE DEF f
  <2> QED BY <2>1, <2>2
<1>4. IsFiniteSet(1..n) /\ Cardinality(1..n) = n
  BY FS_Interval
<1>5. f \in Surjection(D, 1..n)
  <2>1. f \in Injection(D, 1..n)
    <3> HIDE DEF f
    <3> QED BY <1>2, <1>3 DEF Injection, IsInjective
  <2> HIDE DEF f
  <2> QED BY <1>1, <1>4, <2>1, FS_Injection
<1>6. T \in SUBSET D /\ \A d \in D : d \in T <=> f[d] <= s
  BY DEF Newest
<1>7. g \in [T -> 1..s] /\ \A d \in T : g[d] = f[d]
  <2>1. \A d \in T : g[d] = f[d] /\ f[d] \in 1..n /\ f[d] <= s
    BY <1>2, <1>6
  <2>2. \A d \in T : g[d] \in 1..s
    <3> HIDE DEF f, g, T
    <3> QED BY <2>1
  <2> QED BY <2>1, <2>2
<1>8. ASSUME NEW k \in 1..s PROVE \E d \in T : g[d] = k
  <2>1. k \in 1..n
    BY <1>1
  <2>2. PICK d \in D : f[d] = k
    <3> HIDE DEF f
    <3> QED BY <1>5, <2>1 DEF Surjection
  <2> HIDE DEF f, g, T
  <2> QED BY <1>6, <1>7, <2>2
<1>9. g \in Bijection(T, 1..s)
  <2>1. \A d \in T, e \in T : g[d] = g[e] => d = e
    <3> HIDE DEF f, g, T
    <3> QED BY <1>3, <1>6, <1>7
  <2> HIDE DEF f, g, T
  <2> QED BY <1>7, <1>8, <2>1 DEF Bijection, Injection, Surjection, IsInjective
<1>10. IsFiniteSet(T)
  <2> HIDE DEF T
  <2> QED BY <1>6, FS_Subset
<1>11. Cardinality(1..s) = Cardinality(T)
  <2> HIDE DEF T, g
  <2> QED BY <1>9, <1>10, FS_Bijection DEF ExistsBijection
<1>12. Cardinality(1..s) = s
  BY FS_Interval
<1> QED BY <1>11, <1>12

LEMMA RunIsOfTheNewest ==
  ASSUME NEW D \in SUBSET Nat, IsFiniteSet(D), NEW Out \in SUBSET D, NEW s \in Nat,
         NEW Run, Run = {d \in D : \A e \in D \ Out : e < d}
  PROVE  Cardinality(Run) >= s <=> Cardinality(Newest(D, s)) = s /\ Newest(D, s) \subseteq Out
<1>1. Run \in SUBSET D /\ Newest(D, s) \in SUBSET D
  BY DEF Newest
<1>2. IsFiniteSet(Run) /\ Cardinality(Run) \in Nat /\ Cardinality(Run) <= Cardinality(D) /\ Cardinality(D) \in Nat
  BY <1>1, FS_Subset, FS_CardinalityType
<1>3. \A d \in D : Cardinality(Since(D, d)) \in Nat /\ IsFiniteSet(Since(D, d))
  BY SinceShrinks
<1>4. ASSUME Cardinality(Run) >= s PROVE Cardinality(Newest(D, s)) = s /\ Newest(D, s) \subseteq Out
  <2>1. Cardinality(Newest(D, s)) = s
    BY <1>2, <1>4, NewestAreMany
  <2>2. ASSUME NEW d \in Newest(D, s), d \notin Out PROVE FALSE
    <3>1. d \in D /\ d \in Nat /\ Cardinality(Since(D, d)) <= s /\ d \in Since(D, d)
      BY DEF Newest, Since
    <3>2. Run \in SUBSET Since(D, d) /\ d \notin Run
      <4>1. \A x \in Run : x \in D /\ x \in Nat /\ d < x
        BY <1>1, <2>2, <3>1
      <4>2. \A x \in Run : x >= d /\ x # d
        BY <3>1, <4>1
      <4> QED BY <4>1, <4>2 DEF Since
    <3>3. Cardinality(Run) < Cardinality(Since(D, d))
      BY <1>3, <3>1, <3>2, CountsGrow
    <3> QED BY <1>2, <1>3, <1>4, <3>1, <3>3
  <2> QED BY <2>1, <2>2
<1>5. ASSUME Cardinality(Newest(D, s)) = s, Newest(D, s) \subseteq Out PROVE Cardinality(Run) >= s
  <2>1. ASSUME NEW d \in Newest(D, s), NEW e \in D \ Out PROVE e < d
    <3>1. d \in D /\ d \in Nat /\ e \in D /\ e \in Nat /\ Cardinality(Since(D, d)) <= s
      BY DEF Newest
    <3>2. ~(Cardinality(Since(D, e)) <= s) /\ d # e
      BY <1>5, <2>1, <3>1 DEF Newest
    <3>3. d < e => Cardinality(Since(D, e)) < Cardinality(Since(D, d))
      BY <3>1, SinceShrinks
    <3> QED BY <1>3, <3>1, <3>2, <3>3
  <2>2. Newest(D, s) \in SUBSET Run
    BY <1>1, <2>1
  <2>3. Cardinality(Newest(D, s)) <= Cardinality(Run)
    BY <1>2, <2>2, FS_Subset
  <2> QED BY <1>5, <2>3
<1> QED BY <1>4, <1>5

-----------------------------------------------------------------------------
(* What the watch reads.  A pair no day lacks has a value on each of them,  *)
(* so its ratio is a number as soon as the baseline has a day.             *)
PollsAre == pollsKept \in [1..LastDay -> Seq([Pairs -> Nat])]

LEMMA DaysAreFinite ==
  ASSUME PollsAre
  PROVE  /\ AllDays \in SUBSET Nat /\ IsFiniteSet(AllDays) /\ AllDays \subseteq 1..LastDay
         /\ BaseDays \subseteq AllDays
         /\ Whole \subseteq AllDays /\ Whole \in SUBSET Nat /\ IsFiniteSet(Whole)
<1>1. AllDays \subseteq 1..LastDay /\ BaseDays \subseteq AllDays /\ Whole \subseteq AllDays
  BY DEF PollsAre, AllDays, BaseDays, Whole
<1>2. IsFiniteSet(1..LastDay) /\ 1..LastDay \subseteq Nat
  BY CalendarAssumption, FS_Interval
<1> QED BY <1>1, <1>2, FS_Subset

LEMMA DailyIsRead ==
  ASSUME PollsAre, NEW d \in 1..LastDay, NEW p \in Pairs
  PROVE  IF \E i \in DOMAIN pollsKept[d] : pollsKept[d][i][p] > 0
         THEN DailyByPair(d, p) \in Ratios ELSE ~IsNumber(DailyByPair(d, p))
<1> DEFINE seen == {i \in DOMAIN pollsKept[d] : pollsKept[d][i][p] > 0}
           f == [i \in seen |-> <<pollsKept[d][i][p], 1>>]
<1>1. pollsKept[d] \in Seq([Pairs -> Nat])
  BY DEF PollsAre
<1>2. PICK n \in Nat : n = Len(pollsKept[d]) /\ DOMAIN pollsKept[d] = 1..n
  BY <1>1
<1>3. IsFiniteSet(seen)
  <2>1. IsFiniteSet(1..n)
    BY <1>2, FS_Interval
  <2> QED BY <1>2, <2>1, FS_Subset
<1>4. \A i \in seen : pollsKept[d][i][p] \in Nat \ {0}
  <2> TAKE i \in seen
  <2>1. pollsKept[d][i] \in [Pairs -> Nat]
    BY <1>1
  <2>2. pollsKept[d][i][p] \in Nat /\ pollsKept[d][i][p] > 0
    BY <2>1
  <2> QED BY <2>2
<1>5. DailyByPair(d, p) = Median(f) /\ DOMAIN f = seen
  BY DEF DailyByPair
<1>6. f \in [seen -> Ratios]
  BY <1>4 DEF Ratios
<1>7. CASE seen # {}
  <2>1. Median(f) \in Ratios
    <3> HIDE DEF f, seen
    <3> QED BY <1>3, <1>6, <1>7, MedianIsBetween
  <2> QED BY <1>5, <1>7, <2>1
<1>8. CASE seen = {}
  <2>1. ~IsNumber(Median(f))
    <3> HIDE DEF f, seen
    <3> QED BY <1>5, <1>8, MedianOfNone
  <2> QED BY <1>5, <1>8, <2>1
<1> QED BY <1>7, <1>8

LEMMA WindowIsRead ==
  ASSUME PollsAre, NEW days \in SUBSET (1..LastDay), NEW p \in Pairs,
         \A d \in days : DailyByPair(d, p) \in Ratios
  PROVE  IF days # {} THEN PairOver(p, days) \in Ratios ELSE ~IsNumber(PairOver(p, days))
<1> DEFINE f == [d \in days |-> DailyByPair(d, p)]
<1>1. {d \in days : IsNumber(DailyByPair(d, p))} = days
  BY RatiosAreNumbers
<1>2. PairOver(p, days) = Median(f) /\ DOMAIN f = days
  BY <1>1 DEF PairOver
<1>3. f \in [days -> Ratios]
  OBVIOUS
<1>4. IsFiniteSet(days)
  <2>1. IsFiniteSet(1..LastDay)
    BY CalendarAssumption, FS_Interval
  <2> QED BY <2>1, FS_Subset
<1> HIDE DEF f
<1> QED BY <1>2, <1>3, <1>4, MedianIsBetween, MedianOfNone

LEMMA RatiosMultiply ==
  ASSUME NEW a \in Ratios, NEW b \in Ratios
  PROVE  <<a[1] * b[2], a[2] * b[1]>> \in Ratios
<1>1. PICK a1 \in Nat \ {0}, a2 \in Nat \ {0} : a1 = a[1] /\ a2 = a[2]
  BY RatiosAreNumbers
<1>2. PICK b1 \in Nat \ {0}, b2 \in Nat \ {0} : b1 = b[1] /\ b2 = b[2]
  BY RatiosAreNumbers
<1>3. a1 * b2 \in Nat \ {0} /\ a2 * b1 \in Nat \ {0}
  OBVIOUS
<1> QED BY <1>1, <1>2, <1>3 DEF Ratios

SteadyPairs == {p \in Pairs : \A d \in AllDays : \E i \in DOMAIN pollsKept[d] : pollsKept[d][i][p] > 0}

LEMMA BasketIsSteady ==
  ASSUME PollsAre
  PROVE  /\ FixedBasket = SteadyPairs /\ SteadyPairs \in SUBSET Pairs /\ IsFiniteSet(SteadyPairs)
         /\ \A p \in SteadyPairs, d \in AllDays : DailyByPair(d, p) \in Ratios
<1>1. ASSUME NEW p \in Pairs, NEW d \in AllDays
      PROVE  /\ IsNumber(DailyByPair(d, p)) <=> \E i \in DOMAIN pollsKept[d] : pollsKept[d][i][p] > 0
             /\ (\E i \in DOMAIN pollsKept[d] : pollsKept[d][i][p] > 0) => DailyByPair(d, p) \in Ratios
  <2>1. d \in 1..LastDay
    BY DaysAreFinite
  <2> QED BY <2>1, DailyIsRead, RatiosAreNumbers
<1>2. FixedBasket = SteadyPairs
  BY <1>1 DEF FixedBasket, SteadyPairs
<1>3. SteadyPairs \in SUBSET Pairs
  BY DEF SteadyPairs
<1>4. IsFiniteSet(SteadyPairs)
  BY <1>3, EstimatesAssumption, FS_Subset
<1>5. \A p \in SteadyPairs, d \in AllDays : DailyByPair(d, p) \in Ratios
  BY <1>1 DEF SteadyPairs
<1> QED BY <1>2, <1>3, <1>4, <1>5

LEMMA RatioIsRead ==
  ASSUME PollsAre, NEW p \in SteadyPairs, NEW d \in AllDays
  PROVE  IF BaseDays # {} THEN PairRatio(p, {d}) \in Ratios ELSE ~IsNumber(PairRatio(p, {d}))
<1>1. p \in Pairs /\ \A e \in AllDays : DailyByPair(e, p) \in Ratios
  BY BasketIsSteady
<1>2. {d} \in SUBSET (1..LastDay) /\ BaseDays \in SUBSET (1..LastDay) /\ BaseDays \subseteq AllDays
  BY DaysAreFinite
<1> DEFINE w == PairOver(p, {d})
           b == PairOver(p, BaseDays)
<1>3. w \in Ratios
  BY <1>1, <1>2, WindowIsRead
<1>4. IF BaseDays # {} THEN b \in Ratios ELSE ~IsNumber(b)
  BY <1>1, <1>2, WindowIsRead
<1>5. PairRatio(p, {d}) = IF IsNumber(w) /\ IsNumber(b) THEN <<w[1] * b[2], w[2] * b[1]>> ELSE NoNumber
  BY DEF PairRatio
<1> HIDE DEF w, b
<1>6. CASE BaseDays # {}
  <2>1. b \in Ratios /\ IsNumber(w) /\ IsNumber(b)
    BY <1>3, <1>4, <1>6, RatiosAreNumbers
  <2>2. <<w[1] * b[2], w[2] * b[1]>> \in Ratios
    BY <1>3, <2>1, RatiosMultiply
  <2>3. PairRatio(p, {d}) = <<w[1] * b[2], w[2] * b[1]>>
    BY <1>5, <2>1
  <2> QED BY <1>6, <2>2, <2>3
<1>7. CASE BaseDays = {}
  <2>1. PairRatio(p, {d}) = NoNumber
    BY <1>4, <1>5, <1>7
  <2> QED BY <1>7, <2>1 DEF NoNumber, IsNumber
<1> QED BY <1>6, <1>7

(* A day's score, over pairs no day lacks.                                  *)
LEMMA ScoresAreMedians ==
  ASSUME PollsAre, NEW d \in AllDays
  PROVE  /\ BaseDays = {} \/ SteadyPairs = {} => ~IsNumber(Elevation(FixedBasket, {d}))
         /\ BaseDays # {} =>
              /\ [p \in SteadyPairs |-> PairRatio(p, {d})] \in [SteadyPairs -> Ratios]
              /\ Elevation(FixedBasket, {d}) = Median([p \in SteadyPairs |-> PairRatio(p, {d})])
<1> DEFINE read == {p \in FixedBasket : IsNumber(PairRatio(p, {d}))}
           f == [p \in read |-> PairRatio(p, {d})]
           g == [p \in SteadyPairs |-> PairRatio(p, {d})]
<1>1. FixedBasket = SteadyPairs
  BY BasketIsSteady
<1>2. Elevation(FixedBasket, {d}) = Median(f) /\ DOMAIN f = read
  BY DEF Elevation
<1>3. ASSUME BaseDays # {} PROVE read = SteadyPairs /\ g \in [SteadyPairs -> Ratios]
  BY <1>1, <1>3, RatioIsRead, RatiosAreNumbers
<1>4. ASSUME BaseDays = {} \/ SteadyPairs = {} PROVE read = {}
  BY <1>1, <1>4, RatioIsRead
<1>5. ASSUME BaseDays # {} PROVE f = g
  BY <1>3, <1>5
<1>6. ASSUME BaseDays = {} \/ SteadyPairs = {} PROVE ~IsNumber(Median(f))
  <2> HIDE DEF f
  <2> QED BY <1>2, <1>4, <1>6, MedianOfNone
<1> HIDE DEF f, read
<1> QED BY <1>2, <1>3, <1>5, <1>6

-----------------------------------------------------------------------------
(* The pairs out of the band on a day, on one side of it.                   *)
UpOn(d)   == {p \in SteadyPairs : Above(PairRatio(p, {d}))}
DownOn(d) == {p \in SteadyPairs : Below(PairRatio(p, {d}))}

LEMMA ScoresAreMajorities ==
  ASSUME PollsAre, NEW d \in AllDays
  PROVE  /\ OutsideBand(Elevation(FixedBasket, {d}))
              => /\ SteadyPairs # {}
                 /\ \/ 2 * Cardinality(UpOn(d)) >= Cardinality(SteadyPairs)
                    \/ 2 * Cardinality(DownOn(d)) >= Cardinality(SteadyPairs)
         /\ SteadyPairs # {} /\ (UpOn(d) = SteadyPairs \/ DownOn(d) = SteadyPairs) => OutsideBand(Elevation(FixedBasket, {d}))
<1> DEFINE f == [p \in SteadyPairs |-> PairRatio(p, {d})]
           e == Elevation(FixedBasket, {d})
<1>1. IsFiniteSet(SteadyPairs)
  BY BasketIsSteady
<1>2. OutsideBand(e) => BaseDays # {} /\ SteadyPairs # {}
  BY ScoresAreMedians DEF OutsideBand, Above, Below
<1>3. ASSUME SteadyPairs # {}, UpOn(d) = SteadyPairs \/ DownOn(d) = SteadyPairs PROVE BaseDays # {}
  <2>1. PICK p \in SteadyPairs : TRUE
    BY <1>3
  <2>2. IsNumber(PairRatio(p, {d}))
    BY <1>3, <2>1 DEF UpOn, DownOn, Above, Below
  <2> QED BY <2>1, <2>2, RatioIsRead
<1>4. BaseDays # {} => f \in [SteadyPairs -> Ratios] /\ e = Median(f)
  BY ScoresAreMedians
<1>5. UpOn(d) = {p \in SteadyPairs : Above(f[p])} /\ DownOn(d) = {p \in SteadyPairs : Below(f[p])}
  BY DEF UpOn, DownOn
<1> HIDE DEF f, e
<1>6. ASSUME OutsideBand(e)
      PROVE  /\ SteadyPairs # {}
             /\ \/ 2 * Cardinality(UpOn(d)) >= Cardinality(SteadyPairs)
                \/ 2 * Cardinality(DownOn(d)) >= Cardinality(SteadyPairs)
  <2>1. SteadyPairs # {} /\ f \in [SteadyPairs -> Ratios] /\ e = Median(f)
    BY <1>2, <1>4, <1>6
  <2>2. Above(Median(f)) \/ Below(Median(f))
    BY <1>6, <2>1 DEF OutsideBand
  <2> QED BY <1>1, <1>5, <2>1, <2>2, MediansAreMajorities
<1>7. ASSUME SteadyPairs # {}, UpOn(d) = SteadyPairs \/ DownOn(d) = SteadyPairs PROVE OutsideBand(e)
  <2>1. f \in [SteadyPairs -> Ratios] /\ e = Median(f)
    BY <1>3, <1>4, <1>7
  <2>2. (\A p \in SteadyPairs : Above(f[p])) \/ (\A p \in SteadyPairs : Below(f[p]))
    BY <1>5, <1>7
  <2>3. Above(Median(f)) \/ Below(Median(f))
    BY <1>1, <1>7, <2>1, <2>2, MediansAreMajorities
  <2> QED BY <2>1, <2>3 DEF OutsideBand
<1> QED BY <1>6, <1>7 DEF e

LEMMA AlarmsAreMajorities ==
  ASSUME PollsAre
  PROVE  AlarmIsAMajority
<1> DEFINE s == SustainedDays
           newest == {d \in Whole : Cardinality({e \in Whole : e >= d}) <= s}
<1>1. /\ Whole \in SUBSET Nat /\ IsFiniteSet(Whole) /\ Whole \subseteq AllDays
      /\ s \in Nat \ {0}
  BY DaysAreFinite, BandAssumption
<1>2. newest = Newest(Whole, s) /\ newest \in SUBSET Whole
  BY DEF Newest, Since
<1>3. DaysOutside \in SUBSET Whole /\ \A d \in Whole : d \in DaysOutside <=> OutsideBand(Elevation(FixedBasket, {d}))
  BY DEF DaysOutside
<1>4. RunOutside >= s <=> Cardinality(newest) = s /\ newest \subseteq DaysOutside
  <2> DEFINE run == {d \in Whole : \A e \in Whole \ DaysOutside : e < d}
  <2>1. RunOutside = Cardinality(run)
    BY DEF RunOutside
  <2>2. Cardinality(run) >= s <=> Cardinality(Newest(Whole, s)) = s /\ Newest(Whole, s) \subseteq DaysOutside
    <3>1. PICK r : r = run
      OBVIOUS
    <3> HIDE DEF run
    <3> QED BY <1>1, <1>3, <3>1, RunIsOfTheNewest DEF run
  <2> QED BY <1>2, <2>1, <2>2
<1>5. Cardinality(newest) = s => newest # {}
  BY <1>1, FS_EmptySet
<1> HIDE DEF newest
<1>6. ASSUME Firing
      PROVE  /\ SteadyPairs # {} /\ Cardinality(newest) = s
             /\ \A d \in newest : \/ 2 * Cardinality(UpOn(d)) >= Cardinality(SteadyPairs)
                                  \/ 2 * Cardinality(DownOn(d)) >= Cardinality(SteadyPairs)
  <2>1. Cardinality(newest) = s /\ newest \subseteq DaysOutside /\ newest # {}
    BY <1>4, <1>5, <1>6 DEF Firing
  <2>2. \A d \in newest : d \in AllDays /\ OutsideBand(Elevation(FixedBasket, {d}))
    BY <1>1, <1>2, <1>3, <2>1
  <2> QED BY <2>1, <2>2, ScoresAreMajorities
<1>7. ASSUME ~Refuses, SteadyPairs # {}, Cardinality(newest) = s,
             (\A d \in newest : UpOn(d) = SteadyPairs) \/ (\A d \in newest : DownOn(d) = SteadyPairs)
      PROVE  Firing
  <2>1. \A d \in newest : OutsideBand(Elevation(FixedBasket, {d}))
    BY <1>1, <1>2, <1>7, ScoresAreMajorities
  <2>2. newest \subseteq DaysOutside
    BY <1>2, <1>3, <2>1
  <2> QED BY <1>4, <1>7, <2>2 DEF Firing
<1> QED BY <1>6, <1>7 DEF AlarmIsAMajority, SteadyPairs, UpOn, DownOn, newest

LEMMA PollsAreAlways == SigmaSpec => []PollsAre
<1>1. SigmaInit => PollsAre
  BY DEF SigmaInit, PollsAre
<1>2. PollsAre /\ [SigmaNext]_sigmaVars => PollsAre'
  <2> SUFFICES ASSUME PollsAre, [SigmaNext]_sigmaVars PROVE PollsAre'
    OBVIOUS
  <2>1. CASE PollIsKept
    <3>1. PICK e \in Estimates : pollsKept' = [pollsKept EXCEPT ![dayNow] = Append(@, e)]
      BY <2>1 DEF PollIsKept
    <3>2. e \in [Pairs -> Nat]
      BY EstimatesAssumption
    <3>3. \A d \in 1..LastDay : pollsKept[d] \in Seq([Pairs -> Nat]) /\ Append(pollsKept[d], e) \in Seq([Pairs -> Nat])
      BY <3>2 DEF PollsAre
    <3> QED BY <3>1, <3>3 DEF PollsAre
  <2>2. CASE UNCHANGED pollsKept
    BY <2>2 DEF PollsAre
  <2> QED BY <2>1, <2>2 DEF SigmaNext, MidnightPasses, sigmaVars
<1> QED BY <1>1, <1>2, PTL DEF SigmaSpec

(* The feed's alarm answers for what its pairs did: it is up only if on     *)
(* each of the newest whole days half of the pairs no day lacks left the    *)
(* band on one side, and it is up if all of them did - whatever pairs come  *)
(* and go, and whatever the day still running holds (ops/feed-watch.ts,     *)
(* scripts/feed-sigma.ts).                                                 *)
THEOREM AlarmsAreAlwaysMajorities == SigmaSpec => []AlarmIsAMajority
<1>1. PollsAre => AlarmIsAMajority
  BY AlarmsAreMajorities
<1> QED BY <1>1, PollsAreAlways, PTL
=============================================================================
