------------------------------- MODULE Front -------------------------------
(***************************************************************************)
(* The front door of the desk: how an address becomes a managed account    *)
(* and stops being one.  Three parties act on three stores and meet only   *)
(* there:                                                                  *)
(*   the web tier (web/server.ts) writes what people ask for into its own  *)
(*     database, and reads the ledger;                                     *)
(*   the executor (exec/runner.ts) reads those requests, and writes the    *)
(*     ledger and the keystore;                                            *)
(*   an operator's commands (scripts/queue.ts) write both databases.       *)
(* The executor's loop is split where it awaits the venue and where it     *)
(* writes the keystore; between any two steps of it people ask, approve,   *)
(* deposit, the clock moves, or the process dies.                          *)
(*                                                                         *)
(* Every account here is live: DRY_RUN is off and LIVE_SELF_SERVICE is on. *)
(* What the executor trades meanwhile is Tick's subject, and what an       *)
(* account row remembers of its risk is AccountRisk's.                     *)
(***************************************************************************)
EXTENDS AccessQueue

CONSTANTS
  Members,      \* the accounts that are connected when the model begins
  Limits,       \* the settings a person may choose
  FileLimits,   \* the settings an accounts/<address>.json holds
  Deeds,        \* what people may do besides connecting
  Failures,     \* the kinds of failure that may happen
  MaxClock,     \* bound: the last instant
  MaxMoves,     \* bound: requests, posts, deposits and approvals
  MaxFailures   \* bound: failures and crashes

ASSUME LimitsAssumption == Limits \subseteq Nat /\ FileLimits \in Limits
ASSUME MembersAssumption == Members \subseteq Accounts
ASSUME DeedsAssumption == Deeds \subseteq {"join", "link", "post", "invite", "admit", "limits", "pin"}
ASSUME FailureAssumption == Failures \subseteq {"crash", "venue", "ledger"}
ASSUME FrontBoundsAssumption == MaxClock \in Nat /\ MaxMoves \in Nat /\ MaxFailures \in Nat

VARIABLES
  \* web.sqlite
  connectAsk,   \* connection_requests
  unlinkAsk,    \* unlink_requests
  limitsAsk,    \* settings_requests
  \* The disk, and the venue.
  sealed,       \* keystore.json: the number of the key sealed for an address
  beat,         \* exec-heartbeat.json: the live accounts it names
  pins,         \* the addresses with an accounts/<address>.json
  approved,     \* the agents each account has approved
  funded,       \* the accounts holding enough
  \* The executor.
  pc,           \* where its loop stands
  todo,         \* the accounts its step has still to take
  asked,        \* the limits of the connect requests its step has read
  keystore,     \* the keystore in memory
  working,      \* the one serviceConnectRequests is building
  writing,      \* an address whose key is saved and whose row is not
  managed,      \* the limits each managed account is traded on
  \* History.
  chosen,       \* the limits each owner last chose and was given
  minted, moves, failures

webVars      == <<entry, connectAsk, unlinkAsk, limitsAsk>>
ledgerVars   == <<admission, acct, conn>>
keyVars      == <<sealed, keystore, working, writing, minted>>
worldVars    == <<approved, funded>>
processVars  == <<pc, todo, asked>>
vars == <<clock, webVars, ledgerVars, keyVars, worldVars, processVars, beat, pins, managed,
          chosen, moves, failures>>

-----------------------------------------------------------------------------
NoAsk == [at |-> None, limits |-> None]
Managed == {a \in Accounts : managed[a] # None}
Nobody == None

Stages == {"down", "boot", "idle", "release", "queue", "mint", "connect", "changes"}

TypeOK ==
  /\ clock \in 0..MaxClock
  /\ entry \in [Accounts -> [joined : Nat \cup {None}, invited : BOOLEAN, posted : BOOLEAN,
                             linked : BOOLEAN, by : Accounts \cup {None}]]
  /\ admission \in [Accounts -> Nat \cup {None}]
  /\ acct \in [Accounts -> [limits : Limits \cup {None}, at : Nat \cup {None}]]
  /\ conn \in [Accounts -> [status : {"none", "awaiting_approval", "active", "disconnected"},
                            agent : Nat \cup {None}, limits : Limits \cup {None}]]
  /\ connectAsk \in [Accounts -> [at : Nat \cup {None}, limits : Limits \cup {None}]]
  /\ limitsAsk \in [Accounts -> [at : Nat \cup {None}, limits : Limits \cup {None}]]
  /\ unlinkAsk \in [Accounts -> Nat \cup {None}]
  /\ {sealed, keystore, working} \subseteq [Accounts -> Nat \cup {None}]
  /\ \A a \in Accounts : sealed[a] <= minted
  /\ writing \in Accounts \cup {Nobody}
  /\ beat \subseteq Accounts /\ pins \subseteq Accounts /\ funded \subseteq Accounts
  /\ approved \in [Accounts -> SUBSET Nat]
  /\ pc \in Stages
  /\ todo \subseteq Accounts /\ asked \in [Accounts -> Limits \cup {None}]
  /\ managed \in [Accounts -> Limits \cup {None}]
  /\ chosen \in [Accounts -> Limits \cup {None}]
  /\ minted \in Nat /\ moves \in 0..MaxMoves /\ failures \in 0..MaxFailures

Empty == [a \in Accounts |-> None]
OfMembers(value, other) == [a \in Accounts |-> IF a \in Members THEN value ELSE other]
Founded(l) == [at |-> 0, limits |-> l]

(* The executor is down.  Its members were admitted, sealed a key (which   *)
(* bears their own number), funded and connected at instant 0.             *)
Init ==
  /\ clock = 0
  /\ entry = OfMembers([NoEntry EXCEPT !.joined = 0], NoEntry)
  /\ \E l \in Limits :
       /\ connectAsk = OfMembers(Founded(l), NoAsk)
       /\ acct = OfMembers([limits |-> l, at |-> 0], NoAccount)
       /\ conn = [a \in Accounts |-> IF a \in Members
                                   THEN [status |-> "active", agent |-> a, limits |-> l] ELSE NoConn]
  /\ limitsAsk = [a \in Accounts |-> NoAsk] /\ unlinkAsk = Empty
  /\ admission = OfMembers(HoldTime, None)
  /\ sealed = [a \in Accounts |-> IF a \in Members THEN a ELSE None]
  /\ keystore = Empty /\ working = Empty /\ writing = Nobody
  /\ minted = Max(Accounts)
  /\ approved = [a \in Accounts |-> Members \cap {a}] /\ funded = Members
  /\ pc = "down" /\ todo = {} /\ asked = Empty
  /\ beat = Members /\ pins = {} /\ managed = Empty /\ chosen = Empty
  /\ moves = 0 /\ failures = 0

-----------------------------------------------------------------------------
(* What people ask the web tier for.  Each request is one row per address, *)
(* the later one replacing the earlier.                                    *)
Joined(a, referrer) ==
  IF a \in Queued THEN entry
  ELSE [entry EXCEPT ![a] = [NoEntry EXCEPT !.joined = clock, !.by = referrer]]

(* /api/queue/join, with somebody's code or without.                       *)
JoinQueue(a) ==
  /\ "join" \in Deeds /\ a \notin Queued
  /\ \E r \in (Queued \ {a}) \cup {None} : entry' = Joined(a, r)
  /\ UNCHANGED <<connectAsk, unlinkAsk, limitsAsk, chosen>>

(* The end of /api/x/callback: one X account for each wallet.              *)
LinkX(a) ==
  /\ "link" \in Deeds /\ ~entry[a].linked
  /\ entry' = [Joined(a, None) EXCEPT ![a].linked = TRUE]
  /\ UNCHANGED <<connectAsk, unlinkAsk, limitsAsk, chosen>>

(* /api/x/post, once the post is found to be theirs and to link to us.     *)
RecordPost(a) ==
  /\ "post" \in Deeds /\ a \in Queued /\ entry[a].linked /\ ~entry[a].posted
  /\ entry' = [entry EXCEPT ![a].posted = TRUE]
  /\ UNCHANGED <<connectAsk, unlinkAsk, limitsAsk, chosen>>

(* /api/connect/start.  A connected account is refused; one that is not    *)
(* admitted is put in line; the rest withdraw an unlink not yet serviced.  *)
AskConnect(a) ==
  /\ a \notin Connected
  /\ IF Admitted(a)
     THEN /\ \E l \in Limits : connectAsk' = [connectAsk EXCEPT ![a] = [at |-> clock, limits |-> l]]
          /\ unlinkAsk' = [unlinkAsk EXCEPT ![a] = None]
          /\ chosen' = [chosen EXCEPT ![a] = None]
          /\ UNCHANGED entry
     ELSE /\ a \notin Queued
          /\ entry' = Joined(a, None)
          /\ UNCHANGED <<connectAsk, unlinkAsk, chosen>>
  /\ UNCHANGED limitsAsk

(* /api/connect/unlink, where canUnlink lets it.                           *)
CanUnlink(a) ==
  /\ a \notin pins
  /\ a \in Connected \cup InFlight \/ unlinkAsk[a] # None

AskUnlink(a) ==
  /\ CanUnlink(a)
  /\ unlinkAsk' = [unlinkAsk EXCEPT ![a] = clock]
  /\ UNCHANGED <<entry, connectAsk, limitsAsk, chosen>>

(* /api/settings, where canChangeSettings lets it.                         *)
UnlinkPending(a) == unlinkAsk[a] # None /\ conn[a].status # "disconnected"

AskLimits(a) ==
  /\ "limits" \in Deeds
  /\ a \in Connected /\ ~UnlinkPending(a) /\ a \notin pins
  /\ \E l \in Limits \ {acct[a].limits} :
       limitsAsk' = [limitsAsk EXCEPT ![a] = [at |-> clock, limits |-> l]]
  /\ UNCHANGED <<entry, connectAsk, unlinkAsk, chosen>>

Asks(a) ==
  /\ moves < MaxMoves /\ moves' = moves + 1
  /\ \/ JoinQueue(a) \/ LinkX(a) \/ RecordPost(a) \/ AskConnect(a) \/ AskUnlink(a) \/ AskLimits(a)
  /\ UNCHANGED <<clock, ledgerVars, keyVars, worldVars, processVars, beat, pins, managed, failures>>

(* npm run queue -- invite, and admit: the second counts the slots off the *)
(* heartbeat file.                                                         *)
OperatorInvites(a) ==
  /\ "invite" \in Deeds /\ ~entry[a].invited
  /\ entry' = [Joined(a, None) EXCEPT ![a].invited = TRUE]
  /\ UNCHANGED admission

OperatorAdmits(a) ==
  /\ "admit" \in Deeds /\ a \notin Connected
  /\ Cardinality(beat \cup Held) < MaxLive
  /\ entry' = Joined(a, None)
  /\ admission' = [admission EXCEPT ![a] = clock + HoldTime]

OperatorActs(a) ==
  /\ moves < MaxMoves /\ moves' = moves + 1
  /\ OperatorInvites(a) \/ OperatorAdmits(a)
  /\ UNCHANGED <<clock, connectAsk, unlinkAsk, limitsAsk, acct, conn, keyVars, worldVars,
                 processVars, beat, pins, managed, chosen, failures>>

(* On the venue the owner deposits, and approves the agent the screen      *)
(* shows them.                                                             *)
Deposits(a) ==
  /\ a \notin funded
  /\ funded' = funded \cup {a}
  /\ UNCHANGED approved

Approves(a) ==
  /\ conn[a].status = "awaiting_approval" /\ conn[a].agent \notin approved[a] \cup {None}
  /\ approved' = [approved EXCEPT ![a] = @ \cup {conn[a].agent}]
  /\ UNCHANGED funded

OwnerActs(a) ==
  /\ moves < MaxMoves /\ moves' = moves + 1
  /\ Deposits(a) \/ Approves(a)
  /\ UNCHANGED <<clock, webVars, ledgerVars, keyVars, processVars, beat, pins, managed, chosen, failures>>

(* An operator drops an accounts/<address>.json beside the executor.        *)
OperatorPins(a) ==
  /\ "pin" \in Deeds /\ a \notin pins /\ moves < MaxMoves
  /\ pins' = pins \cup {a} /\ moves' = moves + 1
  /\ UNCHANGED <<clock, webVars, ledgerVars, keyVars, worldVars, processVars, beat, managed,
                 chosen, failures>>

TimePasses ==
  /\ clock < MaxClock
  /\ clock' = clock + 1
  /\ UNCHANGED <<webVars, ledgerVars, keyVars, worldVars, processVars, beat, pins, managed,
                 chosen, moves, failures>>

-----------------------------------------------------------------------------
(* The executor: main() and its loop.                                      *)
(* SUPERSEDED: of a person's connect and unlink requests the later stands, *)
(* the unlink when they are of one instant.                                *)
WantsIn_EvenUnlinked(a) == connectAsk[a] # NoAsk

WantsIn(a) == connectAsk[a] # NoAsk /\ unlinkAsk[a] < connectAsk[a].at
WantsOut(a) == unlinkAsk[a] # None /\ unlinkAsk[a] >= connectAsk[a].at

AddressesToManage == pins \cup {a \in Accounts : conn[a].status \in {"awaiting_approval", "active"}}

(* One failure of a kind the run allows.                                   *)
Fails(kind) == kind \in Failures /\ failures < MaxFailures /\ failures' = failures + 1

Start ==
  /\ pc = "down"
  /\ pc' = "boot" /\ todo' = AddressesToManage /\ asked' = Empty
  /\ keystore' = sealed /\ working' = sealed
  /\ UNCHANGED <<clock, webVars, ledgerVars, sealed, writing, minted, worldVars, beat, pins, managed,
                 chosen, moves, failures>>

(* The process dies: what it held in memory is gone.                       *)
Crash ==
  /\ pc # "down" /\ Fails("crash")
  /\ pc' = "down" /\ todo' = {} /\ asked' = Empty
  /\ keystore' = Empty /\ working' = Empty /\ writing' = Nobody /\ managed' = Empty
  /\ UNCHANGED <<clock, webVars, ledgerVars, sealed, minted, worldVars, beat, pins, chosen, moves>>

-----------------------------------------------------------------------------
(* connectAccount.  A file beats the row, an account that was live before  *)
(* keeps its place, and a key nobody has approved waits.                   *)
LimitsOf(a) == IF a \in pins THEN FileLimits ELSE conn[a].limits

HasSlot_EvenIncumbents(a) == a \in Allowlist \/ Cardinality(Managed) < MaxLive

HasSlot(a) == a \in Allowlist \cup Connected \/ Cardinality(Managed) < MaxLive

(* resolveMode, then resolveAgentKey, then the agents the venue lists.     *)
Arms(a) == a \in funded /\ HasSlot(a)
HasKey(a) == keystore[a] # None
Ready(a) == Arms(a) /\ HasKey(a) /\ keystore[a] \in approved[a]

(* The row is made or found, syncAccountSettings writes the limits into a  *)
(* row that shows others, and the connection is active.                    *)
RowAtConnect(a) ==
  IF acct[a].limits = LimitsOf(a) THEN acct[a] ELSE [limits |-> LimitsOf(a), at |-> clock]

Connect(a) ==
  /\ Ready(a) /\ LimitsOf(a) # None
  /\ acct' = [acct EXCEPT ![a] = RowAtConnect(a)]
  /\ conn' = IF conn[a] = NoConn THEN conn ELSE [conn EXCEPT ![a].status = "active"]
  /\ managed' = [managed EXCEPT ![a] = LimitsOf(a)]
  /\ UNCHANGED failures

WaitsFor(a, status) ==
  /\ conn' = IF conn[a] = NoConn THEN conn ELSE [conn EXCEPT ![a].status = status]
  /\ UNCHANGED <<acct, managed>>

(* What a pass over the accounts to manage does with the next of them.  A  *)
(* reason that is only not-yet puts the account back to waiting; any other *)
(* does so in the loop and not at boot.                                    *)
Boot(a) ==
  \/ Connect(a)
  \/ ~Ready(a) /\ UNCHANGED failures
     /\ WaitsFor(a, IF Arms(a) /\ ~HasKey(a) THEN conn[a].status ELSE "awaiting_approval")
  \/ Fails("venue") /\ WaitsFor(a, conn[a].status)

InLoop(a) ==
  \/ Connect(a)
  \/ ~Ready(a) /\ UNCHANGED failures /\ WaitsFor(a, "awaiting_approval")
  \/ Fails("venue") /\ WaitsFor(a, "awaiting_approval")

ConnectNext ==
  /\ pc \in {"boot", "connect"} /\ todo # {}
  /\ LET a == Min(todo)
     IN  /\ IF pc = "boot" THEN Boot(a) ELSE InLoop(a)
         /\ todo' = todo \ {a}
  /\ UNCHANGED <<clock, webVars, admission, keyVars, worldVars, pc, asked, beat, pins, chosen, moves>>

(* Nobody is left to connect: the loop begins, or goes on to the changes.  *)
ConnectDone ==
  /\ pc \in {"boot", "connect"} /\ todo = {}
  /\ pc' = IF pc = "boot" THEN "idle" ELSE "changes"
  /\ UNCHANGED <<clock, webVars, ledgerVars, keyVars, worldVars, todo, asked, beat, pins, managed,
                 chosen, moves, failures>>

-----------------------------------------------------------------------------
(* releaseUnlinked.  The cancel of an account's resting orders may throw,  *)
(* which leaves it managed for the next loop to try.                       *)
LoopBegins ==
  /\ pc = "idle"
  /\ pc' = "release" /\ todo' = {a \in Accounts : WantsOut(a)}
  /\ UNCHANGED <<clock, webVars, ledgerVars, keyVars, worldVars, asked, beat, pins, managed,
                 chosen, moves, failures>>

(* store.disconnectAccount; the admission is not touched.                  *)
Disconnect(a) ==
  /\ acct' = [acct EXCEPT ![a] = NoAccount]
  /\ conn' = IF conn[a] = NoConn THEN conn ELSE [conn EXCEPT ![a].status = "disconnected"]
  /\ managed' = [managed EXCEPT ![a] = None]

HeededUnlink(a) == a \notin pins

ReleaseNext ==
  /\ pc = "release" /\ todo # {}
  /\ \E a \in todo :
       /\ todo' = todo \ {a}
       /\ \/ /\ HeededUnlink(a)
             /\ a \in Managed \cup Connected \cup InFlight
             /\ Disconnect(a) /\ UNCHANGED failures
          \/ /\ ~HeededUnlink(a) \/ a \notin Managed \cup Connected \cup InFlight
             /\ UNCHANGED <<acct, conn, managed, failures>>
          \/ /\ a \in Managed /\ HeededUnlink(a) /\ Fails("venue")
             /\ UNCHANGED <<acct, conn, managed>>
  /\ UNCHANGED <<clock, webVars, admission, keyVars, worldVars, pc, asked, beat, pins, chosen, moves>>

ReleaseDone ==
  /\ pc = "release" /\ todo = {}
  /\ pc' = "queue"
  /\ UNCHANGED <<clock, webVars, ledgerVars, keyVars, worldVars, todo, asked, beat, pins, managed,
                 chosen, moves, failures>>

(* serviceQueue, and then serviceConnectRequests reads the requests.       *)
QueuePass ==
  /\ pc = "queue"
  /\ ServiceQueue(Managed)
  /\ pc' = "mint"
  /\ todo' = {a \in Accounts : WantsIn(a)}
  /\ asked' = [a \in Accounts |-> IF WantsIn(a) THEN connectAsk[a].limits ELSE None]
  /\ working' = keystore
  /\ UNCHANGED <<clock, webVars, acct, conn, sealed, keystore, writing, minted, worldVars, beat, pins,
                 managed, chosen, moves, failures>>

-----------------------------------------------------------------------------
(* serviceConnectRequests, one request at a time.  The connection row      *)
(* keeps the agent it names; a request of a key not yet sealed seals one,  *)
(* on disk, before the row that names it is written.                       *)
Upsert(a, agent, limits) ==
  conn' = [conn EXCEPT ![a] = [status |-> "awaiting_approval",
                               agent |-> IF agent = None THEN @.agent ELSE agent,
                               limits |-> limits]]

KnownAgent(a) == IF conn[a].agent # None THEN conn[a].agent ELSE working[a]

MintsFor(a) == conn[a].status # "active" /\ Admitted(a)

SkipRequest ==
  \E a \in todo :
    /\ ~MintsFor(a)
    /\ todo' = todo \ {a}
    /\ UNCHANGED <<conn, sealed, working, writing, minted>>

AskAgain ==
  \E a \in todo :
    /\ MintsFor(a) /\ working[a] # None
    /\ Upsert(a, KnownAgent(a), asked[a])
    /\ todo' = todo \ {a}
    /\ UNCHANGED <<sealed, working, writing, minted>>

(* putKey and saveKeystore, which writes every key the pass holds.         *)
SaveKeystore_AtTheEnd(ks) == sealed' = sealed

SaveKeystore(ks) == sealed' = ks

SealKey ==
  \E a \in todo :
    /\ MintsFor(a) /\ working[a] = None
    /\ minted' = minted + 1
    /\ working' = [working EXCEPT ![a] = minted']
    /\ SaveKeystore(working')
    /\ writing' = a /\ todo' = todo \ {a}
    /\ UNCHANGED conn

WriteRow ==
  /\ Upsert(writing, working[writing], asked[writing])
  /\ writing' = Nobody
  /\ UNCHANGED <<todo, sealed, working, minted>>

MintNext ==
  /\ pc = "mint"
  /\ IF writing = Nobody THEN SkipRequest \/ AskAgain \/ SealKey ELSE WriteRow
  /\ UNCHANGED <<clock, webVars, admission, acct, keystore, worldVars, pc, asked, beat, pins, managed,
                 chosen, moves, failures>>

(* The keystore is handed back when the pass returns, and not when a write *)
(* to the ledger throws: the pass ends there, and connecting is skipped.   *)
MintDone ==
  /\ pc = "mint" /\ todo = {} /\ writing = Nobody
  /\ keystore' = working
  /\ pc' = "connect" /\ todo' = AddressesToManage \ Managed /\ asked' = Empty
  /\ UNCHANGED <<clock, webVars, ledgerVars, sealed, working, writing, minted, worldVars, beat, pins,
                 managed, chosen, moves, failures>>

MintFails ==
  /\ pc = "mint" /\ Fails("ledger")
  /\ writing # Nobody \/ \E a \in todo : MintsFor(a) /\ working[a] # None
  /\ pc' = "changes" /\ todo' = {} /\ asked' = Empty
  /\ working' = keystore /\ writing' = Nobody
  /\ UNCHANGED <<clock, webVars, ledgerVars, sealed, keystore, minted, worldVars, beat, pins, managed,
                 chosen, moves>>

-----------------------------------------------------------------------------
(* serviceChangeRequests: limits asked for since those in force were set.  *)
AppliesTo(a) == /\ a \in Managed /\ a \in Connected /\ a \notin pins
                /\ limitsAsk[a].at > acct[a].at

ApplyLimits ==
  /\ pc = "changes"
  /\ LET newer == {a \in Accounts : AppliesTo(a)}
         Given(f) == [a \in Accounts |-> IF a \in newer THEN limitsAsk[a].limits ELSE f[a]]
     IN  /\ acct' = [a \in Accounts |->
                       IF a \in newer
                       THEN [limits |-> limitsAsk[a].limits, at |-> Max({clock, limitsAsk[a].at})]
                       ELSE acct[a]]
         /\ conn' = [a \in Accounts |->
                       IF a \in newer /\ conn[a] # NoConn
                       THEN [conn[a] EXCEPT !.limits = limitsAsk[a].limits] ELSE conn[a]]
         /\ managed' = Given(managed)
         /\ chosen' = Given(chosen)
  /\ pc' = "idle" /\ beat' = Managed
  /\ UNCHANGED <<clock, webVars, admission, keyVars, worldVars, todo, asked, pins, moves, failures>>

Executor == \/ Start \/ ConnectNext \/ ConnectDone \/ LoopBegins \/ ReleaseNext \/ ReleaseDone
            \/ QueuePass \/ MintNext \/ MintDone \/ ApplyLimits

Next ==
  \/ \E a \in Accounts : Asks(a) \/ OperatorActs(a) \/ OperatorPins(a) \/ OwnerActs(a)
  \/ TimePasses
  \/ Executor \/ MintFails \/ Crash

(* systemd restarts the executor and its loop never ends.  Failures are    *)
(* not fair, and there are finitely many.                                  *)
Spec == Init /\ [][Next]_vars /\ WF_vars(Executor)

-----------------------------------------------------------------------------
(* The agent a person is asked to approve is the address of the key the    *)
(* desk holds for them on disk, through any crash (connect-queue.ts        *)
(* 120-132).  A ledger that refuses a write is another matter: see         *)
(* OneKeyEach.                                                             *)
AgentIsTheSealedKey ==
  \A a \in Accounts : conn[a].agent # None => conn[a].agent = sealed[a]

(* "Idempotent: an account that already has a keystore entry keeps it"     *)
(* (connect-queue.ts:127).                                                 *)
OneKeyEach == [][\A a \in Accounts : sealed[a] # None => sealed'[a] = sealed[a]]_vars

(* The limits the desk shows for an account are those it is traded on.     *)
InForceIsShown == \A a \in Managed : acct[a].limits = managed[a]

(* The limits an owner chose and was given stay in force until they choose *)
(* others: "an unlink-and-reconnect later starts from what the person last *)
(* chose rather than what they chose months ago" (db.ts:1115-1117).        *)
ChosenIsKept == \A a \in Managed : chosen[a] # None => managed[a] = chosen[a]

Newcomers == {a \in Accounts : admission'[a] # admission[a]}
Serves == pc = "queue" /\ pc' = "mint"

(* The queue admits in the order people are shown: whoever is let in was   *)
(* waiting, and so were admitted all those shown ahead of them.  The web   *)
(* tier and the executor each work out for themselves who waits and how    *)
(* many people each has brought.                                           *)
InTheOrderShown ==
  \A a \in Newcomers :
    /\ PositionShown(a) # None
    /\ \A b \in Accounts : PositionShown(b) \in 1..PositionShown(a) => b \in Newcomers
ServedInTheOrderShown == [][Serves => InTheOrderShown]_vars

(* The same while nobody past the queue was brought by somebody waiting,   *)
(* whom only the executor still counts.                                    *)
CountsAgree == \A a \in StillWaiting : Referrals(a, Queued) = Referrals(a, StillWaiting)
AdmittedInTheOrderShown == [][Serves /\ CountsAgree => InTheOrderShown]_vars

(* Whoever let a held slot lapse does not go before somebody of the same   *)
(* standing who was in line by then and has not had a turn.                *)
SameStanding(a, b) == \A i \in 1..3 : Rank(a, Queued)[i] = Rank(b, Queued)[i]

LapsedLoseTheirTurn ==
  [][Serves => \A a \in Newcomers, b \in WaitingBehind(Managed) \ Newcomers :
       SameStanding(a, b) /\ admission[a] # None /\ admission[b] = None
         => entry[b].joined >= admission[a]]_vars

(* A pass of the queue gives out no slot a live account or another's hold  *)
(* has, whatever a restart, an operator or a late arrival has done before. *)
QueueNeverOverbooks ==
  [][Serves /\ Newcomers # {} => Cardinality(Managed \cup Held') <= MaxLive]_vars

(* An account that was live before keeps its place at a full desk, so its  *)
(* positions are not left to their stops: while its owner stays in, funded *)
(* and approved, it is managed again after every crash.  So is one that an *)
(* operator's file pins while there is room, whatever its owner asked      *)
(* before the file was there: no loop releases what the next takes back.   *)
KeepsItsPlace(a) ==
  <>[](/\ a \in funded /\ sealed[a] \in approved[a]
       /\ (a \in Connected /\ WantsIn(a)) \/ (a \in pins /\ HasSlot(a)))
     => <>[](a \in Managed)
IncumbentsComeBack == \A a \in Accounts : KeepsItsPlace(a)

(* An unlink that stands is carried out for good, once: no pass takes the  *)
(* account back while nobody has asked again.  A pinned account's is not.  *)
ReleasedForGood ==
  \A a \in Accounts : <>[](WantsOut(a) /\ a \notin pins) => <>[](a \notin Managed \cup Connected)

(* The order of the line (exec/queue.ts): nobody is let in ahead of whoever the *)
(* page shows before them, and a lapsed turn is not taken again before others. *)
TurnsAreKept == AdmittedInTheOrderShown /\ LapsedLoseTheirTurn
=============================================================================
