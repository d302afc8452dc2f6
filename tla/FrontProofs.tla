----------------------------- MODULE FrontProofs -----------------------------
(***************************************************************************)
(* What holds of the front door for any addresses, slots, hold time and    *)
(* allowlist: every variable keeps its type, the agent a person is shown   *)
(* is the key the desk holds for them, the line is served in the order it  *)
(* is shown, and a pass of it hands out only what is free; and of the      *)
(* ledger the desk opens for them, for any file an earlier version left:   *)
(* what it says is what was ever recorded in it.                           *)
(***************************************************************************)
EXTENDS Front, Ledger, SequenceTheorems, Extrema

LEMMA NumbersOfTheQueue ==
  /\ Accounts \subseteq Nat
  /\ MaxLive \in Nat /\ HoldTime \in Nat /\ HoldTime > 0
  /\ Max(Accounts) \in Nat /\ \A a \in Accounts : a <= Max(Accounts)
<1>1. Accounts \in SUBSET Int /\ Accounts # {} /\ IsFiniteSet(Accounts) /\ Accounts \subseteq Nat
  BY AccountsAssumption
<1>2. Max(Accounts) \in Accounts /\ \A a \in Accounts : Max(Accounts) >= a
  BY <1>1, MaxOfFinite
<1>3. MaxLive \in Nat /\ HoldTime \in Nat /\ HoldTime > 0
  BY SlotAssumption
<1>4. Max(Accounts) \in Nat /\ \A a \in Accounts : a <= Max(Accounts)
  BY <1>1, <1>2
<1> QED BY <1>1, <1>3, <1>4

-----------------------------------------------------------------------------
(* The types.                                                              *)
Entries  == [joined : Nat \cup {None}, invited : BOOLEAN, posted : BOOLEAN, linked : BOOLEAN,
             by : Accounts \cup {None}]
Rows     == [limits : Limits \cup {None}, at : Nat \cup {None}]
Asked    == [at : Nat \cup {None}, limits : Limits \cup {None}]
ConnRows == [status : {"none", "awaiting_approval", "active", "disconnected"},
             agent : Nat \cup {None}, limits : Limits \cup {None}]

(* No key bears a number that has not been minted, in memory or on disk.   *)
KeysAreMinted == \A a \in Accounts : keystore[a] <= minted /\ working[a] <= minted

Typed == TypeOK /\ KeysAreMinted

(* An account is traded only while its row says it is connected.           *)
ManagedAreConnected == Managed \subseteq Connected

(***************************************************************************)
(* The keys: outside the minting of a request the keystore in memory is    *)
(* the one on disk, and within it the one being built is.  A refused write *)
(* to the ledger would break this: the pass is dropped with the keys it    *)
(* has sealed, and the keystore in memory stays as it was.                 *)
(***************************************************************************)
KeysInSync ==
  /\ pc # "down" => working = sealed
  /\ pc \notin {"down", "mint"} => keystore = sealed
  /\ writing # Nobody => pc = "mint"
  /\ AgentIsTheSealedKey

-----------------------------------------------------------------------------
(* Every variable keeps its type.  Most steps touch one table of the three *)
(* stores; the lemmas of a table say what its statements write.            *)
LEMMA JoinedType ==
  ASSUME TypeOK, NEW a \in Accounts, NEW r \in Accounts \cup {None}
  PROVE  Joined(a, r) \in [Accounts -> Entries]
<1>1. entry \in [Accounts -> Entries] /\ clock \in Nat
  BY DEF TypeOK, Entries
<1>2. [NoEntry EXCEPT !.joined = clock, !.by = r] \in Entries
  BY <1>1 DEF NoEntry, Entries
<1> QED BY <1>1, <1>2 DEF Joined

LEMMA MarkedEntry ==
  ASSUME NEW e \in [Accounts -> Entries], NEW a \in Accounts
  PROVE  /\ [e EXCEPT ![a].linked = TRUE] \in [Accounts -> Entries]
         /\ [e EXCEPT ![a].posted = TRUE] \in [Accounts -> Entries]
         /\ [e EXCEPT ![a].invited = TRUE] \in [Accounts -> Entries]
<1>1. /\ [e[a] EXCEPT !.linked = TRUE] \in Entries
      /\ [e[a] EXCEPT !.posted = TRUE] \in Entries
      /\ [e[a] EXCEPT !.invited = TRUE] \in Entries
  BY DEF Entries
<1> QED BY <1>1

LEMMA InitTyped == Init => Typed
<1> SUFFICES ASSUME Init PROVE Typed
  OBVIOUS
<1>1. entry \in [Accounts -> Entries]
  BY DEF Init, OfMembers, NoEntry, Entries
<1>2. PICK l \in Limits :
        /\ connectAsk = OfMembers(Founded(l), NoAsk)
        /\ acct = OfMembers([limits |-> l, at |-> 0], NoAccount)
        /\ conn = [a \in Accounts |-> IF a \in Members
                                    THEN [status |-> "active", agent |-> a, limits |-> l] ELSE NoConn]
  BY DEF Init
<1>3. connectAsk \in [Accounts -> Asked] /\ acct \in [Accounts -> Rows] /\ limitsAsk \in [Accounts -> Asked]
  BY <1>2 DEF Init, OfMembers, Founded, NoAsk, NoAccount, Rows, Asked
<1>4. conn \in [Accounts -> ConnRows]
  BY <1>2, NumbersOfTheQueue DEF NoConn, ConnRows
<1>5. /\ sealed \in [Accounts -> Nat \cup {None}]
      /\ keystore \in [Accounts -> Nat \cup {None}]
      /\ working \in [Accounts -> Nat \cup {None}]
      /\ minted \in Nat
      /\ \A a \in Accounts : sealed[a] <= minted /\ keystore[a] <= minted /\ working[a] <= minted
  BY NumbersOfTheQueue, AccountsAssumption DEF Init, Empty, None
<1>6. admission \in [Accounts -> Nat \cup {None}] /\ unlinkAsk \in [Accounts -> Nat \cup {None}]
  BY SlotAssumption DEF Init, OfMembers, Empty
<1>7. approved \in [Accounts -> SUBSET Nat]
  BY AccountsAssumption, MembersAssumption DEF Init
<1>8. /\ asked \in [Accounts -> Limits \cup {None}] /\ managed \in [Accounts -> Limits \cup {None}]
      /\ chosen \in [Accounts -> Limits \cup {None}]
      /\ clock \in 0..MaxClock /\ moves \in 0..MaxMoves /\ failures \in 0..MaxFailures
  BY FrontBoundsAssumption DEF Init, Empty
<1>9. /\ writing \in Accounts \cup {Nobody} /\ beat \subseteq Accounts /\ pins \subseteq Accounts
      /\ funded \subseteq Accounts /\ pc \in Stages /\ todo \subseteq Accounts
  BY MembersAssumption DEF Init, Stages
<1> QED
  BY <1>1, <1>3, <1>4, <1>5, <1>6, <1>7, <1>8, <1>9
  DEF Typed, TypeOK, KeysAreMinted, Entries, Rows, Asked, ConnRows

LEMMA AsksTyped == ASSUME Typed, NEW a \in Accounts, Asks(a) PROVE Typed'
<1> USE DEF webVars, ledgerVars, keyVars, worldVars, processVars
<1>1. moves' \in 0..MaxMoves
  BY FrontBoundsAssumption DEF Asks, Typed, TypeOK
<1>2. entry \in [Accounts -> Entries] /\ connectAsk \in [Accounts -> Asked]
      /\ limitsAsk \in [Accounts -> Asked] /\ unlinkAsk \in [Accounts -> Nat \cup {None}]
      /\ chosen \in [Accounts -> Limits \cup {None}] /\ clock \in Nat
  BY DEF Typed, TypeOK, Entries, Asked
<1>3. Queued \subseteq Accounts /\ TypeOK
  BY DEF Queued, Typed
<1>4. CASE JoinQueue(a)
  <2>1. PICK r \in Accounts \cup {None} : entry' = Joined(a, r)
    BY <1>3, <1>4 DEF JoinQueue
  <2>2. entry' \in [Accounts -> Entries]
    BY <1>3, <2>1, JoinedType
  <2> QED BY <1>1, <1>4, <2>2 DEF JoinQueue, Asks, Typed, TypeOK, KeysAreMinted, Entries
<1>5. CASE LinkX(a)
  <2>1. entry' \in [Accounts -> Entries]
    BY <1>3, <1>5, JoinedType, MarkedEntry DEF LinkX
  <2> QED BY <1>1, <1>5, <2>1 DEF LinkX, Asks, Typed, TypeOK, KeysAreMinted, Entries
<1>6. CASE RecordPost(a)
  <2>1. entry' \in [Accounts -> Entries]
    BY <1>2, <1>6, MarkedEntry DEF RecordPost
  <2> QED BY <1>1, <1>6, <2>1 DEF RecordPost, Asks, Typed, TypeOK, KeysAreMinted, Entries
<1>7. CASE AskConnect(a)
  <2>1. entry' \in [Accounts -> Entries]
    BY <1>2, <1>3, <1>7, JoinedType DEF AskConnect
  <2>2. connectAsk' \in [Accounts -> Asked]
    BY <1>2, <1>7 DEF AskConnect, Asked
  <2>3. unlinkAsk' \in [Accounts -> Nat \cup {None}] /\ chosen' \in [Accounts -> Limits \cup {None}]
    BY <1>2, <1>7 DEF AskConnect
  <2> QED BY <1>1, <1>7, <2>1, <2>2, <2>3 DEF AskConnect, Asks, Typed, TypeOK, KeysAreMinted, Entries, Asked
<1>8. CASE AskUnlink(a)
  <2>1. unlinkAsk' \in [Accounts -> Nat \cup {None}]
    BY <1>2, <1>8 DEF AskUnlink
  <2> QED BY <1>1, <1>8, <2>1 DEF AskUnlink, Asks, Typed, TypeOK, KeysAreMinted
<1>9. CASE AskLimits(a)
  <2>1. limitsAsk' \in [Accounts -> Asked]
    BY <1>2, <1>9 DEF AskLimits, Asked
  <2> QED BY <1>1, <1>9, <2>1 DEF AskLimits, Asks, Typed, TypeOK, KeysAreMinted, Asked
<1> QED BY <1>4, <1>5, <1>6, <1>7, <1>8, <1>9 DEF Asks

LEMMA OthersTyped ==
  ASSUME Typed, NEW a \in Accounts, OperatorActs(a) \/ OperatorPins(a) \/ OwnerActs(a)
  PROVE  Typed'
<1> USE DEF webVars, ledgerVars, keyVars, worldVars, processVars
<1>1. moves' \in 0..MaxMoves
  BY FrontBoundsAssumption DEF OperatorActs, OperatorPins, OwnerActs, Typed, TypeOK
<1>2. entry \in [Accounts -> Entries] /\ clock \in Nat /\ conn \in [Accounts -> ConnRows]
      /\ admission \in [Accounts -> Nat \cup {None}] /\ approved \in [Accounts -> SUBSET Nat]
  BY DEF Typed, TypeOK, Entries, ConnRows
<1>3. TypeOK
  BY DEF Typed
<1>4. CASE OperatorActs(a)
  <2>1. entry' \in [Accounts -> Entries]
    <3>1. Joined(a, None) \in [Accounts -> Entries]
      BY <1>3, JoinedType
    <3>2. CASE OperatorInvites(a)
      BY <3>1, <3>2, MarkedEntry DEF OperatorInvites
    <3>3. CASE OperatorAdmits(a)
      BY <3>1, <3>3 DEF OperatorAdmits
    <3> QED BY <1>4, <3>2, <3>3 DEF OperatorActs
  <2>2. admission' \in [Accounts -> Nat \cup {None}]
    BY <1>2, <1>4, SlotAssumption DEF OperatorActs, OperatorInvites, OperatorAdmits
  <2> QED BY <1>1, <1>4, <2>1, <2>2 DEF OperatorActs, Typed, TypeOK, KeysAreMinted, Entries
<1>5. CASE OperatorPins(a)
  BY <1>1, <1>5 DEF OperatorPins, Typed, TypeOK, KeysAreMinted
<1>6. CASE OwnerActs(a)
  <2>1. approved' \in [Accounts -> SUBSET Nat] /\ funded' \subseteq Accounts
    <3>1. CASE Deposits(a)
      BY <1>3, <3>1 DEF Deposits, TypeOK
    <3>2. CASE Approves(a)
      <4>1. conn[a].agent \in Nat
        BY <1>2, <3>2 DEF Approves, ConnRows
      <4> QED BY <1>3, <3>2, <4>1 DEF Approves, TypeOK
    <3> QED BY <1>6, <3>1, <3>2 DEF OwnerActs
  <2> QED BY <1>1, <1>6, <2>1 DEF OwnerActs, Typed, TypeOK, KeysAreMinted
<1> QED BY <1>4, <1>5, <1>6

LEMMA ProcessTyped ==
  ASSUME Typed, TimePasses \/ Start \/ Crash \/ ConnectDone \/ LoopBegins \/ ReleaseDone
  PROVE  Typed'
<1> USE DEF webVars, ledgerVars, keyVars, worldVars, processVars
<1>1. CASE TimePasses
  BY <1>1, FrontBoundsAssumption DEF TimePasses, Typed, TypeOK, KeysAreMinted
<1>2. CASE Start
  BY <1>2 DEF Start, AddressesToManage, Typed, TypeOK, KeysAreMinted, Stages, Empty
<1>3. CASE Crash
  <2>1. failures' \in 0..MaxFailures
    BY <1>3, FrontBoundsAssumption DEF Crash, Fails, Typed, TypeOK
  <2>2. \A a \in Accounts : keystore'[a] <= minted' /\ working'[a] <= minted'
    BY <1>3 DEF Crash, Empty, None, Typed, TypeOK
  <2> QED BY <1>3, <2>1, <2>2 DEF Crash, Typed, TypeOK, KeysAreMinted, Stages, Empty
<1>4. CASE ConnectDone
  BY <1>4 DEF ConnectDone, Typed, TypeOK, KeysAreMinted, Stages
<1>5. CASE LoopBegins
  BY <1>5 DEF LoopBegins, Typed, TypeOK, KeysAreMinted, Stages
<1>6. CASE ReleaseDone
  BY <1>6 DEF ReleaseDone, Typed, TypeOK, KeysAreMinted, Stages
<1> QED BY <1>1, <1>2, <1>3, <1>4, <1>5, <1>6

(* An account is connected, put back to waiting or released.               *)
LEMMA ConnectTyped ==
  ASSUME Typed, NEW a \in Accounts, Connect(a)
  PROVE  /\ acct' \in [Accounts -> Rows] /\ conn' \in [Accounts -> ConnRows]
         /\ managed' \in [Accounts -> Limits \cup {None}]
<1>1. /\ acct \in [Accounts -> Rows] /\ conn \in [Accounts -> ConnRows]
      /\ managed \in [Accounts -> Limits \cup {None}] /\ clock \in Nat
  BY DEF Typed, TypeOK, Rows, ConnRows
<1>2. LimitsOf(a) \in Limits
  BY <1>1, LimitsAssumption DEF Connect, LimitsOf, ConnRows
<1>3. RowAtConnect(a) \in Rows
  BY <1>1, <1>2 DEF RowAtConnect, Rows
<1>4. [conn[a] EXCEPT !.status = "active"] \in ConnRows
  BY <1>1 DEF ConnRows
<1>5. conn' \in [Accounts -> ConnRows]
  BY <1>1, <1>4 DEF Connect
<1> QED BY <1>1, <1>2, <1>3, <1>5 DEF Connect

LEMMA WaitsTyped ==
  ASSUME Typed, NEW a \in Accounts, NEW s \in {"none", "awaiting_approval", "active", "disconnected"},
         WaitsFor(a, s)
  PROVE  /\ acct' \in [Accounts -> Rows] /\ conn' \in [Accounts -> ConnRows]
         /\ managed' \in [Accounts -> Limits \cup {None}]
<1>1. /\ acct \in [Accounts -> Rows] /\ conn \in [Accounts -> ConnRows]
      /\ managed \in [Accounts -> Limits \cup {None}]
  BY DEF Typed, TypeOK, Rows, ConnRows
<1>2. [conn[a] EXCEPT !.status = s] \in ConnRows
  BY <1>1 DEF ConnRows
<1>3. conn' \in [Accounts -> ConnRows]
  BY <1>1, <1>2 DEF WaitsFor
<1> QED BY <1>1, <1>3 DEF WaitsFor

LEMMA NextIsAnAccount == Typed /\ todo # {} => Min(todo) \in Accounts /\ Min(todo) \in todo
<1>1. Typed => todo \subseteq Accounts /\ todo \subseteq Nat
  BY AccountsAssumption DEF Typed, TypeOK
<1> QED BY <1>1, MinOfNaturals

LEMMA ConnectNextTyped == Typed /\ ConnectNext => Typed'
<1> SUFFICES ASSUME Typed, ConnectNext PROVE Typed'
  OBVIOUS
<1> USE DEF webVars, keyVars, worldVars
<1> DEFINE a == Min(todo)
<1>1. a \in Accounts
  BY NextIsAnAccount DEF ConnectNext
<1>2. Boot(a) \/ InLoop(a)
  BY DEF ConnectNext
<1>3. conn[a].status \in {"none", "awaiting_approval", "active", "disconnected"}
  BY <1>1 DEF Typed, TypeOK
<1>4. failures' \in 0..MaxFailures
  BY <1>2, FrontBoundsAssumption DEF Boot, InLoop, Connect, Fails, Typed, TypeOK
<1> HIDE DEF a
<1>5. Connect(a) \/ \E s \in {"none", "awaiting_approval", "active", "disconnected"} : WaitsFor(a, s)
  BY <1>2, <1>3 DEF Boot, InLoop
<1>6. /\ acct' \in [Accounts -> Rows] /\ conn' \in [Accounts -> ConnRows]
      /\ managed' \in [Accounts -> Limits \cup {None}]
  BY <1>1, <1>5, ConnectTyped, WaitsTyped
<1> QED BY <1>4, <1>6 DEF ConnectNext, Typed, TypeOK, KeysAreMinted, Rows, ConnRows

LEMMA ReleaseNextTyped == Typed /\ ReleaseNext => Typed'
<1> SUFFICES ASSUME Typed, ReleaseNext PROVE Typed'
  OBVIOUS
<1> USE DEF webVars, keyVars, worldVars
<1>1. PICK a \in todo : todo' = todo \ {a} /\ (Disconnect(a) \/ UNCHANGED <<acct, conn, managed>>)
  BY DEF ReleaseNext
<1>2. failures' \in 0..MaxFailures
  BY FrontBoundsAssumption DEF ReleaseNext, Fails, Typed, TypeOK
<1>3. /\ acct \in [Accounts -> Rows] /\ conn \in [Accounts -> ConnRows]
      /\ managed \in [Accounts -> Limits \cup {None}] /\ a \in Accounts
  BY DEF Typed, TypeOK, Rows, ConnRows
<1>4. [conn[a] EXCEPT !.status = "disconnected"] \in ConnRows /\ NoAccount \in Rows
  BY <1>3 DEF ConnRows, NoAccount, Rows
<1>5. /\ acct' \in [Accounts -> Rows] /\ conn' \in [Accounts -> ConnRows]
      /\ managed' \in [Accounts -> Limits \cup {None}]
  BY <1>1, <1>3, <1>4 DEF Disconnect
<1> QED BY <1>1, <1>2, <1>5 DEF ReleaseNext, Typed, TypeOK, KeysAreMinted, Rows, ConnRows

LEMMA QueuePassTyped == Typed /\ QueuePass => Typed'
<1> SUFFICES ASSUME Typed, QueuePass PROVE Typed'
  OBVIOUS
<1> USE DEF webVars, worldVars
<1>1. admission' \in [Accounts -> Nat \cup {None}]
  BY SlotAssumption DEF QueuePass, ServiceQueue, Typed, TypeOK
<1>2. asked' \in [Accounts -> Limits \cup {None}]
  BY DEF QueuePass, Typed, TypeOK
<1> QED BY <1>1, <1>2 DEF QueuePass, Typed, TypeOK, KeysAreMinted, Stages

(* A request seals a key with a number of its own, or writes a row.        *)
LEMMA UpsertTyped ==
  ASSUME Typed, NEW a \in Accounts, NEW k \in Nat \cup {None}, NEW l \in Limits \cup {None},
         Upsert(a, k, l)
  PROVE  conn' \in [Accounts -> ConnRows]
<1>1. conn \in [Accounts -> ConnRows]
  BY DEF Typed, TypeOK, ConnRows
<1>2. [status |-> "awaiting_approval", agent |-> IF k = None THEN conn[a].agent ELSE k,
       limits |-> l] \in ConnRows
  BY <1>1 DEF ConnRows
<1> QED BY <1>1, <1>2 DEF Upsert

LEMMA MintNextTyped == Typed /\ MintNext => Typed'
<1> SUFFICES ASSUME Typed, MintNext PROVE Typed'
  OBVIOUS
<1> USE DEF webVars, worldVars
<1>1. /\ conn \in [Accounts -> ConnRows] /\ working \in [Accounts -> Nat \cup {None}]
      /\ asked \in [Accounts -> Limits \cup {None}] /\ minted \in Nat /\ todo \subseteq Accounts
      /\ writing \in Accounts \cup {Nobody}
      /\ sealed \in [Accounts -> Nat \cup {None}]
      /\ \A a \in Accounts : sealed[a] <= minted /\ working[a] <= minted /\ keystore[a] <= minted
  BY DEF Typed, TypeOK, KeysAreMinted, ConnRows
<1>2. CASE SkipRequest
  BY <1>1, <1>2 DEF SkipRequest, MintNext, Typed, TypeOK, KeysAreMinted, ConnRows
<1>3. CASE AskAgain
  <2>1. PICK a \in todo : Upsert(a, KnownAgent(a), asked[a]) /\ todo' = todo \ {a}
    BY <1>3 DEF AskAgain
  <2>2. KnownAgent(a) \in Nat \cup {None}
    BY <1>1 DEF KnownAgent, ConnRows
  <2>3. conn' \in [Accounts -> ConnRows]
    BY <1>1, <2>1, <2>2, UpsertTyped
  <2> QED BY <1>3, <2>1, <2>3 DEF AskAgain, MintNext, Typed, TypeOK, KeysAreMinted, ConnRows
<1>4. CASE SealKey
  <2>1. PICK a \in todo : /\ minted' = minted + 1 /\ working' = [working EXCEPT ![a] = minted']
                          /\ sealed' = working' /\ writing' = a /\ todo' = todo \ {a}
    BY <1>4 DEF SealKey, SaveKeystore
  <2>2. working' \in [Accounts -> Nat \cup {None}] /\ minted' \in Nat
    BY <1>1, <2>1
  <2>3. \A b \in Accounts : working'[b] <= minted' /\ keystore[b] <= minted'
    <3> SUFFICES ASSUME NEW b \in Accounts PROVE working'[b] <= minted' /\ keystore[b] <= minted'
      OBVIOUS
    <3>1. keystore[b] \in Int /\ working[b] \in Int
      BY DEF Typed, TypeOK, None
    <3> QED BY <1>1, <2>1, <3>1
  <2> QED BY <1>1, <1>4, <2>1, <2>2, <2>3 DEF SealKey, MintNext, Typed, TypeOK, KeysAreMinted
<1>5. CASE writing # Nobody /\ WriteRow
  <2>1. writing \in Accounts
    BY <1>1, <1>5
  <2>2. conn' \in [Accounts -> ConnRows]
    BY <1>1, <1>5, <2>1, UpsertTyped DEF WriteRow
  <2> QED BY <1>5, <2>2 DEF WriteRow, MintNext, Typed, TypeOK, KeysAreMinted, ConnRows
<1> QED BY <1>2, <1>3, <1>4, <1>5 DEF MintNext

LEMMA MintEndsTyped == Typed /\ (MintDone \/ MintFails) => Typed'
<1> SUFFICES ASSUME Typed, MintDone \/ MintFails PROVE Typed'
  OBVIOUS
<1> USE DEF webVars, ledgerVars, worldVars
<1>1. CASE MintDone
  BY <1>1 DEF MintDone, AddressesToManage, Typed, TypeOK, KeysAreMinted, Stages, Empty
<1>2. CASE MintFails
  <2>1. failures' \in 0..MaxFailures
    BY <1>2, FrontBoundsAssumption DEF MintFails, Fails, Typed, TypeOK
  <2> QED BY <1>2, <2>1 DEF MintFails, Typed, TypeOK, KeysAreMinted, Stages, Empty
<1> QED BY <1>1, <1>2

LEMMA ApplyLimitsTyped == Typed /\ ApplyLimits => Typed'
<1> SUFFICES ASSUME Typed, ApplyLimits PROVE Typed'
  OBVIOUS
<1> USE DEF webVars, keyVars, worldVars
<1>1. /\ acct \in [Accounts -> Rows] /\ conn \in [Accounts -> ConnRows]
      /\ limitsAsk \in [Accounts -> Asked] /\ clock \in Nat
      /\ managed \in [Accounts -> Limits \cup {None}] /\ chosen \in [Accounts -> Limits \cup {None}]
  BY DEF Typed, TypeOK, Rows, ConnRows, Asked
<1>2. ASSUME NEW a \in Accounts
      PROVE  /\ [limits |-> limitsAsk[a].limits, at |-> Max({clock, limitsAsk[a].at})] \in Rows
             /\ [conn[a] EXCEPT !.limits = limitsAsk[a].limits] \in ConnRows
  <2>1. limitsAsk[a].limits \in Limits \cup {None} /\ limitsAsk[a].at \in Nat \cup {None}
    BY <1>1 DEF Asked
  <2>2. Max({clock, limitsAsk[a].at}) \in Nat
    BY <1>1, <2>1, MaxOfTwo DEF None
  <2>3. conn[a] \in ConnRows
    BY <1>1
  <2> QED BY <2>1, <2>2, <2>3 DEF Rows, ConnRows
<1>3. acct' \in [Accounts -> Rows] /\ conn' \in [Accounts -> ConnRows]
  BY <1>1, <1>2 DEF ApplyLimits
<1>4. managed' \in [Accounts -> Limits \cup {None}] /\ chosen' \in [Accounts -> Limits \cup {None}]
  BY <1>1 DEF ApplyLimits, Asked
<1>5. beat' \subseteq Accounts
  BY DEF ApplyLimits, Managed
<1> QED BY <1>3, <1>4, <1>5 DEF ApplyLimits, Typed, TypeOK, KeysAreMinted, Rows, ConnRows, Stages

LEMMA NextTyped == Typed /\ [Next]_vars => Typed'
<1> SUFFICES ASSUME Typed, [Next]_vars PROVE Typed'
  OBVIOUS
<1>1. CASE UNCHANGED vars
  BY <1>1 DEF vars, webVars, ledgerVars, keyVars, worldVars, processVars, Typed, TypeOK, KeysAreMinted
<1>2. ASSUME NEW a \in Accounts, Asks(a) \/ OperatorActs(a) \/ OperatorPins(a) \/ OwnerActs(a)
      PROVE  Typed'
  BY <1>2, AsksTyped, OthersTyped
<1>3. CASE TimePasses \/ Executor \/ MintFails \/ Crash
  BY <1>3, ProcessTyped, ConnectNextTyped, ReleaseNextTyped, QueuePassTyped, MintNextTyped,
     MintEndsTyped, ApplyLimitsTyped DEF Executor
<1> QED BY <1>1, <1>2, <1>3 DEF Next

(* Every variable of the front door keeps its type, and no key on disk or  *)
(* in memory bears a number that was not minted.                           *)
THEOREM FrontTyped == Spec => []Typed
BY InitTyped, NextTyped, PTL DEF Spec

-----------------------------------------------------------------------------
(* The keys.  A step that is not one of these touches no key, and a row's  *)
(* agent only where its comment says so.                                   *)
KeyStep == Start \/ QueuePass \/ MintNext \/ MintDone \/ MintFails \/ Crash

AgentsStay == \A a \in Accounts : conn'[a].agent = conn[a].agent

LEMMA ConnectKeepsAgents ==
  ASSUME Typed, NEW a \in Accounts, Connect(a) \/ \E s : WaitsFor(a, s)
  PROVE  AgentsStay
<1>1. conn \in [Accounts -> ConnRows]
  BY DEF Typed, TypeOK, ConnRows
<1>2. PICK s : conn' = IF conn[a] = NoConn THEN conn ELSE [conn EXCEPT ![a].status = s]
  BY DEF Connect, WaitsFor
<1>3. [conn[a] EXCEPT !.status = s].agent = conn[a].agent
  BY <1>1 DEF ConnRows
<1> QED BY <1>1, <1>2, <1>3 DEF AgentsStay

LEMMA OtherStepsKeepKeys ==
  ASSUME Typed, [Next]_vars, ~KeyStep
  PROVE  /\ UNCHANGED <<sealed, keystore, working, writing>>
         /\ AgentsStay
         /\ pc' # pc => {pc, pc'} \subseteq Stages \ {"down", "mint"}
<1> USE DEF webVars, ledgerVars, keyVars, worldVars, processVars, AgentsStay
<1>1. CASE UNCHANGED vars
  BY <1>1 DEF vars
<1>2. ASSUME NEW a \in Accounts, Asks(a) \/ OperatorActs(a) \/ OperatorPins(a) \/ OwnerActs(a)
      PROVE  UNCHANGED <<sealed, keystore, working, writing, conn, pc>>
  BY <1>2 DEF Asks, OperatorActs, OperatorPins, OwnerActs
<1>3. CASE TimePasses
  BY <1>3 DEF TimePasses
<1>4. CASE ConnectNext
  <2>1. Min(todo) \in Accounts
    BY <1>4, NextIsAnAccount DEF ConnectNext
  <2>2. AgentsStay
    BY <1>4, <2>1, ConnectKeepsAgents DEF ConnectNext, Boot, InLoop
  <2> QED BY <1>4, <2>2 DEF ConnectNext
<1>5. CASE ConnectDone \/ LoopBegins \/ ReleaseDone
  BY <1>5 DEF ConnectDone, LoopBegins, ReleaseDone, Stages
<1>6. CASE ReleaseNext
  <2>1. conn \in [Accounts -> ConnRows] /\ todo \subseteq Accounts
    BY DEF Typed, TypeOK, ConnRows
  <2>2. \A a \in Accounts : [conn[a] EXCEPT !.status = "disconnected"].agent = conn[a].agent
    BY <2>1 DEF ConnRows
  <2>3. PICK a \in todo : Disconnect(a) \/ UNCHANGED conn
    BY <1>6 DEF ReleaseNext
  <2>4. AgentsStay
    BY <2>1, <2>2, <2>3 DEF Disconnect
  <2> QED BY <1>6, <2>4 DEF ReleaseNext
<1>7. CASE ApplyLimits
  <2>1. conn \in [Accounts -> ConnRows]
    BY DEF Typed, TypeOK, ConnRows
  <2>2. \A a \in Accounts : [conn[a] EXCEPT !.limits = limitsAsk[a].limits].agent = conn[a].agent
    BY <2>1 DEF ConnRows
  <2>3. AgentsStay
    BY <1>7, <2>1, <2>2 DEF ApplyLimits
  <2> QED BY <1>7, <2>3 DEF ApplyLimits, Stages
<1> QED BY <1>1, <1>2, <1>3, <1>4, <1>5, <1>6, <1>7 DEF Next, Executor, KeyStep

LEMMA KeysInitially == Init => KeysInSync
<1> SUFFICES ASSUME Init PROVE KeysInSync
  OBVIOUS
<1>1. \A a \in Accounts : conn[a].agent # None => conn[a].agent = sealed[a]
  BY DEF Init, NoConn
<1> QED BY <1>1 DEF Init, KeysInSync, AgentIsTheSealedKey

(* The minting of a request: a key is sealed only for an account that has  *)
(* none, and a row then names the key that is sealed.                      *)
LEMMA MintingKeepsKeys ==
  ASSUME Typed, KeysInSync, MintNext
  PROVE  /\ KeysInSync'
         /\ \A a \in Accounts : sealed[a] # None => sealed'[a] = sealed[a]
<1>1. /\ conn \in [Accounts -> ConnRows] /\ sealed \in [Accounts -> Nat \cup {None}]
      /\ todo \subseteq Accounts /\ writing \in Accounts \cup {Nobody}
  BY DEF Typed, TypeOK, ConnRows
<1>2. pc = "mint" /\ pc' = "mint" /\ working = sealed
  BY DEF MintNext, KeysInSync
<1>3. \A a \in Accounts : conn[a].agent # None => conn[a].agent = sealed[a]
  BY DEF KeysInSync, AgentIsTheSealedKey
<1>4. CASE SkipRequest
  BY <1>2, <1>4 DEF SkipRequest, KeysInSync, AgentIsTheSealedKey
<1>5. CASE AskAgain
  <2>1. PICK a \in todo : Upsert(a, KnownAgent(a), asked[a])
    BY <1>5 DEF AskAgain
  <2>2. \A b \in Accounts : conn'[b].agent # None => conn'[b].agent = sealed[b]
    BY <1>1, <1>2, <1>3, <2>1 DEF Upsert, KnownAgent
  <2>3. UNCHANGED <<sealed, working, writing>>
    BY <1>5 DEF AskAgain
  <2> QED BY <1>2, <2>2, <2>3 DEF KeysInSync, AgentIsTheSealedKey
<1>6. CASE SealKey
  <2>1. PICK a \in todo : /\ working[a] = None /\ sealed' = [sealed EXCEPT ![a] = minted']
                          /\ working' = sealed' /\ UNCHANGED conn
    BY <1>2, <1>6 DEF SealKey, SaveKeystore
  <2>2. \A b \in Accounts : sealed[b] # None => sealed'[b] = sealed[b]
    BY <1>1, <1>2, <2>1
  <2>3. \A b \in Accounts : conn'[b].agent # None => conn'[b].agent = sealed'[b]
    BY <1>3, <2>1, <2>2
  <2> QED BY <1>2, <2>1, <2>2, <2>3 DEF KeysInSync, AgentIsTheSealedKey
<1>7. CASE writing # Nobody /\ WriteRow
  <2>1. writing \in Accounts
    BY <1>1, <1>7
  <2>2. \A b \in Accounts : conn'[b].agent # None => conn'[b].agent = sealed[b]
    BY <1>1, <1>2, <1>3, <1>7, <2>1 DEF WriteRow, Upsert
  <2>3. UNCHANGED <<sealed, working>> /\ writing' = Nobody
    BY <1>7 DEF WriteRow
  <2> QED BY <1>2, <2>2, <2>3 DEF KeysInSync, AgentIsTheSealedKey
<1> QED BY <1>4, <1>5, <1>6, <1>7 DEF MintNext

LEMMA KeysStayInSync ==
  ASSUME "ledger" \notin Failures, Typed, KeysInSync, [Next]_vars
  PROVE  /\ KeysInSync'
         /\ \A a \in Accounts : sealed[a] # None => sealed'[a] = sealed[a]
<1> USE DEF webVars, ledgerVars, keyVars, worldVars, processVars
<1>1. CASE Start
  BY <1>1 DEF Start, KeysInSync, AgentIsTheSealedKey
<1>2. CASE QueuePass
  BY <1>2 DEF QueuePass, KeysInSync, AgentIsTheSealedKey
<1>3. CASE MintNext
  BY <1>3, MintingKeepsKeys
<1>4. CASE MintDone
  BY <1>4 DEF MintDone, KeysInSync, AgentIsTheSealedKey
<1>5. CASE MintFails
  BY <1>5 DEF MintFails, Fails
<1>6. CASE Crash
  BY <1>6 DEF Crash, KeysInSync, AgentIsTheSealedKey
<1>7. CASE ~KeyStep
  <2>1. /\ UNCHANGED <<sealed, keystore, working, writing>>
        /\ AgentsStay
        /\ pc' # pc => {pc, pc'} \subseteq Stages \ {"down", "mint"}
    BY <1>7, OtherStepsKeepKeys
  <2>2. /\ pc' = "down" <=> pc = "down"
        /\ pc' = "mint" <=> pc = "mint"
    BY <2>1
  <2> QED BY <2>1, <2>2 DEF KeysInSync, AgentIsTheSealedKey, AgentsStay
<1> QED BY <1>1, <1>2, <1>3, <1>4, <1>5, <1>6, <1>7 DEF KeyStep

(* The agent a person is asked to approve is the address of the key the    *)
(* desk holds for them on disk, through any crash and any refusal of the   *)
(* venue: for as long as the ledger takes what it is given.                *)
THEOREM AgentIsSealed ==
  ASSUME "ledger" \notin Failures
  PROVE  Spec => []AgentIsTheSealedKey
<1>1. Init => Typed /\ KeysInSync
  BY InitTyped, KeysInitially
<1>2. Typed /\ KeysInSync /\ [Next]_vars => (Typed /\ KeysInSync)'
  BY NextTyped, KeysStayInSync
<1>3. KeysInSync => AgentIsTheSealedKey
  BY DEF KeysInSync
<1> QED BY <1>1, <1>2, <1>3, PTL DEF Spec

(* And a key that is sealed is never replaced by another.                  *)
THEOREM KeysAreKept ==
  ASSUME "ledger" \notin Failures
  PROVE  Spec => OneKeyEach
<1>1. Init => Typed /\ KeysInSync
  BY InitTyped, KeysInitially
<1>2. Typed /\ KeysInSync /\ [Next]_vars => (Typed /\ KeysInSync)'
  BY NextTyped, KeysStayInSync
<1>3. Typed /\ KeysInSync /\ [Next]_vars
        => [\A a \in Accounts : sealed[a] # None => sealed'[a] = sealed[a]]_vars
  BY KeysStayInSync
<1> QED BY <1>1, <1>2, <1>3, PTL DEF Spec, OneKeyEach

-----------------------------------------------------------------------------
(* The line is a strict total order: it is that of five numbers compared   *)
(* one after the other, the last of which is the address itself.           *)
LEMMA RankIsNumbers ==
  ASSUME TypeOK, NEW a \in Accounts, NEW rows \in SUBSET Accounts
  PROVE  /\ Rank(a, rows) \in Seq(Int) /\ Len(Rank(a, rows)) = 5
         /\ \A i \in 1..5 : Rank(a, rows)[i] \in Int
         /\ Rank(a, rows)[4] = InLineSince(a) /\ Rank(a, rows)[5] = a
         /\ InLineSince(a) = IF entry[a].joined >= LapsedAt(a) THEN entry[a].joined ELSE LapsedAt(a)
<1>1. Referrals(a, rows) \in Nat
  <2>1. IsFiniteSet({b \in rows \ {a} : entry[b].by = a /\ entry[b].linked})
    BY AccountsAssumption, FS_Subset
  <2> QED BY <2>1, FS_CardinalityType DEF Referrals
<1>2. entry[a].joined \in Int /\ LapsedAt(a) \in Int
  BY DEF TypeOK, LapsedAt, None
<1>3. /\ InLineSince(a) = IF entry[a].joined >= LapsedAt(a) THEN entry[a].joined ELSE LapsedAt(a)
      /\ InLineSince(a) \in Int
  BY <1>2, MaxOfTwo DEF InLineSince
<1>4. a \in Int
  BY AccountsAssumption
<1>5. -Referrals(a, rows) \in Int
  BY <1>1
<1> QED BY <1>3, <1>4, <1>5 DEF Rank

LEMMA LineIsOrdered ==
  ASSUME TypeOK, NEW rows \in SUBSET Accounts,
         NEW a \in Accounts, NEW b \in Accounts, NEW c \in Accounts
  PROVE  /\ ~Before(a, a, rows)
         /\ Before(a, b, rows) /\ Before(b, c, rows) => Before(a, c, rows)
         /\ a # b => Before(a, b, rows) \/ Before(b, a, rows)
<1> DEFINE x == Rank(a, rows)
           y == Rank(b, rows)
           z == Rank(c, rows)
<1>1. \A i \in 1..5 : x[i] \in Int /\ y[i] \in Int /\ z[i] \in Int
  BY RankIsNumbers
<1>2. x[5] = a /\ y[5] = b
  BY RankIsNumbers
<1>3. /\ Before(a, a, rows) <=> \E i \in 1..5 : x[i] < x[i] /\ \A j \in 1..(i - 1) : x[j] = x[j]
      /\ Before(a, b, rows) <=> \E i \in 1..5 : x[i] < y[i] /\ \A j \in 1..(i - 1) : x[j] = y[j]
      /\ Before(b, a, rows) <=> \E i \in 1..5 : y[i] < x[i] /\ \A j \in 1..(i - 1) : y[j] = x[j]
      /\ Before(b, c, rows) <=> \E i \in 1..5 : y[i] < z[i] /\ \A j \in 1..(i - 1) : y[j] = z[j]
      /\ Before(a, c, rows) <=> \E i \in 1..5 : x[i] < z[i] /\ \A j \in 1..(i - 1) : x[j] = z[j]
  BY DEF Before
<1> HIDE DEF x, y, z
<1>4. ~Before(a, a, rows)
  BY <1>1, <1>3
<1>5. ASSUME Before(a, b, rows), Before(b, c, rows) PROVE Before(a, c, rows)
  <2>1. PICK i \in 1..5 : x[i] < y[i] /\ \A j \in 1..(i - 1) : x[j] = y[j]
    BY <1>3, <1>5
  <2>2. PICK k \in 1..5 : y[k] < z[k] /\ \A j \in 1..(k - 1) : y[j] = z[j]
    BY <1>3, <1>5
  <2> DEFINE m == IF i <= k THEN i ELSE k
  <2>3. m \in 1..5 /\ x[m] < z[m] /\ \A j \in 1..(m - 1) : x[j] = z[j]
    BY <1>1, <2>1, <2>2
  <2> QED BY <1>3, <2>3
<1>6. ASSUME a # b PROVE Before(a, b, rows) \/ Before(b, a, rows)
  <2> DEFINE Differ == {i \in 1..5 : x[i] # y[i]}
  <2>1. Differ \in SUBSET Nat /\ Differ # {}
    BY <1>2, <1>6
  <2>2. PICK m \in Differ : \A j \in Differ : m <= j
    BY <2>1, LeastNatural
  <2>3. \A j \in 1..(m - 1) : x[j] = y[j]
    BY <2>2
  <2>4. x[m] < y[m] \/ y[m] < x[m]
    BY <1>1, <2>2
  <2> QED BY <1>3, <2>3, <2>4
<1> QED BY <1>4, <1>5, <1>6

LEMMA PlacesAreCounted ==
  ASSUME NEW a \in Accounts, NEW some \in SUBSET Accounts, NEW rows \in SUBSET Accounts
  PROVE  /\ IsFiniteSet({b \in some : Before(b, a, rows)})
         /\ Cardinality({b \in some : Before(b, a, rows)}) \in Nat
         /\ Place(a, some, rows) = 1 + Cardinality({b \in some : Before(b, a, rows)})
         /\ Place(a, some, rows) \in Nat \ {0}
<1>1. IsFiniteSet({b \in some : Before(b, a, rows)})
  BY AccountsAssumption, FS_Subset
<1>2. Cardinality({b \in some : Before(b, a, rows)}) \in Nat
  BY <1>1, FS_CardinalityType
<1> QED BY <1>1, <1>2 DEF Place

(* Whoever is before another has an earlier place.                         *)
LEMMA EarlierPlace ==
  ASSUME TypeOK, NEW some \in SUBSET Accounts, NEW rows \in SUBSET Accounts,
         NEW a \in some, NEW b \in some, Before(b, a, rows)
  PROVE  Place(b, some, rows) < Place(a, some, rows)
<1> DEFINE A == {c \in some : Before(c, a, rows)}
           B == {c \in some : Before(c, b, rows)}
<1>1. a \in Accounts /\ b \in Accounts
  OBVIOUS
<1>2. B \subseteq A /\ b \in A /\ b \notin B
  BY <1>1, LineIsOrdered
<1>3. /\ IsFiniteSet(A) /\ IsFiniteSet(B) /\ Cardinality(A) \in Nat /\ Cardinality(B) \in Nat
      /\ Place(a, some, rows) = 1 + Cardinality(A) /\ Place(b, some, rows) = 1 + Cardinality(B)
  BY <1>1, PlacesAreCounted
<1> HIDE DEF A, B
<1>4. B \subseteq A \ {b} /\ IsFiniteSet(A \ {b}) /\ Cardinality(A \ {b}) = Cardinality(A) - 1
  BY <1>2, <1>3, FS_RemoveElement
<1>5. Cardinality(B) <= Cardinality(A \ {b})
  BY <1>4, FS_Subset
<1> QED BY <1>3, <1>4, <1>5

-----------------------------------------------------------------------------
(* Whoever the executor trades is connected, so that those it leaves       *)
(* waiting are those the web tier says still wait.                         *)
LEMMA ConnectedInitially == Init => ManagedAreConnected
BY DEF Init, ManagedAreConnected, Managed, Empty

LEMMA ManagedStayConnected ==
  ASSUME Typed, ManagedAreConnected, [Next]_vars
  PROVE  ManagedAreConnected'
<1> USE DEF webVars, ledgerVars, keyVars, worldVars, processVars
<1>1. /\ acct \in [Accounts -> Rows] /\ conn \in [Accounts -> ConnRows]
      /\ managed \in [Accounts -> Limits \cup {None}] /\ limitsAsk \in [Accounts -> Asked]
      /\ clock \in Nat /\ todo \subseteq Accounts
  BY DEF Typed, TypeOK, Rows, ConnRows, Asked
<1>2. CASE UNCHANGED <<acct, managed>>
  BY <1>2 DEF ManagedAreConnected, Managed, Connected
<1>3. CASE Crash
  BY <1>3 DEF Crash, ManagedAreConnected, Managed, Empty
<1>4. CASE ConnectNext
  <2> DEFINE a == Min(todo)
  <2>1. a \in Accounts
    BY <1>4, NextIsAnAccount DEF ConnectNext
  <2>2. Connect(a) \/ UNCHANGED <<acct, managed>>
    BY <1>4 DEF ConnectNext, Boot, InLoop, WaitsFor
  <2> HIDE DEF a
  <2>3. CASE Connect(a)
    <3>1. LimitsOf(a) \in Nat
      BY <1>1, <2>1, <2>3, LimitsAssumption DEF Connect, LimitsOf, ConnRows
    <3>2. RowAtConnect(a) # NoAccount
      BY <1>1, <2>1, <3>1 DEF RowAtConnect, NoAccount, None, Rows
    <3>3. acct' = [acct EXCEPT ![a] = RowAtConnect(a)] /\ managed' = [managed EXCEPT ![a] = LimitsOf(a)]
      BY <2>3 DEF Connect
    <3> QED BY <1>1, <2>1, <3>2, <3>3 DEF ManagedAreConnected, Managed, Connected
  <2> QED BY <1>2, <2>2, <2>3
<1>5. CASE ReleaseNext
  <2>1. PICK a \in todo : Disconnect(a) \/ UNCHANGED <<acct, managed>>
    BY <1>5 DEF ReleaseNext
  <2>2. CASE Disconnect(a)
    BY <1>1, <2>2 DEF Disconnect, ManagedAreConnected, Managed, Connected
  <2> QED BY <1>2, <2>1, <2>2
<1>6. CASE ApplyLimits
  <2>1. \A a \in Accounts :
          [limits |-> limitsAsk[a].limits, at |-> Max({clock, limitsAsk[a].at})] # NoAccount
    <3> SUFFICES ASSUME NEW a \in Accounts PROVE Max({clock, limitsAsk[a].at}) \in Nat
      BY DEF NoAccount, None
    <3>1. limitsAsk[a].at \in Int
      BY <1>1 DEF Asked, None
    <3> QED BY <1>1, <3>1, MaxOfTwo
  <2>2. \A a \in Accounts : /\ acct[a] # NoAccount => acct'[a] # NoAccount
                            /\ managed'[a] # managed[a] => AppliesTo(a)
    BY <1>1, <1>6, <2>1 DEF ApplyLimits
  <2> QED BY <2>2 DEF AppliesTo, ManagedAreConnected, Managed, Connected
<1>7. ASSUME NEW a \in Accounts, Asks(a) \/ OperatorActs(a) \/ OperatorPins(a) \/ OwnerActs(a)
      PROVE  UNCHANGED <<acct, managed>>
  BY <1>7 DEF Asks, OperatorActs, OperatorPins, OwnerActs
<1>8. CASE TimePasses \/ Start \/ ConnectDone \/ LoopBegins \/ ReleaseDone \/ QueuePass \/ MintDone \/ MintFails
  BY <1>2, <1>8 DEF TimePasses, Start, ConnectDone, LoopBegins, ReleaseDone, QueuePass, MintDone, MintFails
<1>9. CASE MintNext
  BY <1>2, <1>9 DEF MintNext
<1> QED BY <1>2, <1>3, <1>4, <1>5, <1>6, <1>7, <1>8, <1>9 DEF Next, Executor, vars

LEMMA WaitingIsShown ==
  ASSUME TypeOK, ManagedAreConnected
  PROVE  WaitingBehind(Managed) = StillWaiting
<1>1. Held = {a \in Accounts : admission[a] > clock} \ Connected /\ clock \in Nat
      /\ admission \in [Accounts -> Nat \cup {None}]
  BY DEF Held, TypeOK
<1>2. ASSUME NEW a \in Queued
      PROVE  a \in Past(Managed) <=> Admitted(a)
  <2>1. a \in Accounts
    BY DEF Queued
  <2>2. a \in Past(Managed) <=> a \in Allowlist \cup Connected \cup InFlight \/ a \in Held
    BY <2>1 DEF Past, ManagedAreConnected
  <2>3. a \in Held => admission[a] # None /\ admission[a] > clock
    BY <1>1, <2>1 DEF None
  <2>4. CASE a \in Allowlist \cup Connected \cup InFlight
    <3>1. AdmissionState(a) \in {"pinned", "connected", "in-flight"}
      BY <2>4 DEF AdmissionState
    <3> QED BY <2>2, <2>4, <3>1 DEF Admitted
  <2>5. CASE a \notin Allowlist \cup Connected \cup InFlight
    <3>1. AdmissionState(a) = IF admission[a] = None THEN "queued"
                              ELSE IF admission[a] > clock THEN "admitted" ELSE "lapsed"
      BY <2>5 DEF AdmissionState
    <3>2. a \in Held <=> admission[a] # None /\ admission[a] > clock
      BY <1>1, <2>1, <2>3, <2>5
    <3> QED BY <2>2, <2>5, <3>1, <3>2 DEF Admitted
  <2> QED BY <2>4, <2>5
<1> QED BY <1>2 DEF WaitingBehind, StillWaiting

(* A pass of the queue, and who it lets in.                                *)
LEMMA PassAdmits ==
  ASSUME Typed, [Next]_vars, Serves
  PROVE  /\ ServiceQueue(Managed) /\ UNCHANGED <<clock, acct, conn, entry>>
         /\ Newcomers = ToAdmit(Managed)
         /\ ToAdmit(Managed) \subseteq WaitingBehind(Managed)
         /\ \A a \in WaitingBehind(Managed) : a \in Accounts /\ a \notin Connected /\ admission[a] <= clock
<1> USE DEF webVars, ledgerVars, keyVars, worldVars, processVars
<1>1. QueuePass
  <2>1. ~UNCHANGED pc /\ pc = "queue" /\ pc' = "mint"
    BY DEF Serves
  <2>2. ASSUME NEW a \in Accounts, Asks(a) \/ OperatorActs(a) \/ OperatorPins(a) \/ OwnerActs(a)
        PROVE  UNCHANGED pc
    BY <2>2 DEF Asks, OperatorActs, OperatorPins, OwnerActs
  <2>3. ~(TimePasses \/ MintFails \/ Crash \/ Start \/ ConnectNext \/ ConnectDone \/ LoopBegins
          \/ ReleaseNext \/ ReleaseDone \/ MintNext \/ MintDone \/ ApplyLimits)
    BY <2>1 DEF TimePasses, MintFails, Crash, Start, ConnectNext, ConnectDone, LoopBegins,
                ReleaseNext, ReleaseDone, MintNext, MintDone, ApplyLimits
  <2> QED BY <2>1, <2>2, <2>3 DEF Next, Executor, vars
<1>2. ServiceQueue(Managed) /\ UNCHANGED <<clock, acct, conn, entry>>
  BY <1>1 DEF QueuePass
<1>3. ToAdmit(Managed) \subseteq WaitingBehind(Managed)
  BY DEF ToAdmit
<1>4. clock \in Nat /\ admission \in [Accounts -> Nat \cup {None}] /\ HoldTime \in Nat /\ HoldTime > 0
  BY NumbersOfTheQueue DEF Typed, TypeOK
<1>5. \A a \in WaitingBehind(Managed) : a \in Accounts /\ a \notin Connected /\ admission[a] <= clock
  BY <1>4 DEF WaitingBehind, Past, Held, Queued, None
<1>6. \A a \in Accounts : admission'[a] # admission[a] <=> a \in ToAdmit(Managed)
  <2> SUFFICES ASSUME NEW a \in ToAdmit(Managed) PROVE clock + HoldTime # admission[a]
    BY <1>2, <1>4 DEF ServiceQueue
  <2>1. admission[a] <= clock /\ admission[a] \in Int
    BY <1>3, <1>4, <1>5 DEF None
  <2> QED BY <1>4, <2>1
<1>7. Newcomers = ToAdmit(Managed)
  BY <1>3, <1>5, <1>6 DEF Newcomers
<1> QED BY <1>2, <1>3, <1>5, <1>7

LEMMA FreeIsNumber ==
  ASSUME TypeOK
  PROVE  /\ IsFiniteSet(Managed \cup Held) /\ Cardinality(Managed \cup Held) \in Nat
         /\ Free(Managed) \in Nat
         /\ Free(Managed) # 0 => Free(Managed) = MaxLive - Cardinality(Managed \cup Held)
<1>1. Managed \cup Held \subseteq Accounts
  BY DEF Managed, Held
<1>2. IsFiniteSet(Managed \cup Held)
  BY <1>1, AccountsAssumption, FS_Subset
<1>3. Cardinality(Managed \cup Held) \in Nat
  BY <1>2, FS_CardinalityType
<1> QED BY <1>2, <1>3, NumbersOfTheQueue DEF Free

-----------------------------------------------------------------------------
(* A pass admits in the order people are shown.                            *)
LEMMA ShownPlaces ==
  ASSUME TypeOK, ManagedAreConnected, CountsAgree, NEW a \in StillWaiting
  PROVE  PositionShown(a) = Place(a, WaitingBehind(Managed), Queued)
<1>1. \A b \in StillWaiting : b \in Accounts /\ Rank(b, Queued) = Rank(b, StillWaiting)
  BY DEF CountsAgree, Rank, StillWaiting, Queued
<1>2. \A b \in StillWaiting : Before(b, a, Queued) <=> Before(b, a, StillWaiting)
  BY <1>1 DEF Before
<1>3. Place(a, StillWaiting, StillWaiting) = Place(a, StillWaiting, Queued)
  BY <1>2 DEF Place
<1> QED BY <1>3, WaitingIsShown DEF PositionShown

LEMMA AdmitsInTheOrderShown ==
  ASSUME Typed, ManagedAreConnected, [Next]_vars, Serves, CountsAgree
  PROVE  InTheOrderShown
<1>1. /\ Newcomers = ToAdmit(Managed)
      /\ WaitingBehind(Managed) = StillWaiting
      /\ ToAdmit(Managed) \subseteq StillWaiting
      /\ StillWaiting \in SUBSET Accounts /\ Queued \in SUBSET Accounts
  BY PassAdmits, WaitingIsShown DEF Typed, StillWaiting, Queued
<1>2. \A a \in StillWaiting : /\ PositionShown(a) = Place(a, StillWaiting, Queued)
                              /\ PositionShown(a) \in Nat \ {0}
  <2> SUFFICES ASSUME NEW a \in StillWaiting
               PROVE  /\ PositionShown(a) = Place(a, StillWaiting, Queued)
                      /\ PositionShown(a) \in Nat \ {0}
    OBVIOUS
  <2>1. PositionShown(a) = Place(a, StillWaiting, Queued)
    BY <1>1, ShownPlaces DEF Typed
  <2>2. Place(a, StillWaiting, Queued) \in Nat \ {0}
    BY <1>1, PlacesAreCounted
  <2> QED BY <2>1, <2>2
<1>3. Free(Managed) \in Nat
  BY FreeIsNumber DEF Typed
<1>4. ASSUME NEW a \in Newcomers, NEW b \in Accounts, PositionShown(b) \in 1..PositionShown(a)
      PROVE  b \in Newcomers
  <2>1. b \in StillWaiting
    BY <1>4 DEF PositionShown, None
  <2>2. Place(b, StillWaiting, Queued) <= Place(a, StillWaiting, Queued)
    BY <1>1, <1>2, <1>4, <2>1
  <2>3. Place(a, StillWaiting, Queued) <= Free(Managed)
    BY <1>1 DEF ToAdmit
  <2>4. Place(b, StillWaiting, Queued) <= Free(Managed)
    BY <1>1, <1>2, <1>3, <2>1, <2>2, <2>3
  <2> QED BY <1>1, <2>1, <2>4 DEF ToAdmit
<1>5. \A a \in Newcomers : PositionShown(a) # None
  BY <1>1, <1>2 DEF None
<1> QED BY <1>4, <1>5 DEF InTheOrderShown

(* Nor does one who let a slot lapse take another before somebody of the   *)
(* same standing who was there by then.                                    *)
LEMMA LapsedWaitTheirTurn ==
  ASSUME Typed, [Next]_vars, Serves,
         NEW a \in Newcomers, NEW b \in WaitingBehind(Managed) \ Newcomers,
         SameStanding(a, b), admission[a] # None, admission[b] = None
  PROVE  entry[b].joined >= admission[a]
<1>1. /\ Newcomers = ToAdmit(Managed)
      /\ a \in WaitingBehind(Managed) /\ b \in WaitingBehind(Managed)
      /\ a \in Accounts /\ b \in Accounts /\ a \notin Connected /\ admission[a] <= clock
      /\ WaitingBehind(Managed) \in SUBSET Accounts /\ Queued \in SUBSET Accounts
  BY PassAdmits DEF Queued
<1>2. entry[a].joined \in Int /\ entry[b].joined \in Int /\ admission[a] \in Int /\ entry[b].joined >= -1
  BY <1>1 DEF Typed, TypeOK, None
<1>3. SUFFICES ASSUME entry[b].joined < admission[a] PROVE b \in ToAdmit(Managed)
  BY <1>1, <1>2
<1>4. LapsedAt(a) = admission[a] /\ LapsedAt(b) = -1
  BY <1>1 DEF LapsedAt, None
<1>5. /\ \A i \in 1..5 : Rank(a, Queued)[i] \in Int /\ Rank(b, Queued)[i] \in Int
      /\ Rank(a, Queued)[4] = IF entry[a].joined >= LapsedAt(a) THEN entry[a].joined ELSE LapsedAt(a)
      /\ Rank(b, Queued)[4] = IF entry[b].joined >= LapsedAt(b) THEN entry[b].joined ELSE LapsedAt(b)
  BY <1>1, RankIsNumbers DEF Typed
<1>6. Rank(b, Queued)[4] < Rank(a, Queued)[4]
  BY <1>2, <1>3, <1>4, <1>5
<1>7. \A i \in 1..3 : Rank(b, Queued)[i] = Rank(a, Queued)[i]
  BY DEF SameStanding
<1>8. Before(b, a, Queued)
  BY <1>6, <1>7 DEF Before
<1>9. Place(b, WaitingBehind(Managed), Queued) < Place(a, WaitingBehind(Managed), Queued)
  BY <1>1, <1>8, EarlierPlace DEF Typed
<1>10. /\ Place(a, WaitingBehind(Managed), Queued) <= Free(Managed) /\ Free(Managed) \in Nat
       /\ Place(a, WaitingBehind(Managed), Queued) \in Nat
       /\ Place(b, WaitingBehind(Managed), Queued) \in Nat
  BY <1>1, FreeIsNumber, PlacesAreCounted DEF ToAdmit, Typed
<1> QED BY <1>1, <1>9, <1>10 DEF ToAdmit

(* A pass admits no more than there is room for: the others it admits are  *)
(* all before the last of them, whose place is within what is free.        *)
LEMMA AdmitsNoMoreThanFree ==
  ASSUME TypeOK
  PROVE  /\ IsFiniteSet(ToAdmit(Managed)) /\ Cardinality(ToAdmit(Managed)) \in Nat
         /\ Cardinality(ToAdmit(Managed)) <= Free(Managed)
<1> DEFINE W == WaitingBehind(Managed)
           T == ToAdmit(Managed)
           places == {Place(a, W, Queued) : a \in T}
<1>1. T \subseteq W /\ W \in SUBSET Accounts /\ Queued \in SUBSET Accounts
  BY DEF ToAdmit, WaitingBehind, Queued
<1>2. IsFiniteSet(T)
  BY <1>1, AccountsAssumption, FS_Subset
<1>3. Cardinality(T) \in Nat /\ Free(Managed) \in Nat
  BY <1>2, FS_CardinalityType, FreeIsNumber
<1>4. \A a \in T : Place(a, W, Queued) \in Nat \ {0} /\ Place(a, W, Queued) <= Free(Managed)
  BY <1>1, PlacesAreCounted DEF ToAdmit
<1>5. CASE T = {}
  BY <1>2, <1>3, <1>5, FS_EmptySet
<1>6. CASE T # {}
  <2>1. PICK a \in T : \A b \in T : Place(a, W, Queued) >= Place(b, W, Queued)
    <3> HIDE DEF W, T
    <3>1. places \in SUBSET Int /\ places # {} /\ \A n \in places : n <= Free(Managed)
      BY <1>4, <1>6
    <3> HIDE DEF places
    <3>2. PICK n \in places : \A m \in places : n >= m
      <4>1. Free(Managed) \in Int
        BY <1>3
      <4> QED BY <3>1, <4>1, GreatestBelow
    <3> USE DEF places
    <3> QED BY <3>2
  <2> DEFINE ahead == {b \in W : Before(b, a, Queued)}
  <2>2. T \ {a} \subseteq ahead
    <3> SUFFICES ASSUME NEW b \in T \ {a}, ~Before(b, a, Queued) PROVE FALSE
      BY <1>1
    <3>1. Before(a, b, Queued)
      BY <1>1, LineIsOrdered
    <3>2. Place(a, W, Queued) < Place(b, W, Queued)
      BY <1>1, <3>1, EarlierPlace
    <3> QED BY <1>4, <2>1, <3>2
  <2>3. /\ IsFiniteSet(ahead) /\ Cardinality(ahead) \in Nat
        /\ Place(a, W, Queued) = 1 + Cardinality(ahead)
    BY <1>1, PlacesAreCounted
  <2> HIDE DEF T, ahead, W
  <2>4. Cardinality(T \ {a}) = Cardinality(T) - 1
    BY <1>2, FS_RemoveElement
  <2>5. Cardinality(T \ {a}) <= Cardinality(ahead)
    BY <2>2, <2>3, FS_Subset
  <2>6. Place(a, W, Queued) <= Free(Managed)
    BY <1>4
  <2>7. Cardinality(T) <= Free(Managed)
    BY <1>3, <2>3, <2>4, <2>5, <2>6
  <2> QED BY <1>2, <1>3, <2>7 DEF T
<1> QED BY <1>5, <1>6

LEMMA NeverOverbooks ==
  ASSUME Typed, [Next]_vars, Serves, Newcomers # {}
  PROVE  Cardinality(Managed \cup Held') <= MaxLive
<1>1. /\ ServiceQueue(Managed) /\ UNCHANGED <<clock, acct, conn, entry>>
      /\ Newcomers = ToAdmit(Managed)
  BY PassAdmits
<1>2. Held' \subseteq Held \cup ToAdmit(Managed)
  BY <1>1 DEF ServiceQueue, Held, Connected
<1> DEFINE U == Managed \cup Held
           T == ToAdmit(Managed)
<1>3. /\ IsFiniteSet(U) /\ Cardinality(U) \in Nat /\ Free(Managed) \in Nat
      /\ Free(Managed) # 0 => Free(Managed) = MaxLive - Cardinality(U)
      /\ IsFiniteSet(T) /\ Cardinality(T) \in Nat /\ Cardinality(T) <= Free(Managed) /\ T # {}
  BY <1>1, FreeIsNumber, AdmitsNoMoreThanFree DEF Typed
<1>4. Managed \cup Held' \subseteq U \cup T
  BY <1>2
<1> HIDE DEF U, T
<1>5. Cardinality(T) # 0
  BY <1>3, FS_EmptySet
<1>6. /\ IsFiniteSet(U \cup T)
      /\ Cardinality(U \cup T) = Cardinality(U) + Cardinality(T) - Cardinality(U \cap T)
      /\ Cardinality(U \cap T) \in Nat
  BY <1>3, FS_Union, FS_Intersection, FS_CardinalityType
<1>7. IsFiniteSet(Managed \cup Held') /\ Cardinality(Managed \cup Held') <= Cardinality(U \cup T)
  BY <1>4, <1>6, FS_Subset
<1>8. Cardinality(Managed \cup Held') \in Nat
  BY <1>7, FS_CardinalityType
<1> QED BY <1>3, <1>5, <1>6, <1>7, <1>8, NumbersOfTheQueue

(* The line is served in the order it is shown, and a lapsed turn is not   *)
(* taken again before the others': for any number of people and of slots,  *)
(* through any joins, referrals, invitations, crashes and failures.        *)
THEOREM TurnsKept == Spec => TurnsAreKept
<1>1. Init => Typed /\ ManagedAreConnected
  BY InitTyped, ConnectedInitially
<1>2. Typed /\ ManagedAreConnected /\ [Next]_vars => (Typed /\ ManagedAreConnected)'
  BY NextTyped, ManagedStayConnected
<1>3. Typed /\ ManagedAreConnected /\ [Next]_vars => [Serves /\ CountsAgree => InTheOrderShown]_vars
  BY AdmitsInTheOrderShown
<1>4. Typed /\ ManagedAreConnected /\ [Next]_vars =>
        [Serves => \A a \in Newcomers, b \in WaitingBehind(Managed) \ Newcomers :
           SameStanding(a, b) /\ admission[a] # None /\ admission[b] = None
             => entry[b].joined >= admission[a]]_vars
  BY LapsedWaitTheirTurn
<1> QED BY <1>1, <1>2, <1>3, <1>4, PTL
        DEF Spec, TurnsAreKept, AdmittedInTheOrderShown, LapsedLoseTheirTurn

(* A pass of the queue gives out no slot that a live account or another's  *)
(* hold has, whatever was left behind by restarts, operators and arrivals. *)
THEOREM QueueKeepsToItsSlots == Spec => QueueNeverOverbooks
<1>1. Typed /\ [Next]_vars =>
        [Serves /\ Newcomers # {} => Cardinality(Managed \cup Held') <= MaxLive]_vars
  BY NeverOverbooks
<1> QED BY <1>1, FrontTyped, PTL DEF Spec, QueueNeverOverbooks

-----------------------------------------------------------------------------
(* The ledger as it is opened.  What a row becomes is a collapse of rows    *)
(* that come to share a key; a collapse on a finer key than the one a file  *)
(* is read by leaves what the file says as it was.                          *)

LEMMA KeyedIsToday ==
  ASSUME NEW ref, IsRef(ref)
  PROVE  /\ Keyed(ref) = Today(ref) /\ IsRef(Today(ref)) /\ ~IsStale(Today(ref))
         /\ ~IsStale(ref) => Today(ref) = ref
<1>1. ref \in Seq(STRING) /\ Len(ref) \in Nat
  BY DEF IsRef
<1>2. CASE Len(ref) > 2
  <2>1. Min({2, Len(ref)}) = 2
    <3> DEFINE S == {2, Len(ref)}
    <3>1. S \in SUBSET Nat /\ S # {}
      BY <1>1
    <3>2. Min(S) \in S /\ \A y \in S : Min(S) <= y
      <4> HIDE DEF S
      <4> QED BY <3>1, MinOfNaturals
    <3> QED BY <1>1, <1>2, <3>2
  <2>2. SubSeq(ref, 1, 2) \in Seq(STRING) /\ Len(SubSeq(ref, 1, 2)) = 2
    BY <1>1, <1>2
  <2>3. Keyed(ref) = SubSeq(ref, 1, 2) /\ Today(ref) = SubSeq(ref, 1, 2) /\ IsStale(ref)
    BY <1>2, <2>1 DEF Keyed, Today, IsStale, KeyLength
  <2>4. ~IsStale(SubSeq(ref, 1, 2))
    BY <2>2 DEF IsStale, KeyLength
  <2> QED BY <2>2, <2>3, <2>4 DEF IsRef
<1>3. CASE Len(ref) <= 2
  <2>1. Min({2, Len(ref)}) = Len(ref)
    <3> DEFINE S == {2, Len(ref)}
    <3>1. S \in SUBSET Nat /\ S # {}
      BY <1>1
    <3>2. Min(S) \in S /\ \A y \in S : Min(S) <= y
      <4> HIDE DEF S
      <4> QED BY <3>1, MinOfNaturals
    <3> QED BY <1>1, <1>3, <3>2
  <2>2. SubSeq(ref, 1, Len(ref)) = ref
    BY <1>1, SubSeqFull
  <2>3. ~(Len(ref) > 2)
    BY <1>1, <1>3
  <2> QED BY <1>1, <2>1, <2>2, <2>3 DEF Keyed, Today, IsStale, KeyLength, IsRef
<1> QED BY <1>1, <1>2, <1>3

LEMMA LowerTwice ==
  ASSUME NEW a
  PROVE  Lower(Lower(a)) = Lower(a)
BY DEF Lower

(* Sums as the ledger takes them.                                          *)
LEMMA CountIsTotal ==
  ASSUME NEW form, NEW S, IsFiniteSet(S)
  PROVE  MapThenSumSet(LAMBDA r : CountOf(form, r), S) = Total([r \in S |-> CountOf(form, r)], S)
<1> DEFINE w == [r \in S |-> CountOf(form, r)]
           g(f, s) == IF s = {} THEN 0 ELSE CountOf(form, CHOOSE x \in s : TRUE) + f[s \ {CHOOSE x \in s : TRUE}]
           Iter(f) == f = [s \in SUBSET S |-> g(f, s)]
           i == CHOOSE f : Iter(f)
<1>1. ASSUME NEW f, NEW s \in SUBSET S PROVE Adding(f, w, s) = g(f, s)
  <2>1. CASE s = {}
    BY <2>1 DEF Adding
  <2>2. CASE s # {}
    <3>1. (CHOOSE x \in s : TRUE) \in S
      BY <2>2
    <3> QED BY <2>2, <3>1 DEF Adding, AnyOf
  <2> QED BY <2>1, <2>2
<1>2. \A f : SumsUp(f, w, S) <=> Iter(f)
  <2> HIDE DEF g, w
  <2> QED BY <1>1 DEF SumsUp
<1>3. PICK h : SumsUp(h, w, S)
  BY SumsExist
<1>4. Iter(i)
  <2>1. Iter(h)
    BY <1>2, <1>3
  <2> HIDE DEF Iter
  <2> QED BY <2>1
<1>5. Total(w, S) = i[S]
  <2>1. SumsUp(i, w, S)
    BY <1>2, <1>4
  <2> HIDE DEF w, i
  <2> QED BY <2>1, TotalIs
<1>6. MapThenSumSet(LAMBDA r : CountOf(form, r), S) = (CHOOSE f : f = [s \in SUBSET S |-> IF s = {} THEN 0 ELSE CountOf(form, CHOOSE x \in s : TRUE) + f[s \ {CHOOSE x \in s : TRUE}]])[S]
  BY DEF MapThenSumSet, MapThenFoldSet
<1> QED BY <1>5, <1>6

(* Rows whose numbers are numbers.                                         *)
Counts(form, s) == FirstOf(form, s) \in Nat /\ LastOf(form, s) \in Nat /\ CountOf(form, s) \in Nat

LEMMA FinitelyMany ==
  ASSUME NEW S, IsFiniteSet(S), NEW f
  PROVE  IsFiniteSet({f[s] : s \in S})
<1> DEFINE T == {f[s] : s \in S}
           g == [s \in S |-> f[s]]
<1>1. g \in Surjection(S, T)
  BY DEF Surjection
<1> QED BY <1>1, FS_Surjection

(* What the widest of some rows is.                                        *)
LEMMA WidestIs ==
  ASSUME NEW form, NEW S, IsFiniteSet(S), S # {}, \A s \in S : Counts(form, s)
  PROVE  LET m == Widest(form, S)
         IN  /\ m = [first |-> m.first, last |-> m.last, n |-> m.n]
             /\ m.first \in Nat /\ m.last \in Nat /\ m.n \in Nat
             /\ \E s \in S : m.first = FirstOf(form, s)
             /\ \E s \in S : m.last = LastOf(form, s)
             /\ \A s \in S : m.first <= FirstOf(form, s) /\ m.last >= LastOf(form, s)
             /\ m.n = Total([r \in S |-> CountOf(form, r)], S)
<1> DEFINE A == {FirstOf(form, r) : r \in S}
           B == {LastOf(form, r) : r \in S}
           w == [r \in S |-> CountOf(form, r)]
<1>1. A \in SUBSET Nat /\ A # {} /\ B \in SUBSET Int /\ B # {} /\ \A b \in B : b \in Nat
  BY DEF Counts
<1>2. IsFiniteSet(B)
  <2> DEFINE f == [r \in S |-> LastOf(form, r)]
  <2>1. IsFiniteSet({f[r] : r \in S})
    <3> HIDE DEF f
    <3> QED BY FinitelyMany
  <2>2. B = {f[r] : r \in S}
    OBVIOUS
  <2> QED BY <2>1, <2>2
<1>3. Min(A) \in A /\ \A y \in A : Min(A) <= y
  <2> HIDE DEF A
  <2> QED BY <1>1, MinOfNaturals
<1>4. Max(B) \in B /\ \A y \in B : Max(B) >= y
  <2> HIDE DEF B
  <2> QED BY <1>1, <1>2, MaxOfFinite
<1>5. \A r \in S : w[r] \in Nat
  BY DEF Counts
<1>6. Total(w, S) \in Nat
  <2> HIDE DEF w
  <2> QED BY <1>5, TotalIsNatural
<1>7. Widest(form, S) = [first |-> Min(A), last |-> Max(B), n |-> Total(w, S)]
  BY CountIsTotal DEF Widest
<1>8. Min(A) \in Nat /\ Max(B) \in Nat
  BY <1>1, <1>3, <1>4
<1>9. /\ \E s \in S : Min(A) = FirstOf(form, s)
      /\ \E s \in S : Max(B) = LastOf(form, s)
      /\ \A s \in S : Min(A) <= FirstOf(form, s) /\ Max(B) >= LastOf(form, s)
  BY <1>3, <1>4
<1> HIDE DEF A, B
<1> DEFINE a == Min(A)
           b == Max(B)
           t == Total(w, S)
           m == Widest(form, S)
<1>10. m = [first |-> a, last |-> b, n |-> t]
  BY <1>7
<1>11. a \in Nat /\ b \in Nat /\ t \in Nat /\ t = Total([r \in S |-> CountOf(form, r)], S)
  BY <1>6, <1>8
<1>12. /\ \E s \in S : a = FirstOf(form, s)
       /\ \E s \in S : b = LastOf(form, s)
       /\ \A s \in S : a <= FirstOf(form, s) /\ b >= LastOf(form, s)
  BY <1>9
<1> HIDE DEF a, b, t, m, w
<1>13. m.first = a /\ m.last = b /\ m.n = t
  BY <1>10
<1> QED BY <1>10, <1>11, <1>12, <1>13 DEF m

-----------------------------------------------------------------------------
\* The widest of rows that are each the widest of some is the widest of all.
LEMMA WidestOfParts ==
  ASSUME NEW form, NEW S, IsFiniteSet(S), S # {}, \A s \in S : Counts(form, s),
         NEW O, IsFiniteSet(O), NEW part,
         \A o \in O : part[o] \subseteq S /\ part[o] # {},
         \A o \in O : [first |-> o.first, last |-> o.last, n |-> o.n] = Widest(form, part[o]),
         \A o, p \in O : o # p => part[o] \cap part[p] = {},
         \A s \in S : \E o \in O : s \in part[o]
  PROVE  Widest("keyed", O) = Widest(form, S) /\ \A o \in O : Counts("keyed", o)
<1> DEFINE w == [r \in S |-> CountOf(form, r)]
           v == [o \in O |-> CountOf("keyed", o)]
<1>1. ASSUME NEW o \in O
      PROVE  /\ o.first \in Nat /\ o.last \in Nat /\ o.n \in Nat
             /\ \E s \in part[o] : o.first = FirstOf(form, s)
             /\ \E s \in part[o] : o.last = LastOf(form, s)
             /\ \A s \in part[o] : o.first <= FirstOf(form, s) /\ o.last >= LastOf(form, s)
             /\ o.n = Total(w, part[o])
  <2> DEFINE P == part[o]
             m == Widest(form, P)
             u == [r \in P |-> CountOf(form, r)]
  <2>1. IsFiniteSet(P) /\ P # {} /\ P \subseteq S /\ \A s \in P : Counts(form, s)
    BY <1>1, FS_Subset
  <2>2. [first |-> o.first, last |-> o.last, n |-> o.n] = m
    BY <1>1
  <2>3. /\ m.first \in Nat /\ m.last \in Nat /\ m.n \in Nat
        /\ \E s \in P : m.first = FirstOf(form, s)
        /\ \E s \in P : m.last = LastOf(form, s)
        /\ \A s \in P : m.first <= FirstOf(form, s) /\ m.last >= LastOf(form, s)
        /\ m.n = Total(u, P)
    <3> HIDE DEF P
    <3> QED BY <2>1, WidestIs
  <2>4. Total(u, P) = Total(w, P)
    <3>1. \A r \in P : u[r] = w[r]
      BY <2>1
    <3> HIDE DEF u, w, P
    <3> QED BY <2>1, <3>1, TotalOfSame
  <2> HIDE DEF m, u, w
  <2>5. m.first = o.first /\ m.last = o.last /\ m.n = o.n
    BY <2>2
  <2> QED BY <2>3, <2>4, <2>5
<1>2. \A o \in O : FirstOf("keyed", o) = o.first /\ LastOf("keyed", o) = o.last /\ CountOf("keyed", o) = o.n
  BY DEF FirstOf, LastOf, CountOf
<1>3. \A o \in O : Counts("keyed", o)
  <2>1. \A o \in O : o.first \in Nat /\ o.last \in Nat /\ o.n \in Nat
    BY <1>1
  <2> QED BY <1>2, <2>1 DEF Counts
<1>4. O # {}
  OBVIOUS
<1> DEFINE a == Widest("keyed", O)
           b == Widest(form, S)
<1>5. /\ a = [first |-> a.first, last |-> a.last, n |-> a.n]
      /\ a.first \in Nat /\ a.last \in Nat
      /\ \E o \in O : a.first = o.first
      /\ \E o \in O : a.last = o.last
      /\ \A o \in O : a.first <= o.first /\ a.last >= o.last
      /\ a.n = Total(v, O)
  <2>1. /\ a = [first |-> a.first, last |-> a.last, n |-> a.n]
        /\ a.first \in Nat /\ a.last \in Nat /\ a.n \in Nat
        /\ \E o \in O : a.first = FirstOf("keyed", o)
        /\ \E o \in O : a.last = LastOf("keyed", o)
        /\ \A o \in O : a.first <= FirstOf("keyed", o) /\ a.last >= LastOf("keyed", o)
        /\ a.n = Total(v, O)
    BY <1>3, <1>4, WidestIs
  <2> HIDE DEF a, v
  <2> QED BY <1>2, <2>1
<1>6. /\ b = [first |-> b.first, last |-> b.last, n |-> b.n]
      /\ b.first \in Nat /\ b.last \in Nat
      /\ \E s \in S : b.first = FirstOf(form, s)
      /\ \E s \in S : b.last = LastOf(form, s)
      /\ \A s \in S : b.first <= FirstOf(form, s) /\ b.last >= LastOf(form, s)
      /\ b.n = Total(w, S)
  BY WidestIs
<1>7. \A s \in S : FirstOf(form, s) \in Nat /\ LastOf(form, s) \in Nat
  BY DEF Counts
<1>8. Total(w, S) = Total(v, O)
  <2>1. \A x \in S : w[x] \in Int
    BY DEF Counts
  <2>2. \A o \in O : part[o] \subseteq S /\ v[o] = Total(w, part[o])
    <3>1. \A o \in O : v[o] = o.n
      BY <1>2
    <3> HIDE DEF v, w
    <3> QED BY <1>1, <3>1
  <2> HIDE DEF v, w
  <2> QED BY <2>1, <2>2, TotalOfParts
<1> HIDE DEF a, b, v, w
<1>9. a.first = b.first
  <2>1. PICK o \in O : a.first = o.first
    BY <1>5
  <2>2. PICK s \in part[o] : o.first = FirstOf(form, s)
    BY <1>1
  <2>3. PICK t \in S : b.first = FirstOf(form, t)
    BY <1>6
  <2>4. PICK p \in O : t \in part[p]
    BY <2>3
  <2>5. b.first <= FirstOf(form, s) /\ s \in S
    BY <1>6, <2>2
  <2>6. p.first <= FirstOf(form, t) /\ a.first <= p.first /\ p.first \in Nat
    BY <1>1, <1>5, <2>4
  <2> QED BY <1>5, <1>6, <2>1, <2>2, <2>3, <2>5, <2>6
<1>10. a.last = b.last
  <2>1. PICK o \in O : a.last = o.last
    BY <1>5
  <2>2. PICK s \in part[o] : o.last = LastOf(form, s)
    BY <1>1
  <2>3. PICK t \in S : b.last = LastOf(form, t)
    BY <1>6
  <2>4. PICK p \in O : t \in part[p]
    BY <2>3
  <2>5. b.last >= LastOf(form, s) /\ s \in S
    BY <1>6, <2>2
  <2>6. p.last >= LastOf(form, t) /\ a.last >= p.last /\ p.last \in Nat
    BY <1>1, <1>5, <2>4
  <2> QED BY <1>5, <1>6, <2>1, <2>2, <2>3, <2>5, <2>6
<1>11. a = b
  BY <1>5, <1>6, <1>8, <1>9, <1>10
<1> QED BY <1>3, <1>11 DEF a, b

\* A keyed row alone is its own widest.
LEMMA WidestOfOne ==
  ASSUME NEW s, Counts("keyed", s)
  PROVE  Widest("keyed", {s}) = [first |-> s.first, last |-> s.last, n |-> s.n]
<1> DEFINE m == Widest("keyed", {s})
           w == [r \in {s} |-> CountOf("keyed", r)]
<1>1. FirstOf("keyed", s) = s.first /\ LastOf("keyed", s) = s.last /\ CountOf("keyed", s) = s.n
  BY DEF FirstOf, LastOf, CountOf
<1>2. IsFiniteSet({s})
  BY FS_Singleton
<1>3. /\ m = [first |-> m.first, last |-> m.last, n |-> m.n]
      /\ m.first = FirstOf("keyed", s) /\ m.last = LastOf("keyed", s) /\ m.n = Total(w, {s})
  <2> DEFINE S == {s}
  <2>0. S # {} /\ IsFiniteSet(S) /\ \A t \in S : Counts("keyed", t)
    BY <1>2
  <2> HIDE DEF S
  <2>1. /\ m = [first |-> m.first, last |-> m.last, n |-> m.n]
        /\ m.first \in Nat /\ m.last \in Nat /\ m.n \in Nat
        /\ \E t \in S : m.first = FirstOf("keyed", t)
        /\ \E t \in S : m.last = LastOf("keyed", t)
        /\ \A t \in S : m.first <= FirstOf("keyed", t) /\ m.last >= LastOf("keyed", t)
        /\ m.n = Total(w, S)
    BY <2>0, WidestIs DEF S
  <2> HIDE DEF m, w
  <2> QED BY <2>1 DEF S
<1>4. Total(w, {s}) = s.n
  <2>1. AnyOf({s}) = s /\ {s} \ {s} = {} /\ {s} # {}
    BY DEF AnyOf
  <2>2. s.n \in Nat /\ w[s] = s.n
    BY <1>1 DEF Counts
  <2>3. Total(w, {s}) = w[s] + Total(w, {})
    <3> HIDE DEF w
    <3> QED BY <1>2, <2>1, TotalFrom
  <2>4. Total(w, {}) = 0
    BY TotalOfNone
  <2> HIDE DEF w
  <2> QED BY <2>2, <2>3, <2>4
<1> QED BY <1>1, <1>3, <1>4

-----------------------------------------------------------------------------
(* Rows that share what fine says of them become one.                      *)
Alike(rows, fine, k) == {s \in rows : fine[s] = k}
Collapse(form, rows, fine) == {SkipRow(k[1], k[2], Widest(form, Alike(rows, fine, k))) : k \in {fine[s] : s \in rows}}
Pairs(rows, fine) == \A s \in rows : fine[s] = <<fine[s][1], fine[s][2]>>

LEMMA CollapsedRows ==
  ASSUME NEW form, NEW rows, IsFiniteSet(rows), \A s \in rows : Counts(form, s), NEW fine, Pairs(rows, fine)
  PROVE  LET out == Collapse(form, rows, fine)
         IN  /\ IsFiniteSet(out)
             /\ \A s \in rows : \E o \in out : <<o.account, o.ref>> = fine[s]
             /\ \A o \in out : /\ \E s \in rows : <<o.account, o.ref>> = fine[s]
                               /\ o = SkipRow(o.account, o.ref, [first |-> o.first, last |-> o.last, n |-> o.n])
                               /\ [first |-> o.first, last |-> o.last, n |-> o.n] = Widest(form, Alike(rows, fine, <<o.account, o.ref>>))
             /\ \A o \in out : Counts("keyed", o)
             /\ \A o, p \in out : o.account = p.account /\ o.ref = p.ref => o = p
<1> DEFINE out == Collapse(form, rows, fine)
           keys == {fine[s] : s \in rows}
           row == [k \in keys |-> SkipRow(k[1], k[2], Widest(form, Alike(rows, fine, k)))]
<1>1. out = {row[k] : k \in keys}
  BY DEF Collapse
<1>2. IsFiniteSet(keys)
  BY FinitelyMany
<1>3. IsFiniteSet(out)
  <2>1. IsFiniteSet({row[k] : k \in keys})
    <3> HIDE DEF row, keys
    <3> QED BY <1>2, FinitelyMany
  <2> QED BY <1>1, <2>1
<1>4. ASSUME NEW k \in keys
      PROVE  /\ row[k] = SkipRow(k[1], k[2], [first |-> row[k].first, last |-> row[k].last, n |-> row[k].n])
             /\ row[k].account = k[1] /\ row[k].ref = k[2] /\ k = <<k[1], k[2]>>
             /\ [first |-> row[k].first, last |-> row[k].last, n |-> row[k].n] = Widest(form, Alike(rows, fine, k))
             /\ Counts("keyed", row[k])
  <2> DEFINE G == Alike(rows, fine, k)
             m == Widest(form, G)
  <2>1. G \subseteq rows /\ G # {} /\ k = <<k[1], k[2]>>
    BY <1>4 DEF Alike, Pairs
  <2>2. IsFiniteSet(G) /\ \A s \in G : Counts(form, s)
    BY <2>1, FS_Subset
  <2>3. m = [first |-> m.first, last |-> m.last, n |-> m.n] /\ m.first \in Nat /\ m.last \in Nat /\ m.n \in Nat
    <3> HIDE DEF G
    <3> QED BY <2>1, <2>2, WidestIs
  <2>4. row[k] = SkipRow(k[1], k[2], m)
    OBVIOUS
  <2> HIDE DEF m, row, keys
  <2>5. row[k] = [account |-> k[1], ref |-> k[2], first |-> m.first, last |-> m.last, n |-> m.n]
    BY <2>4 DEF SkipRow
  <2> DEFINE r == row[k]
  <2>6. r.account = k[1] /\ r.ref = k[2] /\ r.first = m.first /\ r.last = m.last /\ r.n = m.n
    BY <2>5
  <2>7. [first |-> r.first, last |-> r.last, n |-> r.n] = m
    BY <2>3, <2>6
  <2>8. Counts("keyed", r)
    <3> HIDE DEF r
    <3> QED BY <2>3, <2>6 DEF Counts, FirstOf, LastOf, CountOf
  <2>9. r = SkipRow(k[1], k[2], [first |-> r.first, last |-> r.last, n |-> r.n])
    BY <2>4, <2>7
  <2> HIDE DEF r
  <2> QED BY <2>1, <2>6, <2>7, <2>8, <2>9 DEF r, m
<1> HIDE DEF row
<1>5. ASSUME NEW s \in rows PROVE \E o \in out : <<o.account, o.ref>> = fine[s]
  <2>1. fine[s] \in keys
    OBVIOUS
  <2> HIDE DEF keys
  <2>2. row[fine[s]] \in out /\ <<row[fine[s]].account, row[fine[s]].ref>> = fine[s]
    BY <1>1, <1>4, <2>1
  <2> HIDE DEF out
  <2> QED BY <2>2
<1>6. ASSUME NEW o \in out
      PROVE  /\ \E s \in rows : <<o.account, o.ref>> = fine[s]
             /\ o = SkipRow(o.account, o.ref, [first |-> o.first, last |-> o.last, n |-> o.n])
             /\ [first |-> o.first, last |-> o.last, n |-> o.n] = Widest(form, Alike(rows, fine, <<o.account, o.ref>>))
             /\ Counts("keyed", o)
  <2>1. PICK k \in keys : o = row[k]
    BY <1>1, <1>6
  <2>2. o.account = k[1] /\ o.ref = k[2] /\ k = <<o.account, o.ref>>
    BY <1>4, <2>1
  <2>3. \E s \in rows : <<o.account, o.ref>> = fine[s]
    BY <2>1, <2>2
  <2> QED BY <1>4, <2>1, <2>2, <2>3
<1>7. ASSUME NEW o \in out, NEW p \in out, o.account = p.account, o.ref = p.ref PROVE o = p
  BY <1>6, <1>7
<1> HIDE DEF out
<1> QED BY <1>3, <1>5, <1>6, <1>7 DEF out

\* What is said again of a row is what was said of every row it was made of.
Again(out, rows, fine, again, coarse) ==
  \A o \in out, s \in rows : fine[s] = <<o.account, o.ref>> => again[o] = coarse[s]

LEMMA CollapseTwice ==
  ASSUME NEW form, NEW rows, IsFiniteSet(rows), \A s \in rows : Counts(form, s),
         NEW fine, Pairs(rows, fine), NEW out, out = Collapse(form, rows, fine), NEW coarse, NEW again,
         Again(out, rows, fine, again, coarse)
  PROVE  Collapse("keyed", out, again) = Collapse(form, rows, coarse)
<1> DEFINE of == [o \in out |-> Alike(rows, fine, <<o.account, o.ref>>)]
<1>1. /\ IsFiniteSet(out)
      /\ \A s \in rows : \E o \in out : <<o.account, o.ref>> = fine[s]
      /\ \A o \in out : \E s \in rows : <<o.account, o.ref>> = fine[s]
      /\ \A o \in out : [first |-> o.first, last |-> o.last, n |-> o.n] = Widest(form, of[o])
      /\ \A o, p \in out : o.account = p.account /\ o.ref = p.ref => o = p
  <2> DEFINE made == Collapse(form, rows, fine)
  <2>1. /\ IsFiniteSet(made)
        /\ \A s \in rows : \E o \in made : <<o.account, o.ref>> = fine[s]
        /\ \A o \in made : \E s \in rows : <<o.account, o.ref>> = fine[s]
        /\ \A o \in made : [first |-> o.first, last |-> o.last, n |-> o.n] = Widest(form, Alike(rows, fine, <<o.account, o.ref>>))
        /\ \A o, p \in made : o.account = p.account /\ o.ref = p.ref => o = p
    BY CollapsedRows
  <2>2. out = made
    OBVIOUS
  <2> HIDE DEF made
  <2> QED BY <2>1, <2>2
<1>2. \A o \in out, s \in rows : fine[s] = <<o.account, o.ref>> => again[o] = coarse[s]
  BY DEF Again
<1>3. \A o \in out : \A s : s \in of[o] <=> s \in rows /\ fine[s] = <<o.account, o.ref>>
  BY DEF Alike
<1> HIDE DEF of
<1>4. {again[o] : o \in out} = {coarse[s] : s \in rows}
  BY <1>1, <1>2
<1>5. ASSUME NEW k \in {coarse[s] : s \in rows}
      PROVE  Widest("keyed", Alike(out, again, k)) = Widest(form, Alike(rows, coarse, k))
  <2> DEFINE O == Alike(out, again, k)
             G == Alike(rows, coarse, k)
  <2>1. O \subseteq out /\ G \subseteq rows /\ G # {}
    BY <1>5 DEF Alike
  <2>2. IsFiniteSet(O) /\ IsFiniteSet(G) /\ \A s \in G : Counts(form, s)
    BY <1>1, <2>1, FS_Subset
  <2>3. \A o \in O : of[o] \subseteq G /\ of[o] # {}
    BY <1>1, <1>2, <1>3 DEF Alike
  <2>4. \A o, p \in O : o # p => of[o] \cap of[p] = {}
    <3> SUFFICES ASSUME NEW o \in O, NEW p \in O, NEW s \in of[o], s \in of[p] PROVE o = p
      OBVIOUS
    <3>1. o \in out /\ p \in out
      BY <2>1
    <3>2. <<o.account, o.ref>> = fine[s] /\ <<p.account, p.ref>> = fine[s]
      BY <1>3, <3>1
    <3> QED BY <1>1, <3>1, <3>2
  <2>5. \A s \in G : \E o \in O : s \in of[o]
    <3> SUFFICES ASSUME NEW s \in G PROVE \E o \in O : s \in of[o]
      OBVIOUS
    <3>1. s \in rows /\ coarse[s] = k
      BY DEF Alike
    <3>2. PICK o \in out : <<o.account, o.ref>> = fine[s]
      BY <1>1, <3>1
    <3>3. again[o] = k /\ s \in of[o]
      BY <1>2, <1>3, <3>1, <3>2
    <3> QED BY <3>3 DEF Alike
  <2>6. \A o \in O : [first |-> o.first, last |-> o.last, n |-> o.n] = Widest(form, of[o])
    BY <1>1, <2>1
  <2> HIDE DEF O, G
  <2>7. Widest("keyed", O) = Widest(form, G)
    BY <2>1, <2>2, <2>3, <2>4, <2>5, <2>6, WidestOfParts
  <2> QED BY <2>7 DEF O, G
<1>6. Collapse("keyed", out, again) = Collapse(form, rows, coarse)
  <2> DEFINE K == {coarse[s] : s \in rows}
  <2>1. Collapse("keyed", out, again) = {SkipRow(k[1], k[2], Widest("keyed", Alike(out, again, k))) : k \in K}
    BY <1>4 DEF Collapse
  <2>2. Collapse(form, rows, coarse) = {SkipRow(k[1], k[2], Widest(form, Alike(rows, coarse, k))) : k \in K}
    BY DEF Collapse
  <2>3. \A k \in K : Widest("keyed", Alike(out, again, k)) = Widest(form, Alike(rows, coarse, k))
    BY <1>5
  <2> HIDE DEF K
  <2> QED BY <2>1, <2>2, <2>3
<1> QED BY <1>6

\* Keyed rows no two of which are alike stay as they are, under their new keys.
LEMMA CollapseOfDistinct ==
  ASSUME NEW rows, \A s \in rows : Counts("keyed", s), NEW fine,
         \A s, t \in rows : fine[s] = fine[t] => s = t
  PROVE  Collapse("keyed", rows, fine) = {SkipRow(fine[s][1], fine[s][2], [first |-> s.first, last |-> s.last, n |-> s.n]) : s \in rows}
<1>1. ASSUME NEW s \in rows
      PROVE  Widest("keyed", Alike(rows, fine, fine[s])) = [first |-> s.first, last |-> s.last, n |-> s.n]
  <2>1. Alike(rows, fine, fine[s]) = {s}
    BY DEF Alike
  <2>2. Counts("keyed", s)
    OBVIOUS
  <2>3. Widest("keyed", {s}) = [first |-> s.first, last |-> s.last, n |-> s.n]
    BY <2>2, WidestOfOne
  <2> QED BY <2>1, <2>3
<1>2. Collapse("keyed", rows, fine) = {SkipRow(fine[s][1], fine[s][2], Widest("keyed", Alike(rows, fine, fine[s]))) : s \in rows}
  BY DEF Collapse
<1> QED BY <1>1, <1>2

-----------------------------------------------------------------------------
(* Signals: a revision keeps its first sighting.                           *)
IsSignal(s) == s = SignalRow(s.ref, s.rev, s.at) /\ IsRef(s.ref) /\ s.at \in Nat
Distinct(signals) == \A s, t \in signals : s.ref = t.ref /\ s.rev = t.rev => s = t

LEMMA SignalFields ==
  ASSUME NEW ref, NEW rev, NEW at
  PROVE  SignalRow(ref, rev, at).ref = ref /\ SignalRow(ref, rev, at).rev = rev /\ SignalRow(ref, rev, at).at = at
BY DEF SignalRow

LEMMA ToldOfCurrent ==
  ASSUME NEW signals, \A s \in signals : IsSignal(s) /\ ~IsStale(s.ref), Distinct(signals)
  PROVE  Told(signals) = signals
<1> DEFINE told == {SignalRow(Today(s.ref), s.rev, s.at) : s \in signals}
<1>1. \A s \in signals : SignalRow(Today(s.ref), s.rev, s.at) = s
  BY KeyedIsToday DEF IsSignal
<1>2. told = signals
  BY <1>1
<1>3. \A s \in signals : \A t \in signals : t.ref = s.ref /\ t.rev = s.rev => s.at <= t.at
  BY DEF Distinct, IsSignal
<1> QED BY <1>2, <1>3 DEF Told

LEMMA EarliestIs ==
  ASSUME NEW S, S # {}, \A s \in S : s.at \in Nat
  PROVE  Earliest(S) \in S /\ \A s \in S : Earliest(S).at <= s.at
<1> DEFINE T == {s.at : s \in S}
<1>1. T \in SUBSET Nat /\ T # {}
  OBVIOUS
<1>2. PICK n \in T : \A m \in T : n <= m
  <2> HIDE DEF T
  <2> QED BY <1>1, LeastNatural
<1>3. PICK r \in S : r.at = n
  BY <1>2
<1>4. \A s \in S : r.at <= s.at
  BY <1>2, <1>3
<1> QED BY <1>4 DEF Earliest

LEMMA SignalsToldTheSame ==
  ASSUME NEW signals, \A s \in signals : IsSignal(s)
  PROVE  LET out == SignalsOut(signals)
         IN  Told(out) = Told(signals) /\ Distinct(out) /\ \A o \in out : IsSignal(o) /\ ~IsStale(o.ref)
<1> DEFINE out == SignalsOut(signals)
           same(ref, rev) == {s \in signals : Keyed(s.ref) = ref /\ s.rev = rev}
           told == {SignalRow(Today(s.ref), s.rev, s.at) : s \in signals}
<1>1. ASSUME NEW o \in out
      PROVE  /\ \E s \in signals : o.ref = Today(s.ref) /\ o.rev = s.rev /\ o.at = s.at
             /\ o = SignalRow(o.ref, o.rev, o.at) /\ o.at \in Nat
             /\ \A s \in signals : Today(s.ref) = o.ref /\ s.rev = o.rev => o.at <= s.at
  <2>1. PICK s \in signals : o = SignalRow(Keyed(s.ref), s.rev, Earliest(same(Keyed(s.ref), s.rev)).at)
    <3>1. PICK k \in {<<Keyed(s.ref), s.rev>> : s \in signals} :
                 o = LET had == {t \in signals : Keyed(t.ref) = k[1] /\ t.rev = k[2]} IN SignalRow(k[1], k[2], Earliest(had).at)
      BY <1>1 DEF SignalsOut
    <3>2. PICK s \in signals : k = <<Keyed(s.ref), s.rev>>
      OBVIOUS
    <3>3. k[1] = Keyed(s.ref) /\ k[2] = s.rev
      BY <3>2
    <3>4. o = SignalRow(Keyed(s.ref), s.rev, Earliest(same(Keyed(s.ref), s.rev)).at)
      <4> HIDE DEF out
      <4> QED BY <3>1, <3>3
    <3> HIDE DEF out
    <3> QED BY <3>4
  <2> DEFINE S == same(Keyed(s.ref), s.rev)
             e == Earliest(S)
  <2>2. S # {} /\ \A t \in S : t.at \in Nat
    BY DEF IsSignal
  <2>3. e \in S /\ \A t \in S : e.at <= t.at
    <3> HIDE DEF S
    <3> QED BY <2>2, EarliestIs
  <2>4. o.ref = Keyed(s.ref) /\ o.rev = s.rev /\ o.at = e.at
    BY <2>1, SignalFields
  <2>5. o = SignalRow(o.ref, o.rev, o.at)
    <3> HIDE DEF e, S
    <3> QED BY <2>1, <2>4 DEF e, S
  <2>6. \A t \in signals : Keyed(t.ref) = Today(t.ref)
    BY KeyedIsToday DEF IsSignal
  <2>7. e \in signals /\ Keyed(e.ref) = Keyed(s.ref) /\ e.rev = s.rev /\ e.at \in Nat
    BY <2>2, <2>3
  <2>8. \A t \in signals : Keyed(t.ref) = Keyed(s.ref) /\ t.rev = s.rev => e.at <= t.at
    BY <2>3
  <2> HIDE DEF e, S
  <2> QED BY <2>4, <2>5, <2>6, <2>7, <2>8
<1>2. ASSUME NEW s \in signals PROVE \E o \in out : o.ref = Today(s.ref) /\ o.rev = s.rev
  <2> DEFINE o == SignalRow(Keyed(s.ref), s.rev, Earliest(same(Keyed(s.ref), s.rev)).at)
             k == <<Keyed(s.ref), s.rev>>
  <2>1. o \in out
    <3>1. k \in {<<Keyed(t.ref), t.rev>> : t \in signals} /\ k[1] = Keyed(s.ref) /\ k[2] = s.rev
      OBVIOUS
    <3>2. o = LET same1 == {t \in signals : Keyed(t.ref) = k[1] /\ t.rev = k[2]} IN SignalRow(k[1], k[2], Earliest(same1).at)
      BY <3>1
    <3> HIDE DEF o, k
    <3> QED BY <3>1, <3>2 DEF SignalsOut
  <2>2. o.ref = Keyed(s.ref) /\ o.rev = s.rev
    BY SignalFields
  <2>3. Keyed(s.ref) = Today(s.ref)
    BY KeyedIsToday DEF IsSignal
  <2> HIDE DEF o, out
  <2> QED BY <2>1, <2>2, <2>3
<1> HIDE DEF out
<1>3. Distinct(out)
  <2> SUFFICES ASSUME NEW o \in out, NEW p \in out, o.ref = p.ref, o.rev = p.rev PROVE o = p
    BY DEF Distinct
  <2>1. PICK s \in signals : o.ref = Today(s.ref) /\ o.rev = s.rev /\ o.at = s.at
    BY <1>1
  <2>2. PICK t \in signals : p.ref = Today(t.ref) /\ p.rev = t.rev /\ p.at = t.at
    BY <1>1
  <2>3. o.at <= t.at /\ p.at <= s.at
    BY <1>1, <2>1, <2>2
  <2>4. o.at = p.at
    BY <1>1, <2>1, <2>2, <2>3
  <2> QED BY <1>1, <2>4
<1>4. \A o \in out : IsSignal(o) /\ ~IsStale(o.ref)
  <2> SUFFICES ASSUME NEW o \in out PROVE IsSignal(o) /\ ~IsStale(o.ref)
    OBVIOUS
  <2>1. PICK s \in signals : o.ref = Today(s.ref)
    BY <1>1
  <2>2. IsRef(o.ref) /\ ~IsStale(o.ref)
    BY <2>1, KeyedIsToday DEF IsSignal
  <2> QED BY <1>1, <2>2 DEF IsSignal
<1>5. Told(out) = out
  BY <1>3, <1>4, ToldOfCurrent
<1>6. \A s \in signals : LET r == SignalRow(Today(s.ref), s.rev, s.at) IN r.ref = Today(s.ref) /\ r.rev = s.rev /\ r.at = s.at
  BY SignalFields
<1>7. Told(signals) \subseteq out
  <2> SUFFICES ASSUME NEW r \in Told(signals) PROVE r \in out
    OBVIOUS
  <2>1. r \in told /\ \A t \in told : t.ref = r.ref /\ t.rev = r.rev => r.at <= t.at
    BY DEF Told
  <2>2. PICK s \in signals : r = SignalRow(Today(s.ref), s.rev, s.at)
    BY <2>1
  <2>3. r.ref = Today(s.ref) /\ r.rev = s.rev /\ r.at = s.at
    BY <2>2, SignalFields
  <2>4. PICK o \in out : o.ref = Today(s.ref) /\ o.rev = s.rev
    BY <1>2
  <2>5. PICK t \in signals : o.ref = Today(t.ref) /\ o.rev = t.rev /\ o.at = t.at
    BY <1>1
  <2>6. r.at <= t.at
    <3> DEFINE q == SignalRow(Today(t.ref), t.rev, t.at)
    <3>1. q \in told
      OBVIOUS
    <3>2. q.ref = r.ref /\ q.rev = r.rev /\ q.at = t.at
      BY <2>3, <2>4, <2>5, SignalFields
    <3> HIDE DEF q, told
    <3> QED BY <2>1, <3>1, <3>2
  <2>7. o.at <= s.at
    BY <1>1, <2>4
  <2>8. s.at \in Nat /\ t.at \in Nat
    BY DEF IsSignal
  <2>9. o.at = r.at
    BY <2>3, <2>5, <2>6, <2>7, <2>8
  <2>10. o = r
    BY <1>1, <2>2, <2>3, <2>4, <2>9
  <2> QED BY <2>10
<1>8. out \subseteq Told(signals)
  <2> SUFFICES ASSUME NEW o \in out PROVE o \in Told(signals)
    OBVIOUS
  <2>1. PICK s \in signals : o.ref = Today(s.ref) /\ o.rev = s.rev /\ o.at = s.at
    BY <1>1
  <2>2. o \in told
    BY <1>1, <2>1
  <2>3. \A t \in told : t.ref = o.ref /\ t.rev = o.rev => o.at <= t.at
    <3> SUFFICES ASSUME NEW t \in told, t.ref = o.ref, t.rev = o.rev PROVE o.at <= t.at
      OBVIOUS
    <3>1. PICK u \in signals : t = SignalRow(Today(u.ref), u.rev, u.at)
      OBVIOUS
    <3>2. t.ref = Today(u.ref) /\ t.rev = u.rev /\ t.at = u.at
      BY <3>1, SignalFields
    <3> HIDE DEF told
    <3> QED BY <1>1, <3>2
  <2> QED BY <2>2, <2>3 DEF Told
<1> QED BY <1>3, <1>4, <1>5, <1>7, <1>8 DEF out

-----------------------------------------------------------------------------
(* Skips: each step of an opening collapses them on some key.              *)
Spoken(skips) == [s \in skips |-> <<Lower(s.account), Today(s.ref)>>]
Unlike(skips) == \A s, t \in skips : s.account = t.account /\ s.ref = t.ref => s = t

LEMMA LoweredIsAnAddress ==
  ASSUME NEW a, IsAddress(a)
  PROVE  IsAddress(Lower(a)) /\ Lower(a) = Account(a.who, FALSE)
<1>1. a = [who |-> a.who, summed |-> a.summed]
  BY DEF IsAddress, Account
<1>2. \A w, u, f : [[who |-> w, summed |-> u] EXCEPT !.summed = f] = [who |-> w, summed |-> f]
  OBVIOUS
<1>3. [a EXCEPT !.summed = FALSE] = [who |-> a.who, summed |-> FALSE]
  <2> DEFINE w == a.who
             u == a.summed
  <2>1. a = [who |-> w, summed |-> u]
    BY <1>1
  <2> HIDE DEF w, u
  <2>2. [a EXCEPT !.summed = FALSE] = [who |-> w, summed |-> FALSE]
    BY <1>2, <2>1, Zenon
  <2> QED BY <2>2 DEF w
<1>4. Lower(a) = Account(a.who, FALSE)
  BY <1>3 DEF Lower, Account
<1>5. \A w : IsAddress(Account(w, FALSE))
  BY DEF IsAddress, Account
<1> QED BY <1>4, <1>5

LEMMA SaidIsCollapse ==
  ASSUME NEW form, NEW skips
  PROVE  Said(form, skips) = Collapse(form, skips, Spoken(skips))
<1> DEFINE fine == Spoken(skips)
           K == {<<Lower(s.account), Today(s.ref)>> : s \in skips}
<1>1. \A s \in skips : fine[s] = <<Lower(s.account), Today(s.ref)>>
  BY DEF Spoken
<1>2. {fine[s] : s \in skips} = K
  <2> HIDE DEF fine
  <2> QED BY <1>1
<1> DEFINE those(k) == {s \in skips : Lower(s.account) = k[1] /\ Today(s.ref) = k[2]}
<1>3. ASSUME NEW k \in K
      PROVE  those(k) = Alike(skips, fine, k)
  <2> HIDE DEF fine
  <2> QED BY <1>1, <1>3 DEF Alike
<1>4. Collapse(form, skips, fine) = {SkipRow(k[1], k[2], Widest(form, Alike(skips, fine, k))) : k \in K}
  <2> HIDE DEF K, fine
  <2> QED BY <1>2 DEF Collapse
<1>5. Said(form, skips) = {SkipRow(k[1], k[2], Widest(form, those(k))) : k \in K}
  BY DEF Said
<1> HIDE DEF K, fine, those
<1>6. Said(form, skips) = Collapse(form, skips, fine)
  BY <1>3, <1>4, <1>5
<1> QED BY <1>6 DEF fine

LEMMA SkipCounts ==
  ASSUME NEW form, NEW s, IsSkip(form, s)
  PROVE  Counts(form, s)
BY DEF IsSkip, Counts

\* What a collapse on a key finer than what is spoken of leaves.
Finer(skips, fine) ==
  \A s \in skips : /\ IsAddress(fine[s][1]) /\ IsRef(fine[s][2])
                   /\ Lower(fine[s][1]) = Lower(s.account) /\ Today(fine[s][2]) = Today(s.ref)
LEMMA CollapseSaysTheSame ==
  ASSUME NEW form, NEW skips, IsFiniteSet(skips), \A s \in skips : IsSkip(form, s),
         NEW fine, Pairs(skips, fine), Finer(skips, fine),
         NEW out, out = Collapse(form, skips, fine)
  PROVE  /\ Said("keyed", out) = Said(form, skips) /\ IsFiniteSet(out) /\ Unlike(out)
         /\ \A o \in out : IsSkip("keyed", o) /\ \E s \in skips : o.account = fine[s][1] /\ o.ref = fine[s][2]
<1>0. \A s \in skips : Counts(form, s)
  BY SkipCounts
<1>1. /\ IsFiniteSet(out)
      /\ \A o \in out : /\ \E s \in skips : <<o.account, o.ref>> = fine[s]
                        /\ o = SkipRow(o.account, o.ref, [first |-> o.first, last |-> o.last, n |-> o.n])
      /\ \A o \in out : Counts("keyed", o)
      /\ \A o, p \in out : o.account = p.account /\ o.ref = p.ref => o = p
  <2> DEFINE made == Collapse(form, skips, fine)
  <2>1. /\ IsFiniteSet(made)
        /\ \A o \in made : /\ \E s \in skips : <<o.account, o.ref>> = fine[s]
                           /\ o = SkipRow(o.account, o.ref, [first |-> o.first, last |-> o.last, n |-> o.n])
        /\ \A o \in made : Counts("keyed", o)
        /\ \A o, p \in made : o.account = p.account /\ o.ref = p.ref => o = p
    BY <1>0, CollapsedRows
  <2>2. out = made
    OBVIOUS
  <2> HIDE DEF made
  <2> QED BY <2>1, <2>2
<1>2. \A o \in out, s \in skips : fine[s] = <<o.account, o.ref>> => Spoken(out)[o] = Spoken(skips)[s]
  <2> QED BY DEF Spoken, Finer
<1>3. Collapse("keyed", out, Spoken(out)) = Collapse(form, skips, Spoken(skips))
  <2> DEFINE again == Spoken(out)
             coarse == Spoken(skips)
  <2>1. Again(out, skips, fine, again, coarse)
    BY <1>2 DEF Again
  <2>2. out = Collapse(form, skips, fine)
    OBVIOUS
  <2> HIDE DEF again, coarse
  <2>3. Collapse("keyed", out, again) = Collapse(form, skips, coarse)
    BY <1>0, <2>1, <2>2, CollapseTwice
  <2> QED BY <2>3 DEF again, coarse
<1>4. ASSUME NEW o \in out PROVE IsSkip("keyed", o) /\ \E s \in skips : o.account = fine[s][1] /\ o.ref = fine[s][2]
  <2>1. PICK s \in skips : <<o.account, o.ref>> = fine[s]
    BY <1>1
  <2>2. o.account = fine[s][1] /\ o.ref = fine[s][2]
    BY <2>1
  <2>3. IsAddress(o.account) /\ IsRef(o.ref)
    BY <2>2 DEF Finer
  <2>4. Counts("keyed", o) /\ o = SkipRow(o.account, o.ref, [first |-> o.first, last |-> o.last, n |-> o.n])
    BY <1>1
  <2> QED BY <2>2, <2>3, <2>4 DEF IsSkip, Counts
<1>5. Said("keyed", out) = Said(form, skips)
  BY <1>3, SaidIsCollapse
<1>6. Unlike(out)
  BY <1>1 DEF Unlike
<1> QED BY <1>1, <1>4, <1>5, <1>6

LEMMA CollapsedSaysTheSame ==
  ASSUME NEW log, IsFiniteSet(log), \A s \in log : IsSkip("log", s)
  PROVE  LET out == Collapsed(log)
         IN  /\ Said("keyed", out) = Said("log", log) /\ IsFiniteSet(out) /\ Unlike(out)
             /\ \A o \in out : IsSkip("keyed", o)
<1> DEFINE fine == [s \in log |-> <<s.account, s.ref>>]
           K == {<<s.account, s.ref>> : s \in log}
           out == Collapse("log", log, fine)
<1>1. Pairs(log, fine)
  BY DEF Pairs
<1>2. Finer(log, fine)
  BY DEF IsSkip, Finer
<1> DEFINE those(k) == {r \in log : r.account = k[1] /\ r.ref = k[2]}
<1>3. Collapsed(log) = out
  <2>1. \A k \in K : those(k) = Alike(log, fine, k)
    BY DEF Alike
  <2>2. out = {SkipRow(k[1], k[2], Widest("log", Alike(log, fine, k))) : k \in K}
    <3>1. {fine[s] : s \in log} = K
      OBVIOUS
    <3> HIDE DEF K, fine
    <3> QED BY <3>1 DEF Collapse
  <2>3. Collapsed(log) = {SkipRow(k[1], k[2], Widest("log", those(k))) : k \in K}
    BY DEF Collapsed
  <2> HIDE DEF K, fine, out, those
  <2> QED BY <2>1, <2>2, <2>3
<1>4. /\ Said("keyed", out) = Said("log", log) /\ IsFiniteSet(out) /\ Unlike(out)
      /\ \A o \in out : IsSkip("keyed", o)
  <2>1. out = Collapse("log", log, fine)
    OBVIOUS
  <2> HIDE DEF fine, K, those, out
  <2> QED BY <1>1, <1>2, <2>1, CollapseSaysTheSame
<1> HIDE DEF out
<1> QED BY <1>3, <1>4

LEMMA SkipsOutSaysTheSame ==
  ASSUME NEW skips, IsFiniteSet(skips), \A s \in skips : IsSkip("keyed", s)
  PROVE  LET out == SkipsOut(skips)
         IN  /\ Said("keyed", out) = Said("keyed", skips) /\ IsFiniteSet(out) /\ Unlike(out)
             /\ \A o \in out : IsSkip("keyed", o) /\ ~IsStale(o.ref)
<1> DEFINE fine == [s \in skips |-> <<s.account, Keyed(s.ref)>>]
           K == {<<s.account, Keyed(s.ref)>> : s \in skips}
           out == Collapse("keyed", skips, fine)
<1>1. Pairs(skips, fine)
  BY DEF Pairs
<1>0. \A s \in skips : IsAddress(s.account) /\ IsRef(s.ref)
  BY DEF IsSkip
<1>5. \A s \in skips : Keyed(s.ref) = Today(s.ref) /\ IsRef(Today(s.ref)) /\ ~IsStale(Today(s.ref)) /\ Today(Today(s.ref)) = Today(s.ref)
  BY <1>0, KeyedIsToday
<1>2. Finer(skips, fine)
  BY <1>0, <1>5 DEF Finer
<1> DEFINE those(k) == {s \in skips : s.account = k[1] /\ Keyed(s.ref) = k[2]}
<1>3. SkipsOut(skips) = out
  <2>1. \A k \in K : those(k) = Alike(skips, fine, k)
    BY DEF Alike
  <2>2. out = {SkipRow(k[1], k[2], Widest("keyed", Alike(skips, fine, k))) : k \in K}
    <3>1. {fine[s] : s \in skips} = K
      OBVIOUS
    <3> HIDE DEF K, fine
    <3> QED BY <3>1 DEF Collapse
  <2>3. SkipsOut(skips) = {SkipRow(k[1], k[2], Widest("keyed", those(k))) : k \in K}
    BY DEF SkipsOut
  <2> HIDE DEF K, fine, out, those
  <2> QED BY <2>1, <2>2, <2>3
<1>4. /\ Said("keyed", out) = Said("keyed", skips) /\ IsFiniteSet(out) /\ Unlike(out)
      /\ \A o \in out : IsSkip("keyed", o) /\ \E s \in skips : o.account = fine[s][1] /\ o.ref = fine[s][2]
  <2>1. out = Collapse("keyed", skips, fine)
    OBVIOUS
  <2> HIDE DEF fine, K, those, out
  <2> QED BY <1>1, <1>2, <2>1, CollapseSaysTheSame
<1>6. \A o \in out : ~IsStale(o.ref)
  <2> HIDE DEF out
  <2> QED BY <1>4, <1>5
<1> HIDE DEF out
<1> QED BY <1>3, <1>4, <1>6

LEMMA LoweredSaysTheSame ==
  ASSUME NEW skips, IsFiniteSet(skips), \A s \in skips : IsSkip("keyed", s), Unlike(skips), ~SkipsMeet(skips)
  PROVE  LET out == Lowered(skips)
         IN  /\ Said("keyed", out) = Said("keyed", skips) /\ IsFiniteSet(out) /\ Unlike(out)
             /\ \A o \in out : IsSkip("keyed", o) /\ o.account = Lower(o.account) /\ \E s \in skips : o.ref = s.ref
<1> DEFINE fine == [s \in skips |-> <<Lower(s.account), s.ref>>]
           out == Collapse("keyed", skips, fine)
<1>1. Pairs(skips, fine)
  BY DEF Pairs
<1>0. \A s \in skips : IsAddress(s.account) /\ IsRef(s.ref)
  BY DEF IsSkip
<1>5. \A a : IsAddress(a) => IsAddress(Lower(a))
  BY LoweredIsAnAddress
<1>2. Finer(skips, fine)
  BY <1>0, <1>5, LowerTwice DEF Finer
<1>6. \A s \in skips : Counts("keyed", s)
  BY SkipCounts
<1>3. \A s, t \in skips : fine[s] = fine[t] => s = t
  <2> SUFFICES ASSUME NEW s \in skips, NEW t \in skips, fine[s] = fine[t] PROVE s = t
    OBVIOUS
  <2>1. Lower(s.account) = Lower(t.account) /\ s.ref = t.ref
    OBVIOUS
  <2>2. s.account = t.account
    BY <2>1 DEF SkipsMeet
  <2> QED BY <2>1, <2>2 DEF Unlike
<1>4. /\ Said("keyed", out) = Said("keyed", skips) /\ IsFiniteSet(out) /\ Unlike(out)
      /\ \A o \in out : IsSkip("keyed", o) /\ \E s \in skips : o.account = fine[s][1] /\ o.ref = fine[s][2]
  <2>1. out = Collapse("keyed", skips, fine)
    OBVIOUS
  <2> HIDE DEF fine, out
  <2> QED BY <1>1, <1>2, <2>1, CollapseSaysTheSame
<1>7. out = Lowered(skips)
  <2>1. out = {SkipRow(fine[s][1], fine[s][2], [first |-> s.first, last |-> s.last, n |-> s.n]) : s \in skips}
    <3> HIDE DEF fine
    <3> QED BY <1>3, <1>6, CollapseOfDistinct
  <2>2. ASSUME NEW s \in skips
        PROVE  SkipRow(fine[s][1], fine[s][2], [first |-> s.first, last |-> s.last, n |-> s.n]) = [s EXCEPT !.account = Lower(@)]
    <3> DEFINE a == Lower(s.account)
    <3>1. s = SkipRow(s.account, s.ref, [first |-> s.first, last |-> s.last, n |-> s.n])
      BY DEF IsSkip
    <3>2. s = [account |-> s.account, ref |-> s.ref, first |-> s.first, last |-> s.last, n |-> s.n]
      BY <3>1 DEF SkipRow
    <3>3. fine[s][1] = a /\ fine[s][2] = s.ref
      OBVIOUS
    <3> HIDE DEF a, fine
    <3>4. [s EXCEPT !.account = a] = [account |-> a, ref |-> s.ref, first |-> s.first, last |-> s.last, n |-> s.n]
      BY <3>2
    <3> QED BY <3>3, <3>4 DEF SkipRow, a
  <2> HIDE DEF fine, out
  <2> QED BY <2>1, <2>2 DEF Lowered
<1>8. \A o \in out : o.account = Lower(o.account) /\ \E s \in skips : o.ref = s.ref
  <2> HIDE DEF out
  <2> QED BY <1>4, LowerTwice
<1> HIDE DEF out
<1> QED BY <1>4, <1>7, <1>8

LEMMA SaidOfCurrent ==
  ASSUME NEW skips, \A s \in skips : IsSkip("keyed", s), Unlike(skips),
         \A s \in skips : s.account = Lower(s.account) /\ ~IsStale(s.ref)
  PROVE  Said("keyed", skips) = skips
<1> DEFINE fine == Spoken(skips)
<1>1. \A s \in skips : fine[s] = <<s.account, s.ref>>
  <2>1. \A s \in skips : IsRef(s.ref)
    BY DEF IsSkip
  <2>2. \A s \in skips : Today(s.ref) = s.ref
    BY <2>1, KeyedIsToday
  <2> QED BY <2>2 DEF Spoken
<1>2. \A s \in skips : Counts("keyed", s)
  BY SkipCounts
<1> HIDE DEF fine
<1>3. \A s, t \in skips : fine[s] = fine[t] => s = t
  BY <1>1 DEF Unlike
<1>4. Collapse("keyed", skips, fine) = {SkipRow(fine[s][1], fine[s][2], [first |-> s.first, last |-> s.last, n |-> s.n]) : s \in skips}
  BY <1>2, <1>3, CollapseOfDistinct
<1>5. \A s \in skips : SkipRow(fine[s][1], fine[s][2], [first |-> s.first, last |-> s.last, n |-> s.n]) = s
  <2>1. \A s \in skips : fine[s][1] = s.account /\ fine[s][2] = s.ref
    BY <1>1
  <2> QED BY <2>1 DEF IsSkip
<1>6. Collapse("keyed", skips, fine) = skips
  BY <1>4, <1>5
<1> QED BY <1>6, SaidIsCollapse DEF fine

-----------------------------------------------------------------------------
(* What each step of an opening makes of the file: a file again, that says  *)
(* the same.                                                               *)
LEMMA RowsMoved ==
  ASSUME NEW a, NEW b, NEW c, NEW x
  PROVE  /\ [AccountsRow(a, b) EXCEPT !.account = x] = AccountsRow(x, b)
         /\ [IntentRow(a, b, c) EXCEPT !.account = x] = IntentRow(a, x, c)
         /\ [IntentRow(a, b, c) EXCEPT !.ref = x] = IntentRow(a, b, x)
         /\ [PaperRow(a, b) EXCEPT !.owner = x] = PaperRow(x, b)
BY DEF AccountsRow, IntentRow, PaperRow

LEMMA RowFields ==
  ASSUME NEW a, NEW b, NEW c
  PROVE  /\ AccountsRow(a, b).account = a /\ AccountsRow(a, b).dated = b
         /\ IntentRow(a, b, c).id = a /\ IntentRow(a, b, c).account = b /\ IntentRow(a, b, c).ref = c
         /\ PaperRow(a, b).owner = a /\ PaperRow(a, b).row = b
BY DEF AccountsRow, IntentRow, PaperRow

\* A file by its tables.
IsFile(l) == l = [accounts |-> l.accounts, paperForm |-> l.paperForm, paper |-> l.paper, skipForm |-> l.skipForm, skips |-> l.skips,
                  signals |-> l.signals, columns |-> l.columns, intents |-> l.intents]
AreAccounts(rows) == IsFiniteSet(rows) /\ \A a \in rows : a = AccountsRow(a.account, a.dated) /\ IsAddress(a.account)
ArePaper(rows) == \A p \in rows : p = PaperRow(p.owner, p.row) /\ IsAddress(p.owner)
AreIntents(rows) == \A i \in rows : i = IntentRow(i.id, i.account, i.ref) /\ IsAddress(i.account) /\ IsRef(i.ref)
AreSignals(rows) == Distinct(rows) /\ \A s \in rows : IsSignal(s)
AreSkips(form, rows) == IsFiniteSet(rows) /\ (form # "log" => Unlike(rows)) /\ \A s \in rows : IsSkip(form, s)
AreForms(l) == /\ l.paperForm \in {"none", "global", "owned"} /\ l.skipForm \in {"none", "log", "keyed"}
               /\ l.skipForm = "none" => l.paperForm = "none" /\ l.skips = {}

LEMMA LedgerByTables ==
  ASSUME NEW l
  PROVE  IsLedger(l) <=> /\ IsFile(l) /\ AreForms(l) /\ AreAccounts(l.accounts) /\ ArePaper(l.paper) /\ AreIntents(l.intents)
                         /\ AreSignals(l.signals) /\ AreSkips(l.skipForm, l.skips)
<1>1. IsLedger(l) => IsFile(l) /\ AreForms(l) /\ AreAccounts(l.accounts) /\ ArePaper(l.paper) /\ AreIntents(l.intents)
  BY DEF IsLedger, IsFile, AreForms, AreAccounts, ArePaper, AreIntents
<1>2. IsLedger(l) => AreSignals(l.signals) /\ AreSkips(l.skipForm, l.skips)
  BY DEF IsLedger, AreSignals, Distinct, IsSignal, AreSkips, Unlike
<1>3. IsFile(l) /\ AreForms(l) /\ AreAccounts(l.accounts) /\ ArePaper(l.paper) /\ AreIntents(l.intents) /\ AreSignals(l.signals)
      /\ AreSkips(l.skipForm, l.skips) => IsLedger(l)
  BY DEF IsLedger, IsFile, AreForms, AreAccounts, ArePaper, AreIntents, AreSignals, Distinct, IsSignal, AreSkips, Unlike
<1> QED BY <1>1, <1>2, <1>3

Booked(rows) == {PaperRow(Lower(p.owner), p.row) : p \in rows}
Meant(rows) == {IntentRow(i.id, Lower(i.account), Today(i.ref)) : i \in rows}
Named(rows) == {Lower(a.account) : a \in rows}

LEMMA MeansByTables ==
  ASSUME NEW l
  PROVE  /\ Means(l) = [paper |-> Owned(l), skips |-> Said(l.skipForm, l.skips), signals |-> Told(l.signals),
                        intents |-> Meant(l.intents), accounts |-> Named(l.accounts)]
         /\ l.paperForm # "global" => Owned(l) = Booked(l.paper)
BY DEF Means, Owned, Meant, Named, Booked

LEMMA MeansTheSame ==
  ASSUME NEW l, NEW m, Owned(m) = Owned(l), Said(m.skipForm, m.skips) = Said(l.skipForm, l.skips), Told(m.signals) = Told(l.signals),
         Meant(m.intents) = Meant(l.intents), Named(m.accounts) = Named(l.accounts)
  PROVE  Means(m) = Means(l)
BY MeansByTables

LEMMA OwnedByTables ==
  ASSUME NEW l, NEW m, l.paperForm = m.paperForm, l.paper = m.paper, l.accounts = m.accounts
  PROVE  Owned(l) = Owned(m)
BY DEF Owned, PaperIsNobodys, OwnerOf

LEMMA SaidOfNone == ASSUME NEW form PROVE Said(form, {}) = {}
BY DEF Said

LEMMA PaperMoved ==
  ASSUME NEW l, IsLedger(l), l.paperForm = "global", ~PaperIsNobodys(l), ~SchemaTrips(l),
         NEW paper, paper = {PaperRow(OwnerOf(l), p.row) : p \in l.paper},
         NEW m, m = [l EXCEPT !.paperForm = "owned", !.skipForm = "keyed", !.paper = paper]
  PROVE  IsLedger(m) /\ Means(m) = Means(l) /\ m.paperForm = "owned" /\ m.columns = l.columns
<1>0. IsFile(l) /\ AreForms(l) /\ AreAccounts(l.accounts) /\ ArePaper(l.paper) /\ AreIntents(l.intents)
      /\ AreSignals(l.signals) /\ AreSkips(l.skipForm, l.skips)
  BY LedgerByTables
<1>1. l.skipForm = "keyed"
  BY <1>0 DEF AreForms, SchemaTrips
<1>3. /\ m = [accounts |-> l.accounts, paperForm |-> "owned", paper |-> paper, skipForm |-> "keyed", skips |-> l.skips,
              signals |-> l.signals, columns |-> l.columns, intents |-> l.intents]
  BY <1>0 DEF IsFile
<1>4. /\ m.accounts = l.accounts /\ m.paperForm = "owned" /\ m.paper = paper /\ m.skipForm = l.skipForm /\ m.skips = l.skips
      /\ m.signals = l.signals /\ m.columns = l.columns /\ m.intents = l.intents
  BY <1>1, <1>3
<1>5. IsFile(m)
  BY <1>3, <1>4 DEF IsFile
<1>6. ArePaper(paper)
  <2>1. l.paper # {} => IsAddress(OwnerOf(l))
    <3> SUFFICES ASSUME l.paper # {} PROVE IsAddress(OwnerOf(l))
      OBVIOUS
    <3>1. Cardinality(l.accounts) = 1
      BY DEF PaperIsNobodys
    <3>2. l.accounts # {}
      <4> SUFFICES ASSUME l.accounts = {} PROVE FALSE
        OBVIOUS
      <4>1. Cardinality({}) = 0
        BY FS_EmptySet
      <4> QED BY <3>1, <4>1
    <3>3. (CHOOSE a \in l.accounts : TRUE) \in l.accounts
      BY <3>2
    <3> QED BY <1>0, <3>3 DEF AreAccounts, OwnerOf
  <2> DEFINE o == OwnerOf(l)
  <2>2. \A p \in l.paper : PaperRow(o, p.row).owner = o /\ PaperRow(o, p.row).row = p.row
    BY RowFields
  <2> HIDE DEF o
  <2>3. \A q \in paper : \E p \in l.paper : q = PaperRow(o, p.row)
    BY DEF o
  <2> QED BY <2>1, <2>2, <2>3 DEF ArePaper, o
<1>7. Owned(m) = Owned(l)
  <2> DEFINE o == OwnerOf(l)
  <2>1. Owned(l) = {PaperRow(Lower(o), p.row) : p \in l.paper}
    BY DEF Owned
  <2>2. Owned(m) = Booked(paper)
    BY <1>4, MeansByTables
  <2>3. \A p \in l.paper : PaperRow(o, p.row).owner = o /\ PaperRow(o, p.row).row = p.row
    BY RowFields
  <2>4. paper = {PaperRow(o, p.row) : p \in l.paper}
    OBVIOUS
  <2> HIDE DEF o
  <2>6. \A q \in paper : \E p \in l.paper : q.owner = o /\ q.row = p.row
    BY <2>3, <2>4
  <2>7. \A p \in l.paper : \E q \in paper : q.owner = o /\ q.row = p.row
    BY <2>3, <2>4
  <2>8. Booked(paper) = {PaperRow(Lower(q.owner), q.row) : q \in paper}
    BY DEF Booked
  <2>5. Booked(paper) = {PaperRow(Lower(o), p.row) : p \in l.paper}
    BY <2>6, <2>7, <2>8
  <2> QED BY <2>1, <2>2, <2>5
<1>8. Means(m) = Means(l)
  BY <1>4, <1>7, MeansByTables
<1>9. AreForms(m)
  BY <1>1, <1>4 DEF AreForms
<1>10. IsLedger(m)
  BY <1>0, <1>4, <1>5, <1>6, <1>9, LedgerByTables
<1> QED BY <1>4, <1>8, <1>10

TakesSkips(l, m, skips) == m = [l EXCEPT !.skipForm = "keyed", !.skips = skips]

LEMMA SkipsMoved ==
  ASSUME NEW l, IsLedger(l), l.skipForm = "log", NEW skips, skips = Collapsed(l.skips),
         NEW m, TakesSkips(l, m, skips)
  PROVE  IsLedger(m) /\ Means(m) = Means(l) /\ m.skipForm = "keyed" /\ m.paperForm = l.paperForm /\ m.columns = l.columns
<1>0. IsFile(l) /\ AreForms(l) /\ AreAccounts(l.accounts) /\ ArePaper(l.paper) /\ AreIntents(l.intents)
      /\ AreSignals(l.signals) /\ AreSkips(l.skipForm, l.skips)
  BY LedgerByTables
<1>1. AreSkips("keyed", skips) /\ Said("keyed", skips) = Said("log", l.skips)
  <2>1. IsFiniteSet(l.skips) /\ \A s \in l.skips : IsSkip("log", s)
    BY <1>0 DEF AreSkips
  <2> QED BY <2>1, CollapsedSaysTheSame DEF AreSkips
<1>3. /\ m = [accounts |-> l.accounts, paperForm |-> l.paperForm, paper |-> l.paper, skipForm |-> "keyed", skips |-> skips,
              signals |-> l.signals, columns |-> l.columns, intents |-> l.intents]
  BY <1>0 DEF IsFile, TakesSkips
<1>4. /\ m.accounts = l.accounts /\ m.paperForm = l.paperForm /\ m.paper = l.paper /\ m.skipForm = "keyed" /\ m.skips = skips
      /\ m.signals = l.signals /\ m.columns = l.columns /\ m.intents = l.intents
  BY <1>3
<1>5. IsFile(m)
  BY <1>3, <1>4 DEF IsFile
<1>7. Owned(m) = Owned(l)
  BY <1>4, OwnedByTables
<1>8. Means(m) = Means(l)
  <2>1. Said(m.skipForm, m.skips) = Said(l.skipForm, l.skips)
    BY <1>1, <1>4
  <2>2. Told(m.signals) = Told(l.signals) /\ Meant(m.intents) = Meant(l.intents) /\ Named(m.accounts) = Named(l.accounts)
    BY <1>4
  <2> QED BY <1>7, <2>1, <2>2, MeansTheSame
<1>9. AreForms(m)
  BY <1>0, <1>4 DEF AreForms
<1>10. IsLedger(m)
  BY <1>0, <1>1, <1>4, <1>5, <1>9, LedgerByTables
<1> QED BY <1>4, <1>8, <1>10

LEMMA SchemaMoved ==
  ASSUME NEW l, IsLedger(l), l.paperForm = "none", l.skipForm # "log", NEW m, NEW cols,
         m = [l EXCEPT !.paperForm = "owned", !.skipForm = "keyed", !.columns = cols]
  PROVE  IsLedger(m) /\ Means(m) = Means(l) /\ m.skipForm = "keyed" /\ m.paperForm = "owned" /\ m.columns = cols
<1>0. IsFile(l) /\ AreForms(l) /\ AreAccounts(l.accounts) /\ ArePaper(l.paper) /\ AreIntents(l.intents)
      /\ AreSignals(l.signals) /\ AreSkips(l.skipForm, l.skips)
  BY LedgerByTables
<1>3. /\ m = [accounts |-> l.accounts, paperForm |-> "owned", paper |-> l.paper, skipForm |-> "keyed", skips |-> l.skips,
              signals |-> l.signals, columns |-> cols, intents |-> l.intents]
  BY <1>0 DEF IsFile
<1>4. /\ m.accounts = l.accounts /\ m.paperForm = "owned" /\ m.paper = l.paper /\ m.skipForm = "keyed" /\ m.skips = l.skips
      /\ m.signals = l.signals /\ m.columns = cols /\ m.intents = l.intents
  BY <1>3
<1>5. IsFile(m)
  BY <1>3, <1>4 DEF IsFile
<1>1. AreSkips("keyed", l.skips) /\ Said("keyed", l.skips) = Said(l.skipForm, l.skips)
  <2>1. CASE l.skipForm = "keyed"
    BY <1>0, <2>1
  <2>2. CASE l.skipForm = "none"
    <3>1. l.skips = {}
      BY <1>0, <2>2 DEF AreForms
    <3> QED BY <3>1, SaidOfNone, FS_EmptySet DEF AreSkips, Unlike
  <2> QED BY <1>0, <2>1, <2>2 DEF AreForms
<1>7. Owned(m) = Owned(l)
  BY <1>4, MeansByTables
<1>8. Means(m) = Means(l)
  BY <1>1, <1>4, <1>7, MeansByTables
<1>9. AreForms(m)
  BY <1>4 DEF AreForms
<1>10. IsLedger(m)
  BY <1>0, <1>1, <1>4, <1>5, <1>9, LedgerByTables
<1> QED BY <1>4, <1>8, <1>10

LEMMA ColumnsMoved ==
  ASSUME NEW l, IsLedger(l), NEW m, NEW cols, m = [l EXCEPT !.columns = cols]
  PROVE  IsLedger(m) /\ Means(m) = Means(l) /\ m.skipForm = l.skipForm /\ m.paperForm = l.paperForm /\ m.columns = cols
<1>0. IsFile(l) /\ AreForms(l) /\ AreAccounts(l.accounts) /\ ArePaper(l.paper) /\ AreIntents(l.intents)
      /\ AreSignals(l.signals) /\ AreSkips(l.skipForm, l.skips)
  BY LedgerByTables
<1>3. /\ m = [accounts |-> l.accounts, paperForm |-> l.paperForm, paper |-> l.paper, skipForm |-> l.skipForm, skips |-> l.skips,
              signals |-> l.signals, columns |-> cols, intents |-> l.intents]
  BY <1>0 DEF IsFile
<1>4. /\ m.accounts = l.accounts /\ m.paperForm = l.paperForm /\ m.paper = l.paper /\ m.skipForm = l.skipForm /\ m.skips = l.skips
      /\ m.signals = l.signals /\ m.columns = cols /\ m.intents = l.intents
  BY <1>3
<1>5. IsFile(m)
  BY <1>3, <1>4 DEF IsFile
<1>7. Owned(m) = Owned(l)
  BY <1>4, OwnedByTables
<1>8. Means(m) = Means(l)
  BY <1>4, <1>7, MeansByTables
<1>9. AreForms(m)
  BY <1>0, <1>4 DEF AreForms
<1>10. IsLedger(m)
  BY <1>0, <1>4, <1>5, <1>9, LedgerByTables
<1> QED BY <1>4, <1>8, <1>10

-----------------------------------------------------------------------------
\* Rows that say the same are read the same.
LEMMA ReadTheSame ==
  ASSUME NEW A, NEW B
  PROVE  /\ (/\ \A a \in A : \E b \in B : a.id = b.id /\ Lower(a.account) = Lower(b.account) /\ Today(a.ref) = Today(b.ref)
             /\ \A b \in B : \E a \in A : a.id = b.id /\ Lower(a.account) = Lower(b.account) /\ Today(a.ref) = Today(b.ref))
            => Meant(A) = Meant(B)
         /\ (/\ \A a \in A : \E b \in B : a.row = b.row /\ Lower(a.owner) = Lower(b.owner)
             /\ \A b \in B : \E a \in A : a.row = b.row /\ Lower(a.owner) = Lower(b.owner))
            => Booked(A) = Booked(B)
         /\ (/\ \A a \in A : \E b \in B : Lower(a.account) = Lower(b.account)
             /\ \A b \in B : \E a \in A : Lower(a.account) = Lower(b.account))
            => Named(A) = Named(B)
<1>1. ASSUME \A a \in A : \E b \in B : a.id = b.id /\ Lower(a.account) = Lower(b.account) /\ Today(a.ref) = Today(b.ref),
             \A b \in B : \E a \in A : a.id = b.id /\ Lower(a.account) = Lower(b.account) /\ Today(a.ref) = Today(b.ref)
      PROVE  Meant(A) = Meant(B)
  BY <1>1 DEF Meant
<1>2. ASSUME \A a \in A : \E b \in B : a.row = b.row /\ Lower(a.owner) = Lower(b.owner),
             \A b \in B : \E a \in A : a.row = b.row /\ Lower(a.owner) = Lower(b.owner)
      PROVE  Booked(A) = Booked(B)
  BY <1>2 DEF Booked
<1>3. ASSUME \A a \in A : \E b \in B : Lower(a.account) = Lower(b.account),
             \A b \in B : \E a \in A : Lower(a.account) = Lower(b.account)
      PROVE  Named(A) = Named(B)
  BY <1>3 DEF Named
<1> QED BY <1>1, <1>2, <1>3

TakesKeys(l, m, signals, skips, intents) == m = [l EXCEPT !.signals = signals, !.skips = skips, !.intents = intents]

LEMMA KeysMoved ==
  ASSUME NEW l, IsLedger(l), l.paperForm = "owned", l.skipForm = "keyed",
         NEW signals, signals = SignalsOut(l.signals), NEW skips, skips = SkipsOut(l.skips),
         NEW intents, intents = {[i EXCEPT !.ref = Keyed(@)] : i \in l.intents},
         NEW m, TakesKeys(l, m, signals, skips, intents)
  PROVE  /\ IsLedger(m) /\ Means(m) = Means(l) /\ m.skipForm = "keyed" /\ m.paperForm = "owned" /\ m.columns = l.columns
         /\ StaleRows(m) = {}
<1>0. IsFile(l) /\ AreForms(l) /\ AreAccounts(l.accounts) /\ ArePaper(l.paper) /\ AreIntents(l.intents)
      /\ AreSignals(l.signals) /\ AreSkips(l.skipForm, l.skips)
  BY LedgerByTables
<1>3. /\ m = [accounts |-> l.accounts, paperForm |-> l.paperForm, paper |-> l.paper, skipForm |-> l.skipForm, skips |-> skips,
              signals |-> signals, columns |-> l.columns, intents |-> intents]
  BY <1>0 DEF IsFile, TakesKeys
<1>4. /\ m.accounts = l.accounts /\ m.paperForm = l.paperForm /\ m.paper = l.paper /\ m.skipForm = l.skipForm /\ m.skips = skips
      /\ m.signals = signals /\ m.columns = l.columns /\ m.intents = intents
  BY <1>3
<1>5. IsFile(m)
  BY <1>3, <1>4 DEF IsFile
<1>1. AreSkips("keyed", skips) /\ Said("keyed", skips) = Said("keyed", l.skips) /\ \A s \in skips : ~IsStale(s.ref)
  <2>1. IsFiniteSet(l.skips) /\ \A s \in l.skips : IsSkip("keyed", s)
    BY <1>0 DEF AreSkips
  <2> QED BY <2>1, SkipsOutSaysTheSame DEF AreSkips
<1>2. AreSignals(signals) /\ Told(signals) = Told(l.signals) /\ \A s \in signals : ~IsStale(s.ref)
  <2>1. \A s \in l.signals : IsSignal(s)
    BY <1>0 DEF AreSignals
  <2> QED BY <2>1, SignalsToldTheSame DEF AreSignals
<1>6. AreIntents(intents) /\ Meant(intents) = Meant(l.intents) /\ \A i \in intents : ~IsStale(i.ref)
  <2>1. ASSUME NEW i \in l.intents
        PROVE  /\ [i EXCEPT !.ref = Keyed(@)] = IntentRow(i.id, i.account, Today(i.ref))
               /\ IsAddress(i.account) /\ IsRef(Today(i.ref)) /\ ~IsStale(Today(i.ref)) /\ Today(Today(i.ref)) = Today(i.ref)
    <3>1. i = IntentRow(i.id, i.account, i.ref) /\ IsAddress(i.account) /\ IsRef(i.ref)
      BY <1>0 DEF AreIntents
    <3>2. Keyed(i.ref) = Today(i.ref) /\ IsRef(Today(i.ref)) /\ ~IsStale(Today(i.ref))
      BY <3>1, KeyedIsToday
    <3>3. Today(Today(i.ref)) = Today(i.ref)
      BY <3>2, KeyedIsToday
    <3> DEFINE a == i.id
               b == i.account
               c == i.ref
    <3>4. i = IntentRow(a, b, c)
      BY <3>1
    <3> HIDE DEF a, b, c
    <3>6. [IntentRow(a, b, c) EXCEPT !.ref = Keyed(c)] = IntentRow(a, b, Keyed(c))
      <4> DEFINE x == Keyed(c)
      <4>1. [IntentRow(a, b, c) EXCEPT !.ref = x] = IntentRow(a, b, x)
        <5> HIDE DEF x
        <5> QED BY DEF IntentRow
      <4> QED BY <4>1
    <3>5. [i EXCEPT !.ref = Keyed(c)] = IntentRow(a, b, Keyed(c))
      BY <3>4, <3>6
    <3> QED BY <3>1, <3>2, <3>3, <3>5 DEF a, b, c
  <2>2. \A i \in l.intents : LET j == IntentRow(i.id, i.account, Today(i.ref)) IN j.id = i.id /\ j.account = i.account /\ j.ref = Today(i.ref)
    BY RowFields
  <2>3. intents = {IntentRow(i.id, i.account, Today(i.ref)) : i \in l.intents}
    BY <2>1
  <2>4. \A j \in intents : \E i \in l.intents : j.id = i.id /\ j.account = i.account /\ j.ref = Today(i.ref) /\ j = IntentRow(i.id, i.account, Today(i.ref))
    BY <2>2, <2>3
  <2>5. \A i \in l.intents : \E j \in intents : j.id = i.id /\ j.account = i.account /\ j.ref = Today(i.ref)
    BY <2>2, <2>3
  <2>6. AreIntents(intents) /\ \A i \in intents : ~IsStale(i.ref)
    BY <2>1, <2>4 DEF AreIntents
  <2>7. \A i \in l.intents : Today(Today(i.ref)) = Today(i.ref)
    BY <2>1
  <2>8. Meant(intents) = Meant(l.intents)
    <3>1. /\ \A a \in intents : \E b \in l.intents : a.id = b.id /\ Lower(a.account) = Lower(b.account) /\ Today(a.ref) = Today(b.ref)
          /\ \A b \in l.intents : \E a \in intents : a.id = b.id /\ Lower(a.account) = Lower(b.account) /\ Today(a.ref) = Today(b.ref)
      <4>1. \A a \in intents : \E b \in l.intents : a.id = b.id /\ a.account = b.account /\ a.ref = Today(b.ref)
        BY <2>4
      <4>2. \A b \in l.intents : \E a \in intents : a.id = b.id /\ a.account = b.account /\ a.ref = Today(b.ref)
        BY <2>5
      <4>3. \A a \in intents : \E b \in l.intents : a.id = b.id /\ a.account = b.account /\ Today(a.ref) = Today(b.ref)
        BY <2>7, <4>1
      <4>4. \A b \in l.intents : \E a \in intents : a.id = b.id /\ a.account = b.account /\ Today(a.ref) = Today(b.ref)
        BY <2>7, <4>2
      <4> QED BY <4>3, <4>4
    <3> QED BY <3>1, ReadTheSame
  <2> QED BY <2>6, <2>8
<1>7. Owned(m) = Owned(l)
  BY <1>4, OwnedByTables
<1>8. Means(m) = Means(l)
  <2>1. Said(m.skipForm, m.skips) = Said(l.skipForm, l.skips)
    BY <1>1, <1>4
  <2>2. Told(m.signals) = Told(l.signals) /\ Meant(m.intents) = Meant(l.intents) /\ Named(m.accounts) = Named(l.accounts)
    BY <1>2, <1>4, <1>6
  <2> QED BY <1>7, <2>1, <2>2, MeansTheSame
<1>9. AreForms(m)
  BY <1>4 DEF AreForms
<1>10. IsLedger(m)
  BY <1>0, <1>1, <1>2, <1>4, <1>5, <1>6, <1>9, LedgerByTables
<1>11. StaleRows(m) = {}
  BY <1>1, <1>2, <1>4, <1>6 DEF StaleRows
<1> QED BY <1>4, <1>8, <1>10, <1>11

TakesAccounts(l, m, accounts) == m = [l EXCEPT !.accounts = accounts]

LEMMA DatesMoved ==
  ASSUME NEW l, IsLedger(l), l.paperForm # "global", NEW accounts, accounts = {AccountsRow(a.account, TRUE) : a \in l.accounts},
         NEW m, TakesAccounts(l, m, accounts)
  PROVE  /\ IsLedger(m) /\ Means(m) = Means(l) /\ m.skipForm = l.skipForm /\ m.paperForm = l.paperForm /\ m.columns = l.columns
         /\ StaleRows(m) = StaleRows(l) /\ \A a \in m.accounts : a.dated
<1>0. IsFile(l) /\ AreForms(l) /\ AreAccounts(l.accounts) /\ ArePaper(l.paper) /\ AreIntents(l.intents)
      /\ AreSignals(l.signals) /\ AreSkips(l.skipForm, l.skips)
  BY LedgerByTables
<1>3. /\ m = [accounts |-> accounts, paperForm |-> l.paperForm, paper |-> l.paper, skipForm |-> l.skipForm, skips |-> l.skips,
              signals |-> l.signals, columns |-> l.columns, intents |-> l.intents]
  BY <1>0 DEF IsFile, TakesAccounts
<1>4. /\ m.accounts = accounts /\ m.paperForm = l.paperForm /\ m.paper = l.paper /\ m.skipForm = l.skipForm /\ m.skips = l.skips
      /\ m.signals = l.signals /\ m.columns = l.columns /\ m.intents = l.intents
  BY <1>3
<1>5. IsFile(m)
  BY <1>3, <1>4 DEF IsFile
<1>1. \A a \in l.accounts : AccountsRow(a.account, TRUE).account = a.account /\ AccountsRow(a.account, TRUE).dated = TRUE
  BY RowFields
<1>2. \A b \in accounts : \E a \in l.accounts : b.account = a.account /\ b.dated = TRUE /\ b = AccountsRow(a.account, TRUE)
  BY <1>1
<1>6. \A a \in l.accounts : \E b \in accounts : b.account = a.account
  BY <1>1
<1>11. IsFiniteSet(accounts)
  <2> DEFINE f == [a \in l.accounts |-> AccountsRow(a.account, TRUE)]
  <2>1. IsFiniteSet({f[a] : a \in l.accounts})
    <3>1. IsFiniteSet(l.accounts)
      BY <1>0 DEF AreAccounts
    <3> HIDE DEF f
    <3> QED BY <3>1, FinitelyMany
  <2>2. accounts = {f[a] : a \in l.accounts}
    OBVIOUS
  <2> QED BY <2>1, <2>2
<1>12. AreAccounts(accounts)
  BY <1>0, <1>2, <1>11 DEF AreAccounts
<1>13. Named(accounts) = Named(l.accounts)
  BY <1>2, <1>6 DEF Named
<1>7. Owned(m) = Owned(l)
  BY <1>4, MeansByTables
<1>8. Means(m) = Means(l)
  <2>2. Told(m.signals) = Told(l.signals) /\ Meant(m.intents) = Meant(l.intents) /\ Named(m.accounts) = Named(l.accounts)
    BY <1>4, <1>13
  <2>1. Said(m.skipForm, m.skips) = Said(l.skipForm, l.skips)
    BY <1>4
  <2> QED BY <1>7, <2>1, <2>2, MeansTheSame
<1>9. AreForms(m)
  BY <1>0, <1>4 DEF AreForms
<1>10. IsLedger(m)
  BY <1>0, <1>4, <1>5, <1>9, <1>12, LedgerByTables
<1>14. StaleRows(m) = StaleRows(l)
  BY <1>4 DEF StaleRows
<1>15. \A a \in m.accounts : a.dated
  BY <1>2, <1>4
<1> QED BY <1>4, <1>8, <1>10, <1>14, <1>15

AllLower(l) == /\ \A r \in l.accounts \cup l.skips \cup l.intents : r.account = Lower(r.account)
               /\ \A p \in l.paper : p.owner = Lower(p.owner)

TakesOwners(l, m, accounts, skips, intents, paper) ==
  m = [l EXCEPT !.accounts = accounts, !.skips = skips, !.intents = intents, !.paper = paper]

LEMMA AccountsMoved ==
  ASSUME NEW l, IsLedger(l), l.paperForm = "owned", l.skipForm = "keyed", StaleRows(l) = {}, \A a \in l.accounts : a.dated,
         ~SkipsMeet(l.skips),
         NEW accounts, accounts = Lowered(l.accounts), NEW skips, skips = Lowered(l.skips),
         NEW intents, intents = Lowered(l.intents), NEW paper, paper = {[p EXCEPT !.owner = Lower(@)] : p \in l.paper},
         NEW m, TakesOwners(l, m, accounts, skips, intents, paper)
  PROVE  /\ IsLedger(m) /\ Means(m) = Means(l) /\ m.skipForm = "keyed" /\ m.paperForm = "owned" /\ m.columns = l.columns
         /\ StaleRows(m) = {} /\ AllLower(m) /\ \A a \in m.accounts : a.dated
<1>0. IsFile(l) /\ AreForms(l) /\ AreAccounts(l.accounts) /\ ArePaper(l.paper) /\ AreIntents(l.intents)
      /\ AreSignals(l.signals) /\ AreSkips(l.skipForm, l.skips)
  BY LedgerByTables
<1>3. /\ m = [accounts |-> accounts, paperForm |-> l.paperForm, paper |-> paper, skipForm |-> l.skipForm, skips |-> skips,
              signals |-> l.signals, columns |-> l.columns, intents |-> intents]
  BY <1>0 DEF IsFile, TakesOwners
<1>4. /\ m.accounts = accounts /\ m.paperForm = l.paperForm /\ m.paper = paper /\ m.skipForm = l.skipForm /\ m.skips = skips
      /\ m.signals = l.signals /\ m.columns = l.columns /\ m.intents = intents
  BY <1>3
<1>5. IsFile(m)
  BY <1>3, <1>4 DEF IsFile
<1>1. /\ AreSkips("keyed", skips) /\ Said("keyed", skips) = Said("keyed", l.skips)
      /\ \A s \in skips : s.account = Lower(s.account) /\ \E t \in l.skips : s.ref = t.ref
  <2>1. IsFiniteSet(l.skips) /\ Unlike(l.skips) /\ \A s \in l.skips : IsSkip("keyed", s)
    BY <1>0 DEF AreSkips
  <2> QED BY <2>1, LoweredSaysTheSame DEF AreSkips
<1>2. \A a : IsAddress(a) => IsAddress(Lower(a)) /\ Lower(Lower(a)) = Lower(a)
  BY LoweredIsAnAddress, LowerTwice
<1>6. /\ AreIntents(intents) /\ Meant(intents) = Meant(l.intents)
      /\ \A i \in intents : i.account = Lower(i.account) /\ \E j \in l.intents : i.ref = j.ref
  <2>1. ASSUME NEW i \in l.intents
        PROVE  /\ [i EXCEPT !.account = Lower(@)] = IntentRow(i.id, Lower(i.account), i.ref)
               /\ IsAddress(i.account) /\ IsRef(i.ref)
    <3>1. i = IntentRow(i.id, i.account, i.ref) /\ IsAddress(i.account) /\ IsRef(i.ref)
      BY <1>0 DEF AreIntents
    <3> DEFINE a == i.id
               b == i.account
               c == i.ref
    <3>4. i = IntentRow(a, b, c)
      BY <3>1
    <3> HIDE DEF a, b, c
    <3>5. [i EXCEPT !.account = Lower(b)] = IntentRow(a, Lower(b), c)
      BY <3>4, RowsMoved
    <3> QED BY <3>1, <3>5 DEF a, b, c
  <2>2. \A i \in l.intents : LET j == IntentRow(i.id, Lower(i.account), i.ref) IN j.id = i.id /\ j.account = Lower(i.account) /\ j.ref = i.ref
    BY RowFields
  <2>3. intents = {IntentRow(i.id, Lower(i.account), i.ref) : i \in l.intents}
    BY <2>1 DEF Lowered
  <2>4. \A j \in intents : \E i \in l.intents : j.id = i.id /\ j.account = Lower(i.account) /\ j.ref = i.ref /\ j = IntentRow(i.id, Lower(i.account), i.ref)
    BY <2>2, <2>3
  <2>5. \A i \in l.intents : \E j \in intents : j.id = i.id /\ j.account = Lower(i.account) /\ j.ref = i.ref
    BY <2>2, <2>3
  <2>10. ASSUME NEW j \in intents
         PROVE  /\ j = IntentRow(j.id, j.account, j.ref) /\ IsAddress(j.account) /\ IsRef(j.ref)
                /\ j.account = Lower(j.account) /\ \E i \in l.intents : j.ref = i.ref
    <3>1. PICK i \in l.intents : j.id = i.id /\ j.account = Lower(i.account) /\ j.ref = i.ref /\ j = IntentRow(i.id, Lower(i.account), i.ref)
      BY <2>4, <2>10
    <3>2. IsAddress(i.account) /\ IsRef(i.ref)
      BY <2>1
    <3>3. IsAddress(Lower(i.account)) /\ Lower(Lower(i.account)) = Lower(i.account)
      BY <1>2, <3>2
    <3> QED BY <3>1, <3>2, <3>3
  <2>6. AreIntents(intents)
    BY <2>10 DEF AreIntents
  <2>7. \A i \in intents : i.account = Lower(i.account) /\ \E j \in l.intents : i.ref = j.ref
    BY <2>10
  <2>9. \A i \in l.intents : Lower(Lower(i.account)) = Lower(i.account)
    BY LowerTwice
  <2>8. Meant(intents) = Meant(l.intents)
    <3>1. /\ \A a \in intents : \E b \in l.intents : a.id = b.id /\ Lower(a.account) = Lower(b.account) /\ Today(a.ref) = Today(b.ref)
          /\ \A b \in l.intents : \E a \in intents : a.id = b.id /\ Lower(a.account) = Lower(b.account) /\ Today(a.ref) = Today(b.ref)
      BY <2>4, <2>5, <2>9
    <3> QED BY <3>1, ReadTheSame
  <2> QED BY <2>6, <2>7, <2>8
<1>11. /\ AreAccounts(accounts) /\ Named(accounts) = Named(l.accounts)
       /\ \A a \in accounts : a.account = Lower(a.account) /\ a.dated
  <2>1. ASSUME NEW i \in l.accounts
        PROVE  [i EXCEPT !.account = Lower(@)] = AccountsRow(Lower(i.account), i.dated) /\ IsAddress(i.account)
    <3>1. i = AccountsRow(i.account, i.dated) /\ IsAddress(i.account)
      BY <1>0 DEF AreAccounts
    <3> DEFINE a == i.account
               b == i.dated
    <3>4. i = AccountsRow(a, b)
      BY <3>1
    <3> HIDE DEF a, b
    <3>6. [AccountsRow(a, b) EXCEPT !.account = Lower(a)] = AccountsRow(Lower(a), b)
      <4> DEFINE x == Lower(a)
      <4>1. [AccountsRow(a, b) EXCEPT !.account = x] = AccountsRow(x, b)
        <5> HIDE DEF x
        <5> QED BY DEF AccountsRow
      <4> QED BY <4>1
    <3>5. [i EXCEPT !.account = Lower(a)] = AccountsRow(Lower(a), b)
      BY <3>4, <3>6
    <3> QED BY <3>1, <3>5 DEF a, b
  <2>2. \A i \in l.accounts : LET j == AccountsRow(Lower(i.account), i.dated) IN j.account = Lower(i.account) /\ j.dated = i.dated
    BY RowFields
  <2>3. accounts = {AccountsRow(Lower(i.account), i.dated) : i \in l.accounts}
    <3>1. accounts = {[i EXCEPT !.account = Lower(@)] : i \in l.accounts}
      BY DEF Lowered
    <3>2. \A i \in l.accounts : [i EXCEPT !.account = Lower(@)] = AccountsRow(Lower(i.account), i.dated)
      BY <2>1
    <3> QED BY <3>1, <3>2, ZenonT(30)
  <2>4. \A j \in accounts : \E i \in l.accounts : j.account = Lower(i.account) /\ j.dated = i.dated /\ j = AccountsRow(Lower(i.account), i.dated)
    BY <2>2, <2>3
  <2>5. \A i \in l.accounts : \E j \in accounts : j.account = Lower(i.account)
    BY <2>2, <2>3
  <2>10. IsFiniteSet(accounts)
    <3> DEFINE f == [i \in l.accounts |-> AccountsRow(Lower(i.account), i.dated)]
    <3>1. IsFiniteSet({f[a] : a \in l.accounts})
      <4>1. IsFiniteSet(l.accounts)
        BY <1>0 DEF AreAccounts
      <4> HIDE DEF f
      <4> QED BY <4>1, FinitelyMany
    <3>2. accounts = {f[a] : a \in l.accounts}
      BY <2>3
    <3> QED BY <3>1, <3>2
  <2>6. AreAccounts(accounts)
    BY <1>2, <2>1, <2>4, <2>10 DEF AreAccounts
  <2>7. \A a \in accounts : a.account = Lower(a.account) /\ a.dated
    <3> SUFFICES ASSUME NEW a \in accounts PROVE a.account = Lower(a.account) /\ a.dated
      OBVIOUS
    <3>1. PICK i \in l.accounts : a.account = Lower(i.account) /\ a.dated = i.dated
      BY <2>4
    <3>2. IsAddress(i.account) /\ i.dated
      BY <2>1
    <3>3. Lower(Lower(i.account)) = Lower(i.account)
      BY <1>2, <3>2
    <3>4. a.account = Lower(a.account)
      BY <3>1, <3>3
    <3>5. a.dated
      BY <3>1, <3>2
    <3> QED BY <3>4, <3>5
  <2>9. \A i \in l.accounts : Lower(Lower(i.account)) = Lower(i.account)
    BY LowerTwice
  <2>8. Named(accounts) = Named(l.accounts)
    BY <2>4, <2>5, <2>9 DEF Named
  <2> QED BY <2>6, <2>7, <2>8
<1>12. ArePaper(paper) /\ Booked(paper) = Booked(l.paper) /\ \A p \in paper : p.owner = Lower(p.owner)
  <2>1. ASSUME NEW i \in l.paper
        PROVE  [i EXCEPT !.owner = Lower(@)] = PaperRow(Lower(i.owner), i.row) /\ IsAddress(i.owner)
    <3>1. i = PaperRow(i.owner, i.row) /\ IsAddress(i.owner)
      BY <1>0 DEF ArePaper
    <3> DEFINE a == i.owner
               b == i.row
    <3>4. i = PaperRow(a, b)
      BY <3>1
    <3> HIDE DEF a, b
    <3>6. [PaperRow(a, b) EXCEPT !.owner = Lower(a)] = PaperRow(Lower(a), b)
      <4> DEFINE x == Lower(a)
      <4>1. [PaperRow(a, b) EXCEPT !.owner = x] = PaperRow(x, b)
        <5> HIDE DEF x
        <5> QED BY DEF PaperRow
      <4> QED BY <4>1
    <3>5. [i EXCEPT !.owner = Lower(a)] = PaperRow(Lower(a), b)
      BY <3>4, <3>6
    <3> QED BY <3>1, <3>5 DEF a, b
  <2>2. \A i \in l.paper : LET j == PaperRow(Lower(i.owner), i.row) IN j.owner = Lower(i.owner) /\ j.row = i.row
    BY RowFields
  <2>3. paper = {PaperRow(Lower(i.owner), i.row) : i \in l.paper}
    BY <2>1
  <2>4. \A j \in paper : \E i \in l.paper : j.owner = Lower(i.owner) /\ j.row = i.row /\ j = PaperRow(Lower(i.owner), i.row)
    BY <2>2, <2>3
  <2>5. \A i \in l.paper : \E j \in paper : j.owner = Lower(i.owner) /\ j.row = i.row
    BY <2>2, <2>3
  <2>6. ArePaper(paper)
    BY <1>2, <2>1, <2>4 DEF ArePaper
  <2>7. \A p \in paper : p.owner = Lower(p.owner)
    BY <1>2, <2>1, <2>4
  <2>9. \A i \in l.paper : Lower(Lower(i.owner)) = Lower(i.owner)
    BY LowerTwice
  <2>8. Booked(paper) = Booked(l.paper)
    <3>1. /\ \A a \in paper : \E b \in l.paper : a.row = b.row /\ Lower(a.owner) = Lower(b.owner)
          /\ \A b \in l.paper : \E a \in paper : a.row = b.row /\ Lower(a.owner) = Lower(b.owner)
      <4>1. \A a \in paper : \E b \in l.paper : a.row = b.row /\ a.owner = Lower(b.owner)
        BY <2>4
      <4>2. \A b \in l.paper : \E a \in paper : a.row = b.row /\ a.owner = Lower(b.owner)
        BY <2>5
      <4>3. ASSUME NEW a \in paper PROVE \E b \in l.paper : a.row = b.row /\ Lower(a.owner) = Lower(b.owner)
        <5>1. PICK b \in l.paper : a.row = b.row /\ a.owner = Lower(b.owner)
          BY <4>1, <4>3
        <5>2. Lower(a.owner) = Lower(b.owner)
          BY <2>9, <5>1
        <5> QED BY <5>1, <5>2
      <4>4. ASSUME NEW b \in l.paper PROVE \E a \in paper : a.row = b.row /\ Lower(a.owner) = Lower(b.owner)
        <5>1. PICK a \in paper : a.row = b.row /\ a.owner = Lower(b.owner)
          BY <4>2, <4>4
        <5>2. Lower(a.owner) = Lower(b.owner)
          BY <2>9, <4>4, <5>1
        <5> QED BY <5>1, <5>2
      <4> QED BY <4>3, <4>4
    <3> QED BY <3>1, ReadTheSame
  <2> QED BY <2>6, <2>7, <2>8
<1>7. Owned(m) = Owned(l)
  <2>1. Owned(l) = Booked(l.paper)
    BY MeansByTables
  <2>2. Owned(m) = Booked(m.paper)
    BY <1>4, MeansByTables
  <2> QED BY <1>4, <1>12, <2>1, <2>2
<1>8. Means(m) = Means(l)
  <2>1. Said(m.skipForm, m.skips) = Said(l.skipForm, l.skips)
    BY <1>1, <1>4
  <2>2. Told(m.signals) = Told(l.signals) /\ Meant(m.intents) = Meant(l.intents) /\ Named(m.accounts) = Named(l.accounts)
    BY <1>4, <1>6, <1>11
  <2> QED BY <1>7, <2>1, <2>2, MeansTheSame
<1>9. AreForms(m)
  BY <1>4 DEF AreForms
<1>10. IsLedger(m)
  BY <1>0, <1>1, <1>4, <1>5, <1>6, <1>9, <1>11, <1>12, LedgerByTables
<1>13. StaleRows(m) = {}
  <2>1. \A r \in l.signals \cup l.skips \cup l.intents : ~IsStale(r.ref)
    BY DEF StaleRows
  <2>2. \A r \in l.signals \cup skips \cup intents : ~IsStale(r.ref)
    BY <1>1, <1>6, <2>1
  <2> QED BY <1>4, <2>2 DEF StaleRows
<1>14. AllLower(m)
  BY <1>1, <1>4, <1>6, <1>11, <1>12 DEF AllLower
<1>15. \A a \in m.accounts : a.dated
  BY <1>4, <1>11
<1> QED BY <1>4, <1>8, <1>10, <1>13, <1>14, <1>15

-----------------------------------------------------------------------------
(* The executor at work on an open file: it means what it holds.           *)
Meaning(a, skips, signals, b, c) == [paper |-> a, skips |-> skips, signals |-> signals, intents |-> b, accounts |-> c]
Amended(k, signals, skips) == [k EXCEPT !.signals = signals, !.skips = skips]

LEMMA MeansAmended ==
  ASSUME NEW a, NEW b, NEW c, NEW p, NEW q, NEW signals, NEW skips
  PROVE  Amended(Meaning(a, p, q, b, c), signals, skips) = Meaning(a, skips, signals, b, c)
<1> DEFINE k == Meaning(a, p, q, b, c)
<1>1. [k EXCEPT !.signals = signals] = [paper |-> a, skips |-> p, signals |-> signals, intents |-> b, accounts |-> c]
  BY DEF Meaning
<1> HIDE DEF k
<1> DEFINE j == [k EXCEPT !.signals = signals]
<1>2. [k EXCEPT !.signals = signals, !.skips = skips] = [j EXCEPT !.skips = skips]
  OBVIOUS
<1>3. j = [paper |-> a, skips |-> p, signals |-> signals, intents |-> b, accounts |-> c]
  BY <1>1
<1> HIDE DEF j
<1>4. [j EXCEPT !.skips = skips] = [paper |-> a, skips |-> skips, signals |-> signals, intents |-> b, accounts |-> c]
  BY <1>3
<1> QED BY <1>2, <1>4 DEF k, Amended, Meaning

TakesRows(l, m, signals, skips) == m = [l EXCEPT !.signals = signals, !.skips = skips]

LEMMA OpenMoved ==
  ASSUME NEW l, IsLedger(l), l.paperForm = "owned", l.skipForm = "keyed", StaleRows(l) = {}, AllLower(l),
         NEW signals, AreSignals(signals), \A s \in signals : ~IsStale(s.ref),
         NEW skips, AreSkips("keyed", skips), \A s \in skips : s.account = Lower(s.account) /\ ~IsStale(s.ref),
         NEW m, TakesRows(l, m, signals, skips)
  PROVE  /\ IsLedger(m) /\ m.paperForm = "owned" /\ m.skipForm = "keyed" /\ m.columns = l.columns /\ m.accounts = l.accounts
         /\ StaleRows(m) = {} /\ AllLower(m)
         /\ Means(l).signals = l.signals /\ Means(l).skips = l.skips
         /\ Means(m) = Amended(Means(l), signals, skips)
<1>0. IsFile(l) /\ AreForms(l) /\ AreAccounts(l.accounts) /\ ArePaper(l.paper) /\ AreIntents(l.intents)
      /\ AreSignals(l.signals) /\ AreSkips(l.skipForm, l.skips)
  BY LedgerByTables
<1>3. /\ m = [accounts |-> l.accounts, paperForm |-> l.paperForm, paper |-> l.paper, skipForm |-> l.skipForm, skips |-> skips,
              signals |-> signals, columns |-> l.columns, intents |-> l.intents]
  BY <1>0 DEF IsFile, TakesRows
<1>4. /\ m.accounts = l.accounts /\ m.paperForm = l.paperForm /\ m.paper = l.paper /\ m.skipForm = l.skipForm /\ m.skips = skips
      /\ m.signals = signals /\ m.columns = l.columns /\ m.intents = l.intents
  BY <1>3
<1>5. IsFile(m)
  BY <1>3, <1>4 DEF IsFile
<1>9. AreForms(m)
  BY <1>4 DEF AreForms
<1>10. IsLedger(m)
  BY <1>0, <1>4, <1>5, <1>9, LedgerByTables
<1>1. \A r \in l.signals \cup l.skips \cup l.intents : ~IsStale(r.ref)
  BY DEF StaleRows
<1>2. Said("keyed", l.skips) = l.skips /\ Told(l.signals) = l.signals
  <2>1. \A s \in l.skips : s.account = Lower(s.account) /\ ~IsStale(s.ref)
    BY <1>1 DEF AllLower
  <2>2. Unlike(l.skips) /\ \A s \in l.skips : IsSkip("keyed", s)
    BY <1>0 DEF AreSkips
  <2>3. Said("keyed", l.skips) = l.skips
    BY <2>1, <2>2, SaidOfCurrent
  <2>4. Distinct(l.signals) /\ \A s \in l.signals : IsSignal(s) /\ ~IsStale(s.ref)
    BY <1>0, <1>1 DEF AreSignals
  <2>5. Told(l.signals) = l.signals
    BY <2>4, ToldOfCurrent
  <2> QED BY <2>3, <2>5
<1>6. Said("keyed", skips) = skips /\ Told(signals) = signals
  <2>2. Unlike(skips) /\ \A s \in skips : IsSkip("keyed", s)
    BY DEF AreSkips
  <2>3. Said("keyed", skips) = skips
    BY <2>2, SaidOfCurrent
  <2>4. Distinct(signals) /\ \A s \in signals : IsSignal(s) /\ ~IsStale(s.ref)
    BY DEF AreSignals
  <2>5. Told(signals) = signals
    BY <2>4, ToldOfCurrent
  <2> QED BY <2>3, <2>5
<1>7. Owned(m) = Owned(l)
  BY <1>4, OwnedByTables
<1> DEFINE a == Owned(l)
           b == Meant(l.intents)
           c == Named(l.accounts)
<1>8. Means(l) = [paper |-> a, skips |-> l.skips, signals |-> l.signals, intents |-> b, accounts |-> c]
  BY <1>2, MeansByTables
<1>11. Means(m) = [paper |-> a, skips |-> skips, signals |-> signals, intents |-> b, accounts |-> c]
  <2>1. Means(m) = [paper |-> Owned(m), skips |-> Said(m.skipForm, m.skips), signals |-> Told(m.signals),
                    intents |-> Meant(m.intents), accounts |-> Named(m.accounts)]
    BY MeansByTables
  <2> QED BY <1>4, <1>6, <1>7, <2>1
<1>12. StaleRows(m) = {}
  <2>1. \A r \in signals \cup skips \cup l.intents : ~IsStale(r.ref)
    BY <1>1
  <2> QED BY <1>4, <2>1 DEF StaleRows
<1>13. AllLower(m)
  BY <1>4 DEF AllLower
<1> HIDE DEF a, b, c
<1>14. Means(l).signals = l.signals /\ Means(l).skips = l.skips
  BY <1>8
<1>15. Means(m) = Amended(Means(l), signals, skips)
  <2>1. Means(l) = Meaning(a, l.skips, l.signals, b, c) /\ Means(m) = Meaning(a, skips, signals, b, c)
    BY <1>8, <1>11 DEF Meaning
  <2> QED BY <2>1, MeansAmended
<1> QED BY <1>4, <1>10, <1>12, <1>13, <1>14, <1>15

LEMMA SignalledIs ==
  ASSUME now \in Nat, NEW signals, AreSignals(signals), \A s \in signals : ~IsStale(s.ref),
         NEW ref, IsRef(ref), ~IsStale(ref), NEW rev
  PROVE  AreSignals(Signalled(signals, ref, rev)) /\ \A s \in Signalled(signals, ref, rev) : ~IsStale(s.ref)
<1>1. CASE \E s \in signals : s.ref = ref /\ s.rev = rev
  BY <1>1 DEF Signalled
<1>2. CASE ~\E s \in signals : s.ref = ref /\ s.rev = rev
  <2> DEFINE r == SignalRow(ref, rev, now)
  <2>1. r.ref = ref /\ r.rev = rev /\ r.at = now
    BY SignalFields
  <2>2. r = SignalRow(r.ref, r.rev, r.at)
    BY <2>1
  <2>3. Signalled(signals, ref, rev) = signals \cup {r}
    BY <1>2 DEF Signalled
  <2> HIDE DEF r
  <2>4. IsSignal(r) /\ ~IsStale(r.ref)
    BY <2>1, <2>2 DEF IsSignal
  <2>5. Distinct(signals \cup {r})
    BY <1>2, <2>1 DEF Distinct, AreSignals
  <2> QED BY <2>3, <2>4, <2>5 DEF AreSignals
<1> QED BY <1>1, <1>2

LEMMA MergedIs ==
  ASSUME now \in Nat, NEW skips, AreSkips("keyed", skips), \A s \in skips : s.account = Lower(s.account) /\ ~IsStale(s.ref),
         NEW account, IsAddress(account), account = Lower(account), NEW ref, IsRef(ref), ~IsStale(ref)
  PROVE  /\ AreSkips("keyed", Merged(skips, account, ref))
         /\ \A s \in Merged(skips, account, ref) : s.account = Lower(s.account) /\ ~IsStale(s.ref)
<1> DEFINE before == Decision(skips, account, ref)
           seen == before \cup {Sighting(now)}
           w == Widest("keyed", seen)
           row == SkipRow(account, ref, w)
<1>1. before \subseteq skips /\ IsFiniteSet(before)
  <2>1. before \subseteq skips
    BY DEF Decision
  <2> HIDE DEF before
  <2> QED BY <2>1, FS_Subset DEF AreSkips
<1>2. \A s \in seen : Counts("keyed", s)
  <2>1. \A s \in before : Counts("keyed", s)
    BY <1>1, SkipCounts DEF AreSkips
  <2>2. Counts("keyed", Sighting(now))
    BY DEF Counts, FirstOf, LastOf, CountOf, Sighting
  <2> QED BY <2>1, <2>2
<1>3. IsFiniteSet(seen) /\ seen # {}
  <2> HIDE DEF before
  <2> QED BY <1>1, FS_AddElement
<1>4. w = [first |-> w.first, last |-> w.last, n |-> w.n] /\ w.first \in Nat /\ w.last \in Nat /\ w.n \in Nat
  <2> HIDE DEF seen
  <2> QED BY <1>2, <1>3, WidestIs
<1> HIDE DEF w
<1>5. row = [account |-> account, ref |-> ref, first |-> w.first, last |-> w.last, n |-> w.n]
  BY DEF SkipRow
<1>6. row.account = account /\ row.ref = ref /\ row.first = w.first /\ row.last = w.last /\ row.n = w.n
  BY <1>5
<1>7. row = SkipRow(row.account, row.ref, [first |-> row.first, last |-> row.last, n |-> row.n])
  BY <1>5, <1>6 DEF SkipRow
<1> HIDE DEF row
<1>8. IsSkip("keyed", row)
  BY <1>4, <1>6, <1>7 DEF IsSkip, FirstOf, LastOf, CountOf
<1>9. Merged(skips, account, ref) = (skips \ before) \cup {row}
  BY DEF Merged, row, w
<1>10. \A s \in skips \ before : ~(s.account = account /\ s.ref = ref)
  BY DEF Decision
<1> HIDE DEF before
<1>11. IsFiniteSet((skips \ before) \cup {row})
  <2>1. IsFiniteSet(skips \ before)
    BY FS_Subset DEF AreSkips
  <2> QED BY <2>1, FS_AddElement
<1>12. Unlike((skips \ before) \cup {row})
  BY <1>6, <1>10 DEF Unlike, AreSkips
<1> DEFINE out == (skips \ before) \cup {row}
<1>13. \A s \in out : IsSkip("keyed", s)
  BY <1>8 DEF AreSkips
<1>14. \A s \in out : s.account = Lower(s.account) /\ ~IsStale(s.ref)
  BY <1>6
<1> HIDE DEF out
<1> QED BY <1>9, <1>11, <1>12, <1>13, <1>14 DEF AreSkips, out

LEMMA KeptIs ==
  ASSUME NEW skips, AreSkips("keyed", skips), \A s \in skips : s.account = Lower(s.account) /\ ~IsStale(s.ref)
  PROVE  /\ AreSkips("keyed", Kept(skips))
         /\ \A s \in Kept(skips) : s.account = Lower(s.account) /\ ~IsStale(s.ref)
<1>1. Kept(skips) \subseteq skips
  BY DEF Kept
<1> QED BY <1>1, FS_Subset DEF AreSkips, Unlike

-----------------------------------------------------------------------------
(* How far an opening has come says what the file looks like by then.       *)
PastDates == {"accounts", "open"}
PastKeys == {"dates"} \cup PastDates
PastColumns == {"keys", "rewrite"} \cup PastKeys
PastSchema == {"columns"} \cup PastColumns
PastSkips == {"schema"} \cup PastSchema
PastPaper == {"skips"} \cup PastSkips

Tables == [signals |-> ledger.signals, skips |-> ledger.skips, intents |-> ledger.intents]
Brought(s, l) ==
  /\ s \in PastPaper => l.paperForm # "global"
  /\ s \in PastSkips => l.skipForm # "log"
  /\ s \in PastSchema => l.paperForm = "owned" /\ l.skipForm = "keyed"
  /\ s \in PastColumns => ToSet(Columns) \subseteq l.columns
  /\ s \in PastKeys => StaleRows(l) = {}
  /\ s \in PastDates => \A a \in l.accounts : a.dated
  /\ s = "open" => AllLower(l)
LedgerInv ==
  /\ IsLedger(ledger) /\ Means(ledger) = known /\ now \in Nat
  /\ step \in {"closed", "paper", "refused"} \cup PastPaper
  /\ Brought(step, ledger)
  /\ step = "rewrite" => read = Tables
  /\ web = "serving" => Complete(ledger)

LEMMA StepsInTurn ==
  /\ After("paper") = "skips" /\ After("skips") = "schema" /\ After("schema") = "columns" /\ After("columns") = "keys"
  /\ After("keys") = "rewrite" /\ After("rewrite") = "dates" /\ After("dates") = "accounts"
<1>1. Len(Steps) = 8 /\ 1..Len(Steps) - 1 = 1..7
  BY DEF Steps
<1>2. /\ Steps[1] = "paper" /\ Steps[2] = "skips" /\ Steps[3] = "schema" /\ Steps[4] = "columns"
      /\ Steps[5] = "keys" /\ Steps[6] = "rewrite" /\ Steps[7] = "dates" /\ Steps[8] = "accounts"
  BY DEF Steps
<1>3. \A n \in 1..7 : n = 1 \/ n = 2 \/ n = 3 \/ n = 4 \/ n = 5 \/ n = 6 \/ n = 7
  OBVIOUS
<1>4. \A m, n \in 1..7 : Steps[m] = Steps[n] => m = n
  BY <1>2, <1>3
<1>5. ASSUME NEW m \in 1..7 PROVE After(Steps[m]) = Steps[m + 1]
  <2> DEFINE c == CHOOSE n \in 1..7 : Steps[n] = Steps[m]
  <2>1. c \in 1..7 /\ Steps[c] = Steps[m]
    OBVIOUS
  <2>2. c = m
    <3> HIDE DEF c
    <3> QED BY <1>4, <2>1
  <2> QED BY <1>1, <2>2 DEF After
<1>6. /\ After(Steps[1]) = Steps[1 + 1] /\ After(Steps[2]) = Steps[2 + 1] /\ After(Steps[3]) = Steps[3 + 1]
      /\ After(Steps[4]) = Steps[4 + 1] /\ After(Steps[5]) = Steps[5 + 1] /\ After(Steps[6]) = Steps[6 + 1] /\ After(Steps[7]) = Steps[7 + 1]
  <2>1. 1 \in 1..7 /\ 2 \in 1..7 /\ 3 \in 1..7 /\ 4 \in 1..7 /\ 5 \in 1..7 /\ 6 \in 1..7 /\ 7 \in 1..7
    OBVIOUS
  <2> QED BY <1>5, <2>1
<1> QED BY <1>2, <1>6

\* What says nothing but where the opening stands is kept by all that leaves the file.
LEMMA BroughtSooner ==
  ASSUME NEW l, NEW s, s \in {"closed", "paper", "refused"}
  PROVE  Brought(s, l)
BY DEF Brought, PastPaper, PastSkips, PastSchema, PastColumns, PastKeys, PastDates

THEOREM LedgerSaysTheSameThroughout == LedgerSpec => []LedgerInv
<1> USE DEF PastPaper, PastSkips, PastSchema, PastColumns, PastKeys, PastDates
<1>1. LedgerInit => LedgerInv
  BY LedgersAssumption, BroughtSooner DEF LedgerInit, LedgerInv
<1>2. ASSUME LedgerInv, [LedgerNext]_fileVars PROVE LedgerInv'
  <2> DEFINE l == ledger
             m == ledger'
  <2>0. IsLedger(l) /\ Means(l) = known /\ now \in Nat /\ Brought(step, l)
        /\ (step = "rewrite" => read = Tables) /\ (web = "serving" => Complete(l))
        /\ step \in {"closed", "paper", "refused"} \cup PastPaper
    BY <1>2 DEF LedgerInv
  <2> SUFFICES /\ IsLedger(m) /\ Means(m) = known' /\ now' \in Nat /\ Brought(step', m)
               /\ (step' = "rewrite" => read' = Tables') /\ (web' = "serving" => Complete(m))
               /\ step' \in {"closed", "paper", "refused"} \cup PastPaper
    BY DEF LedgerInv
  <2>1. CASE Starts \/ Dies
    <3>1. m = l /\ step' \in {"closed", "paper"} /\ UNCHANGED <<web, known, now>>
      BY <2>1 DEF Starts, Dies
    <3> QED BY <2>0, <3>1, BroughtSooner
  <2>2. CASE MigratePaperBook
    <3>0. step = "paper" /\ UNCHANGED <<read, web, known, now>>
      BY <2>2 DEF MigratePaperBook
    <3>1. CASE ledger.paperForm # "global" /\ GoesOn("paper") /\ UNCHANGED ledger
      <4>1. step' = "skips" /\ m = l /\ l.paperForm # "global"
        BY <3>1, StepsInTurn DEF GoesOn
      <4> HIDE DEF l, m
      <4> QED BY <2>0, <3>0, <4>1 DEF Brought
    <3>2. CASE Refuses
      <4>1. step' = "refused" /\ m = l
        BY <3>2 DEF Refuses
      <4> HIDE DEF l, m
      <4> QED BY <2>0, <3>0, <4>1, BroughtSooner
    <3>3. CASE /\ ledger.paperForm = "global" /\ ~PaperIsNobodys(ledger) /\ ~SchemaTrips(ledger) /\ GoesOn("paper")
               /\ ledger' = [ledger EXCEPT !.paperForm = "owned", !.skipForm = "keyed",
                                           !.paper = {PaperRow(OwnerOf(ledger), p.row) : p \in @}]
      <4> DEFINE paper == {PaperRow(OwnerOf(l), p.row) : p \in l.paper}
      <4>1. step' = "skips"
        BY <3>3, StepsInTurn DEF GoesOn
      <4>2. m = [l EXCEPT !.paperForm = "owned", !.skipForm = "keyed", !.paper = paper]
        BY <3>3
      <4>3. l.paperForm = "global" /\ ~PaperIsNobodys(l) /\ ~SchemaTrips(l)
        BY <3>3
      <4>4. paper = {PaperRow(OwnerOf(l), p.row) : p \in l.paper}
        OBVIOUS
      <4> HIDE DEF l, m, paper
      <4>5. IsLedger(m) /\ Means(m) = Means(l) /\ m.paperForm = "owned"
        BY <2>0, <4>2, <4>3, <4>4, PaperMoved
      <4>6. web # "serving"
        BY <2>0, <4>3 DEF Complete
      <4>7. Brought("skips", m)
        BY <4>5 DEF Brought
      <4> QED BY <2>0, <3>0, <4>1, <4>5, <4>6, <4>7
    <3> QED BY <2>2, <3>1, <3>2, <3>3 DEF MigratePaperBook
  <2>3. CASE MigrateSkips
    <3>0. step = "skips" /\ step' = "schema" /\ UNCHANGED <<read, web, known, now>>
      BY <2>3, StepsInTurn DEF MigrateSkips, GoesOn
    <3>1. CASE l.skipForm # "log"
      <4>1. m = l
        BY <2>3, <3>1 DEF MigrateSkips
      <4> HIDE DEF l, m
      <4> QED BY <2>0, <3>0, <3>1, <4>1 DEF Brought
    <3>2. CASE l.skipForm = "log"
      <4> DEFINE skips == Collapsed(l.skips)
      <4>1. TakesSkips(l, m, skips)
        BY <2>3, <3>2 DEF MigrateSkips, TakesSkips
      <4>2. skips = Collapsed(l.skips)
        OBVIOUS
      <4> HIDE DEF l, m, skips
      <4>3. IsLedger(m) /\ Means(m) = Means(l) /\ m.skipForm = "keyed" /\ m.paperForm = l.paperForm
        BY <2>0, <3>2, <4>1, <4>2, SkipsMoved
      <4>4. web # "serving"
        BY <2>0, <3>2 DEF Complete
      <4>5. Brought("schema", m)
        BY <2>0, <3>0, <4>3 DEF Brought
      <4> QED BY <2>0, <3>0, <4>3, <4>4, <4>5
    <3> QED BY <3>1, <3>2
  <2>4. CASE ApplySchema
    <3>0. step = "schema" /\ step' = "columns" /\ UNCHANGED <<read, web, known, now>>
      BY <2>4, StepsInTurn DEF ApplySchema, GoesOn
    <3>3. l.skipForm # "log" /\ l.paperForm # "global"
      BY <2>0, <3>0 DEF Brought
    <3>4. AreForms(l)
      BY <2>0, LedgerByTables
    <3>1. CASE l.paperForm # "none"
      <4>1. m = l
        BY <2>4, <3>1 DEF ApplySchema
      <4> HIDE DEF l, m
      <4>2. l.paperForm = "owned" /\ l.skipForm = "keyed"
        BY <3>1, <3>3, <3>4 DEF AreForms
      <4> QED BY <2>0, <3>0, <4>1, <4>2 DEF Brought
    <3>2. CASE l.paperForm = "none"
      <4> DEFINE cols == ToSet(Columns)
      <4>1. m = [l EXCEPT !.paperForm = "owned", !.skipForm = "keyed", !.columns = cols]
        BY <2>4, <3>2 DEF ApplySchema
      <4> HIDE DEF l, m, cols
      <4>3. IsLedger(m) /\ Means(m) = Means(l) /\ m.skipForm = "keyed" /\ m.paperForm = "owned"
        BY <2>0, <3>2, <3>3, <4>1, SchemaMoved
      <4>4. web # "serving"
        BY <2>0, <3>2 DEF Complete
      <4>5. Brought("columns", m)
        BY <4>3 DEF Brought
      <4> QED BY <2>0, <3>0, <4>3, <4>4, <4>5
    <3> QED BY <3>1, <3>2
  <2>5. CASE AddMissingColumns
    <3>0. step = "columns" /\ UNCHANGED <<read, web, known, now>>
      BY <2>5 DEF AddMissingColumns
    <3>3. l.paperForm = "owned" /\ l.skipForm = "keyed"
      BY <2>0, <3>0 DEF Brought
    <3>1. CASE \E n \in DOMAIN Columns : ledger' = [ledger EXCEPT !.columns = @ \cup {Columns[n]}] /\ UNCHANGED step
      <4>1. PICK n \in DOMAIN Columns : ledger' = [ledger EXCEPT !.columns = @ \cup {Columns[n]}] /\ UNCHANGED step
        BY <3>1
      <4> DEFINE cols == l.columns \cup {Columns[n]}
      <4>2. m = [l EXCEPT !.columns = cols]
        BY <4>1
      <4>4. l.columns \subseteq cols
        OBVIOUS
      <4> HIDE DEF l, m, cols
      <4>3. IsLedger(m) /\ Means(m) = Means(l) /\ m.skipForm = l.skipForm /\ m.paperForm = l.paperForm /\ m.columns = cols
        BY <2>0, <4>2, ColumnsMoved
      <4>5. Brought("columns", m)
        BY <3>3, <4>3 DEF Brought
      <4>6. Complete(l) => Complete(m)
        BY <4>3, <4>4 DEF Complete
      <4> QED BY <2>0, <3>0, <4>1, <4>3, <4>5, <4>6
    <3>2. CASE ToSet(Columns) \subseteq ledger.columns /\ GoesOn("columns") /\ UNCHANGED ledger
      <4>1. step' = "keys" /\ m = l /\ ToSet(Columns) \subseteq l.columns
        BY <3>2, StepsInTurn DEF GoesOn
      <4> HIDE DEF l, m
      <4> QED BY <2>0, <3>0, <3>3, <4>1 DEF Brought
    <3> QED BY <2>5, <3>1, <3>2 DEF AddMissingColumns
  <2>6. CASE ReadForKeys
    <3>0. step = "keys" /\ m = l /\ UNCHANGED <<web, known, now>>
      BY <2>6 DEF ReadForKeys
    <3>1. CASE StaleRows(ledger) = {}
      <4>1. step' = "dates" /\ StaleRows(l) = {}
        BY <2>6, <3>1 DEF ReadForKeys
      <4> HIDE DEF l, m
      <4> QED BY <2>0, <3>0, <4>1 DEF Brought
    <3>2. CASE StaleRows(ledger) # {}
      <4>1. step' = "rewrite" /\ read' = Tables
        BY <2>6, <3>2, StepsInTurn DEF ReadForKeys, GoesOn, Tables
      <4>2. read' = Tables'
        BY <3>0, <4>1 DEF Tables
      <4>3. Brought("rewrite", l)
        BY <2>0, <3>0 DEF Brought
      <4> HIDE DEF l, m
      <4> QED BY <2>0, <3>0, <4>1, <4>2, <4>3
    <3> QED BY <3>1, <3>2
  <2>7. CASE MigrateOutlookKeys
    <3>0. step = "rewrite" /\ step' = "dates" /\ UNCHANGED <<web, known, now>>
      BY <2>7, StepsInTurn DEF MigrateOutlookKeys, GoesOn
    <3>1. read.signals = l.signals /\ read.skips = l.skips
      BY <2>0, <3>0 DEF Tables
    <3> DEFINE signals == SignalsOut(l.signals)
               skips == SkipsOut(l.skips)
               intents == {[i EXCEPT !.ref = Keyed(@)] : i \in l.intents}
    <3>2. TakesKeys(l, m, signals, skips, intents)
      BY <2>7, <3>1 DEF MigrateOutlookKeys, TakesKeys
    <3>3. signals = SignalsOut(l.signals) /\ skips = SkipsOut(l.skips) /\ intents = {[i EXCEPT !.ref = Keyed(@)] : i \in l.intents}
      OBVIOUS
    <3>4. l.paperForm = "owned" /\ l.skipForm = "keyed" /\ ToSet(Columns) \subseteq l.columns
      BY <2>0, <3>0 DEF Brought
    <3> HIDE DEF l, m, signals, skips, intents
    <3>5. /\ IsLedger(m) /\ Means(m) = Means(l) /\ m.skipForm = "keyed" /\ m.paperForm = "owned" /\ m.columns = l.columns
          /\ StaleRows(m) = {}
      BY <2>0, <3>2, <3>3, <3>4, KeysMoved
    <3>6. Brought("dates", m) /\ Complete(m)
      BY <3>4, <3>5 DEF Brought, Complete
    <3> QED BY <2>0, <3>0, <3>5, <3>6
  <2>8. CASE DateAccounts
    <3>0. step = "dates" /\ step' = "accounts" /\ UNCHANGED <<web, known, now>>
      BY <2>8, StepsInTurn DEF DateAccounts, GoesOn
    <3> DEFINE accounts == {AccountsRow(a.account, TRUE) : a \in l.accounts}
    <3>2. TakesAccounts(l, m, accounts)
      BY <2>8 DEF DateAccounts, TakesAccounts
    <3>3. accounts = {AccountsRow(a.account, TRUE) : a \in l.accounts}
      OBVIOUS
    <3>4. l.paperForm = "owned" /\ l.skipForm = "keyed" /\ ToSet(Columns) \subseteq l.columns /\ StaleRows(l) = {}
      BY <2>0, <3>0 DEF Brought
    <3>7. l.paperForm # "global"
      BY <3>4
    <3> HIDE DEF l, m, accounts
    <3>5. /\ IsLedger(m) /\ Means(m) = Means(l) /\ m.skipForm = l.skipForm /\ m.paperForm = l.paperForm /\ m.columns = l.columns
          /\ StaleRows(m) = StaleRows(l) /\ \A a \in m.accounts : a.dated
      BY <2>0, <3>2, <3>3, <3>7, DatesMoved
    <3>6. Brought("accounts", m) /\ Complete(m)
      BY <3>4, <3>5 DEF Brought, Complete
    <3> QED BY <2>0, <3>0, <3>5, <3>6
  <2>9. CASE NormaliseAccountKeys
    <3>0. step = "accounts" /\ UNCHANGED <<web, known, now>>
      BY <2>9 DEF NormaliseAccountKeys
    <3>1. CASE Refuses
      <4>1. step' = "refused" /\ m = l
        BY <3>1 DEF Refuses
      <4> HIDE DEF l, m
      <4> QED BY <2>0, <3>0, <4>1, BroughtSooner
    <3>2. CASE ~Refuses
      <4> DEFINE accounts == Lowered(l.accounts)
                 skips == Lowered(l.skips)
                 intents == Lowered(l.intents)
                 paper == {[p EXCEPT !.owner = Lower(@)] : p \in l.paper}
      <4>1. step' = "open" /\ ~SkipsMeet(l.skips)
        BY <2>9, <3>2 DEF NormaliseAccountKeys
      <4>2. TakesOwners(l, m, accounts, skips, intents, paper)
        BY <2>9, <3>2 DEF NormaliseAccountKeys, TakesOwners
      <4>3. accounts = Lowered(l.accounts) /\ skips = Lowered(l.skips) /\ intents = Lowered(l.intents)
            /\ paper = {[p EXCEPT !.owner = Lower(@)] : p \in l.paper}
        OBVIOUS
      <4>4. l.paperForm = "owned" /\ l.skipForm = "keyed" /\ ToSet(Columns) \subseteq l.columns /\ StaleRows(l) = {}
            /\ \A a \in l.accounts : a.dated
        BY <2>0, <3>0 DEF Brought
      <4> HIDE DEF l, m, accounts, skips, intents, paper
      <4>5. /\ IsLedger(m) /\ Means(m) = Means(l) /\ m.skipForm = "keyed" /\ m.paperForm = "owned" /\ m.columns = l.columns
            /\ StaleRows(m) = {} /\ AllLower(m) /\ \A a \in m.accounts : a.dated
        BY <2>0, <4>1, <4>2, <4>3, <4>4, AccountsMoved
      <4>6. Brought("open", m) /\ Complete(m)
        BY <4>4, <4>5 DEF Brought, Complete
      <4> QED BY <2>0, <3>0, <4>1, <4>5, <4>6
    <3> QED BY <3>1, <3>2
  <2>10. CASE PrunesSkips \/ \E who \in Owners, ref \in Outlooks : RecordsSkip(who, ref)
    <3>0. step = "open" /\ step' = "open" /\ UNCHANGED web
      BY <2>10 DEF PrunesSkips, RecordsSkip
    <3>1. /\ l.paperForm = "owned" /\ l.skipForm = "keyed" /\ ToSet(Columns) \subseteq l.columns /\ StaleRows(l) = {}
          /\ (\A a \in l.accounts : a.dated) /\ AllLower(l)
      BY <2>0, <3>0 DEF Brought
    <3>2. /\ AreSignals(l.signals) /\ (\A s \in l.signals : ~IsStale(s.ref)) /\ AreSkips("keyed", l.skips)
          /\ (\A s \in l.skips : s.account = Lower(s.account) /\ ~IsStale(s.ref)) /\ IsFile(l)
      <4>1. AreSignals(l.signals) /\ AreSkips("keyed", l.skips) /\ IsFile(l)
        BY <2>0, <3>1, LedgerByTables
      <4>2. (\A s \in l.signals : ~IsStale(s.ref)) /\ (\A s \in l.skips : s.account = Lower(s.account) /\ ~IsStale(s.ref))
        BY <3>1 DEF StaleRows, AllLower
      <4> QED BY <4>1, <4>2
    <3>3. ASSUME NEW signals, NEW skips, AreSignals(signals), \A s \in signals : ~IsStale(s.ref),
                 AreSkips("keyed", skips), \A s \in skips : s.account = Lower(s.account) /\ ~IsStale(s.ref),
                 TakesRows(l, m, signals, skips), known' = Amended(known, signals, skips), now' \in Nat
          PROVE  /\ IsLedger(m) /\ Means(m) = known' /\ now' \in Nat /\ Brought(step', m)
                 /\ (step' = "rewrite" => read' = Tables') /\ (web' = "serving" => Complete(m))
                 /\ step' \in {"closed", "paper", "refused"} \cup PastPaper
      <4> HIDE DEF l, m
      <4>1. /\ IsLedger(m) /\ m.paperForm = "owned" /\ m.skipForm = "keyed" /\ m.columns = l.columns /\ m.accounts = l.accounts
            /\ StaleRows(m) = {} /\ AllLower(m)
            /\ Means(m) = Amended(Means(l), signals, skips)
        BY <2>0, <3>1, <3>3, OpenMoved
      <4>2. Brought("open", m) /\ Complete(m)
        BY <3>1, <4>1 DEF Brought, Complete
      <4> QED BY <2>0, <3>0, <3>3, <4>1, <4>2
    <3>4. known.signals = l.signals /\ known.skips = l.skips
      <4> DEFINE n == [l EXCEPT !.signals = l.signals, !.skips = l.skips]
      <4> HIDE DEF l, n
      <4>1. Means(l).signals = l.signals /\ Means(l).skips = l.skips
        <5>1. TakesRows(l, n, l.signals, l.skips)
          BY DEF n, TakesRows
        <5> QED BY <2>0, <3>1, <3>2, <5>1, OpenMoved
      <4> QED BY <2>0, <4>1
    <3>5. CASE PrunesSkips
      <4> DEFINE skips == Kept(l.skips)
                 signals == l.signals
      <4>1. now' = now /\ ledger' = [ledger EXCEPT !.skips = Kept(@)] /\ known' = [known EXCEPT !.skips = Kept(@)]
        BY <3>5 DEF PrunesSkips
      <4>2. TakesRows(l, m, signals, skips)
        BY <3>2, <4>1 DEF IsFile, TakesRows
      <4>3. known' = Amended(known, signals, skips)
        <5>1. known = [paper |-> known.paper, skips |-> known.skips, signals |-> known.signals, intents |-> known.intents, accounts |-> known.accounts]
          BY <2>0 DEF Means
        <5> QED BY <3>4, <4>1, <5>1 DEF Amended
      <4>4. AreSkips("keyed", skips) /\ \A s \in skips : s.account = Lower(s.account) /\ ~IsStale(s.ref)
        BY <3>2, KeptIs
      <4>5. now' \in Nat
        BY <2>0, <4>1
      <4> HIDE DEF skips
      <4> QED BY <3>2, <3>3, <4>2, <4>3, <4>4, <4>5
    <3>6. CASE \E who \in Owners, ref \in Outlooks : RecordsSkip(who, ref)
      <4>1. PICK who \in Owners, ref \in Outlooks : RecordsSkip(who, ref)
        BY <3>6
      <4> DEFINE a == Account(who, FALSE)
                 signals == Signalled(l.signals, ref, 1)
                 skips == Merged(l.skips, a, ref)
      <4>2. TakesRows(l, m, signals, skips)
        BY <4>1 DEF RecordsSkip, TakesRows
      <4>3. known' = Amended(known, signals, skips)
        BY <3>4, <4>1 DEF RecordsSkip, Amended
      <4>4. now' \in Nat
        BY <2>0, <4>1 DEF RecordsSkip
      <4>5. IsAddress(a) /\ a = Lower(a)
        <5>1. IsAddress(a)
          BY DEF IsAddress, Account
        <5>2. a.who = who
          BY DEF Account
        <5> QED BY <5>1, <5>2, LoweredIsAnAddress
      <4>6. IsRef(ref) /\ ~IsStale(ref)
        <5>1. IsRef(ref) /\ Len(ref) <= KeyLength
          BY LedgersAssumption
        <5> QED BY <5>1 DEF IsStale, IsRef, KeyLength
      <4>7. AreSignals(signals) /\ \A s \in signals : ~IsStale(s.ref)
        BY <2>0, <3>2, <4>6, SignalledIs
      <4> HIDE DEF a
      <4>8. AreSkips("keyed", skips) /\ \A s \in skips : s.account = Lower(s.account) /\ ~IsStale(s.ref)
        BY <2>0, <3>2, <4>5, <4>6, MergedIs
      <4> HIDE DEF signals, skips
      <4> QED BY <3>3, <4>2, <4>3, <4>4, <4>7, <4>8
    <3> QED BY <2>10, <3>5, <3>6
  <2>11. CASE WebBoots
    <3>1. m = l /\ UNCHANGED <<step, read, known, now>> /\ web' = IF Complete(l) THEN "serving" ELSE "refused"
      BY <2>11 DEF WebBoots
    <3>2. Tables' = Tables
      BY <3>1 DEF Tables
    <3> HIDE DEF l, m
    <3> QED BY <2>0, <3>1, <3>2
  <2>12. CASE UNCHANGED fileVars
    <3>1. m = l /\ UNCHANGED <<step, read, known, now, web>>
      BY <2>12 DEF fileVars
    <3>2. Tables' = Tables
      BY <3>1 DEF Tables
    <3> HIDE DEF l, m
    <3> QED BY <2>0, <3>1, <3>2
  <2> QED BY <1>2, <2>1, <2>2, <2>3, <2>4, <2>5, <2>6, <2>7, <2>8, <2>9, <2>10, <2>11, <2>12 DEF LedgerNext
<1> QED BY <1>1, <1>2, PTL DEF LedgerSpec

THEOREM LedgerAlwaysSaysTheSame == LedgerSpec => []OpenedSaysTheSame
<1>1. LedgerInv => OpenedSaysTheSame
  <2> SUFFICES ASSUME LedgerInv PROVE OpenedSaysTheSame
    OBVIOUS
  <2>1. Means(ledger) = known /\ Brought(step, ledger) /\ (web = "serving" => Complete(ledger))
    BY DEF LedgerInv
  <2>2. step = "open" => /\ Complete(ledger) /\ StaleRows(ledger) = {} /\ AllLower(ledger)
                         /\ \A a \in ledger.accounts : a.dated
    BY <2>1 DEF Brought, Complete, PastPaper, PastSkips, PastSchema, PastColumns, PastKeys, PastDates
  <2> QED BY <2>1, <2>2 DEF OpenedSaysTheSame, LedgerSaysTheSame, OpenedIsCurrent, AllLower
<1> QED BY <1>1, LedgerSaysTheSameThroughout, PTL
=============================================================================
