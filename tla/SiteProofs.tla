----------------------------- MODULE SiteProofs -----------------------------
(***************************************************************************)
(* What holds of the machines of the site for any wallets, browsers, tabs, *)
(* requests in flight, accounts, offers and acts of the operator: nothing  *)
(* a door hands out is used twice, what a tab says of an approval the      *)
(* venue has done, a press for new limits is not dropped in silence and    *)
(* the card shows what is traded, the served desk is true of its inputs,   *)
(* a reader is painted their own money, and the closed trades they page    *)
(* through are each shown once and none is missing.                        *)
(***************************************************************************)
EXTENDS Visitor, Approvals, Limits, Served, Screen, Extrema

-----------------------------------------------------------------------------
(* The public door.  A nonce is on one row at most of one of three tables  *)
(* (issued, being verified, opened), and none is issued twice.             *)
Bearers == challenges \cup verifying \cup opened

NoncesAreApart ==
  /\ nonces \in Nat
  /\ \A x \in Bearers : x.nonce \in 1..nonces
  /\ \A x, y \in challenges : x.nonce = y.nonce => x = y
  /\ \A x, y \in verifying : x.nonce = y.nonce => x = y
  /\ \A x \in challenges, y \in verifying : x.nonce # y.nonce
  /\ ChallengesAreSpentOnce

(* Every look paid for today is in the count of the wallet's row, which    *)
(* belongs to the day it names.                                            *)
CallsInFlight == [kind : {"link", "body", "post"}, who : Wallets, browser : Browsers,
                  user : XUsers \cup {NoUser}]

LooksAreCounted ==
  /\ \A w \in Wallets : attempts[w].n \in 0..LooksPerDay /\ paid[w] \in 0..AttemptsToday(w)
  /\ DOMAIN attempts = Wallets /\ DOMAIN paid = Wallets
  /\ attempts = [w \in Wallets |-> attempts[w]] /\ paid = [w \in Wallets |-> paid[w]]
  /\ calls \subseteq CallsInFlight
  /\ link \in [Wallets -> XUsers \cup {NoUser}]

LEMMA NoncesInitially == VisitorInit => NoncesAreApart
BY DEF VisitorInit, NoncesAreApart, Bearers, ChallengesAreSpentOnce

LEMMA NoncesStayApart ==
  ASSUME NoncesAreApart, [VisitorNext]_visitorVars
  PROVE  NoncesAreApart'
<1> USE DEF NoncesAreApart, Bearers, ChallengesAreSpentOnce
<1>1. CASE UNCHANGED <<nonces, challenges, verifying, opened>>
  BY <1>1
<1>2. ASSUME NEW w \in Wallets, IssueChallenge(w) PROVE NoncesAreApart'
  BY <1>2 DEF IssueChallenge
<1>3. CASE LoginBegins
  <2>1. PICK c \in challenges, b \in Browsers, w \in Wallets :
          /\ challenges' = challenges \ {c}
          /\ verifying' \in {verifying, verifying \cup {TakenBy(c, b, w)}}
          /\ UNCHANGED <<nonces, opened>>
    BY <1>3 DEF LoginBegins
  <2>2. TakenBy(c, b, w).nonce = c.nonce
    BY DEF TakenBy
  <2> QED BY <2>1, <2>2
<1>4. CASE LoginEnds
  <2>1. PICK v \in verifying :
          /\ verifying' = verifying \ {v}
          /\ opened' \in {opened, opened \cup {SessionFor(v)}}
          /\ UNCHANGED <<nonces, challenges>>
    BY <1>4 DEF LoginEnds
  <2>2. SessionFor(v).nonce = v.nonce
    BY DEF SessionFor
  <2> QED BY <2>1, <2>2
<1>5. CASE Sweep
  BY <1>5 DEF Sweep
<1>6. CASE CallbackEnds \/ PostIsLookedUp \/ PostEnds \/ TickGoes
  BY <1>6 DEF CallbackEnds, PostIsLookedUp, PostEnds, TickGoes
<1>7. ASSUME NEW b \in Browsers,
             \/ ExpiredIsTurnedAway(b) \/ Logout(b) \/ CallbackIsTurnedBack(b)
             \/ \E w \in Wallets : XStart(b, w) \/ CallbackBegins(b, w) \/ PostArrives(b, w)
      PROVE  UNCHANGED <<nonces, challenges, verifying, opened>>
  BY <1>7 DEF ExpiredIsTurnedAway, Logout, CallbackIsTurnedBack, XStart, CallbackBegins, PostArrives
<1> QED BY <1>1, <1>2, <1>3, <1>4, <1>5, <1>6, <1>7 DEF VisitorNext, visitorVars

LEMMA LooksInitially == VisitorInit => LooksAreCounted
BY LooksAssumption DEF VisitorInit, LooksAreCounted, AttemptsToday

(* A look is paid for and counted in one step, while there is one left.    *)
LEMMA LookIsCounted ==
  ASSUME LooksAreCounted, NEW w \in Wallets, CanSpendXCall(w), BumpXAttempt(w), Pays(w), UNCHANGED tick
  PROVE  /\ \A v \in Wallets : attempts'[v].n \in 0..LooksPerDay /\ paid'[v] \in 0..AttemptsToday(v)'
         /\ DOMAIN attempts' = Wallets /\ DOMAIN paid' = Wallets
         /\ attempts' = [v \in Wallets |-> attempts'[v]] /\ paid' = [v \in Wallets |-> paid'[v]]
<1> USE LooksAssumption DEF LooksAreCounted
<1>1. AttemptsToday(w) \in Nat /\ AttemptsToday(w) < LooksPerDay
  BY DEF AttemptsToday, CanSpendXCall
<1>2. /\ attempts' = [attempts EXCEPT ![w] = [day |-> UTCDayOf(tick), n |-> AttemptsToday(w) + 1]]
      /\ paid' = [paid EXCEPT ![w] = @ + 1]
  BY DEF BumpXAttempt, Pays
<1>3. attempts'[w].n = AttemptsToday(w) + 1 /\ AttemptsToday(w)' = AttemptsToday(w) + 1
  BY <1>2 DEF AttemptsToday, UTCDayOf
<1>4. \A v \in Wallets \ {w} : /\ attempts'[v] = attempts[v] /\ paid'[v] = paid[v]
                               /\ AttemptsToday(v)' = AttemptsToday(v)
  BY <1>2 DEF AttemptsToday, UTCDayOf
<1>5. paid'[w] = paid[w] + 1 /\ paid[w] \in 0..AttemptsToday(w)
  BY <1>2
<1>6. /\ DOMAIN attempts' = Wallets /\ DOMAIN paid' = Wallets
      /\ attempts' = [v \in Wallets |-> attempts'[v]] /\ paid' = [v \in Wallets |-> paid'[v]]
  BY <1>2
<1>7. attempts'[w].n \in 0..LooksPerDay /\ paid'[w] \in 0..AttemptsToday(w)'
  BY <1>1, <1>3, <1>5
<1>8. \A v \in Wallets \ {w} : attempts'[v].n \in 0..LooksPerDay /\ paid'[v] \in 0..AttemptsToday(v)'
  BY <1>4
<1> QED BY <1>6, <1>7, <1>8

LEMMA LooksStayCounted ==
  ASSUME LooksAreCounted, [VisitorNext]_visitorVars
  PROVE  LooksAreCounted'
<1>1. CASE /\ UNCHANGED <<tick, attempts, paid>>
           /\ calls' \subseteq CallsInFlight /\ link' \in [Wallets -> XUsers \cup {NoUser}]
  BY <1>1 DEF LooksAreCounted, AttemptsToday, UTCDayOf
<1>2. CASE TickGoes
  <2>1. CASE UTCDayOf(tick + 1) = UTCDayOf(tick)
    BY <1>2, <2>1 DEF TickGoes, LooksAreCounted, AttemptsToday, UTCDayOf
  <2>2. CASE UTCDayOf(tick + 1) # UTCDayOf(tick)
    BY <1>2, <2>2 DEF TickGoes, LooksAreCounted, AttemptsToday
  <2> QED BY <2>1, <2>2
<1>3. CASE PostIsLookedUp
  <2>1. PICK c \in calls :
          IF CanSpendXCall(c.who)
          THEN /\ calls' = (calls \ {c}) \cup {[c EXCEPT !.kind = "post"]}
               /\ BumpXAttempt(c.who) /\ Pays(c.who)
          ELSE calls' = calls \ {c} /\ UNCHANGED <<attempts, paid>>
    BY <1>3 DEF PostIsLookedUp
  <2>2. c.who \in Wallets /\ UNCHANGED <<tick, link>>
    BY <1>3 DEF PostIsLookedUp, LooksAreCounted, CallsInFlight
  <2>3. CASE CanSpendXCall(c.who)
    <3>1. calls' \subseteq CallsInFlight
      BY <2>1, <2>3 DEF LooksAreCounted, CallsInFlight
    <3> QED BY <2>1, <2>2, <2>3, <3>1, LookIsCounted DEF LooksAreCounted
  <2>4. CASE ~CanSpendXCall(c.who)
    BY <1>1, <2>1, <2>2, <2>4 DEF LooksAreCounted
  <2> QED BY <2>3, <2>4
<1>4. ASSUME NEW w \in Wallets, IssueChallenge(w) PROVE LooksAreCounted'
  BY <1>1, <1>4 DEF IssueChallenge, LooksAreCounted
<1>5. CASE LoginBegins \/ LoginEnds \/ Sweep \/ PostEnds
  BY <1>1, <1>5 DEF LoginBegins, LoginEnds, Sweep, PostEnds, LooksAreCounted
<1>10. CASE CallbackEnds
  <2>1. link' \in [Wallets -> XUsers \cup {NoUser}] /\ calls' \subseteq CallsInFlight
    BY <1>10 DEF CallbackEnds, LooksAreCounted, CallsInFlight
  <2> QED BY <1>1, <1>10, <2>1 DEF CallbackEnds
<1>6. ASSUME NEW b \in Browsers, NEW w \in Wallets, CallbackBegins(b, w) PROVE LooksAreCounted'
  <2>1. CanSpendXCall(w) /\ BumpXAttempt(w) /\ Pays(w) /\ UNCHANGED <<tick, link>>
    BY <1>6 DEF CallbackBegins, CanAttemptXLink
  <2>2. calls' \subseteq CallsInFlight
    BY <1>6 DEF CallbackBegins, LooksAreCounted, CallsInFlight
  <2> QED BY <2>1, <2>2, LookIsCounted DEF LooksAreCounted
<1>7. ASSUME NEW b \in Browsers, ExpiredIsTurnedAway(b) \/ Logout(b) \/ CallbackIsTurnedBack(b)
      PROVE  LooksAreCounted'
  BY <1>1, <1>7 DEF ExpiredIsTurnedAway, Logout, CallbackIsTurnedBack, LooksAreCounted
<1>8. ASSUME NEW b \in Browsers, NEW w \in Wallets, XStart(b, w) \/ PostArrives(b, w)
      PROVE  LooksAreCounted'
  BY <1>1, <1>8 DEF XStart, PostArrives, LooksAreCounted, CallsInFlight
<1>9. CASE UNCHANGED visitorVars
  BY <1>1, <1>9 DEF visitorVars, LooksAreCounted
<1> QED BY <1>2, <1>3, <1>4, <1>5, <1>6, <1>7, <1>8, <1>9, <1>10 DEF VisitorNext

(* A challenge opens one session at most, for the wallet it was made for,  *)
(* and no wallet costs more looks at X in a day than its allowance: for    *)
(* any number of logins, callbacks and claims that overlap.                *)
THEOREM SpentOnce == VisitorSpec => []NothingIsSpentTwice
<1>1. VisitorInit => NoncesAreApart /\ LooksAreCounted
  BY NoncesInitially, LooksInitially
<1>2. NoncesAreApart /\ LooksAreCounted /\ [VisitorNext]_visitorVars
        => (NoncesAreApart /\ LooksAreCounted)'
  BY NoncesStayApart, LooksStayCounted
<1>3. NoncesAreApart /\ LooksAreCounted => NothingIsSpentTwice
  <2> SUFFICES ASSUME NoncesAreApart, LooksAreCounted PROVE NothingIsSpentTwice
    OBVIOUS
  <2>1. ASSUME NEW w \in Wallets PROVE paid[w] <= LooksPerDay
    BY LooksAssumption DEF LooksAreCounted, AttemptsToday
  <2> QED BY <2>1 DEF NoncesAreApart, NothingIsSpentTwice, LooksStayInBudget
<1> QED BY <1>1, <1>2, <1>3, PTL DEF VisitorSpec

-----------------------------------------------------------------------------
(* The approvals.  A tab knows of a plan only its number and the step it   *)
(* is at; the order of a plan never changes, so what the tab's step stands *)
(* for does not, and a tab is past the first step of a plan only when that *)
(* was a removal the venue took.                                           *)
Steps  == {"fee", "remove", "approve"}
Orders == {<<"fee">>, <<"remove", "approve">>, <<"approve">>}
Plans  == [kind : Kinds, at : Nat, order : Orders, until : Nat, done : SUBSET Steps]
AtWork == {"signing", "sending", "approved", "cleared"}
Relays == [tab : Tabs, plan : Nat \ {None}, signed : Nat \ {None}, step : Steps,
           answer : {"none", "ok", "error"}]

ApprovalTypeOK ==
  /\ hour \in Nat
  /\ plans \in Seq(Plans)
  /\ pending \in [Kinds -> 0..Len(plans)]
  /\ tab \in [Tabs -> [at : {"idle", "preparing", "failed"} \cup AtWork, kind : Kinds,
                       plan : 0..Len(plans), step : {1, 2}, existing : BOOLEAN]]
  /\ relays \subseteq Relays
  /\ \A r \in relays : r.plan <= Len(plans)

(* What is known of a tab, and of a relay the web tier has an answer to.   *)
TabIsRight(t) ==
  /\ tab[t].at \in AtWork => tab[t].plan # None
  /\ tab[t].at = "preparing" => tab[t].step = 1
  /\ tab[t].plan # None => tab[t].step <= Len(plans[tab[t].plan].order)
  /\ tab[t].plan # None /\ tab[t].step > 1 => <<tab[t].plan, "remove">> \in taken
  /\ tab[t].at = "cleared" => <<tab[t].plan, "remove">> \in taken
  /\ tab[t].at = "approved" => <<tab[t].plan, StepOf(t)>> \in taken

RelayIsRight(r) ==
  /\ r.answer # "none" => r.signed = r.plan
  /\ r.answer = "ok" => <<r.plan, r.step>> \in taken

ApprovalsAreRight ==
  /\ ApprovalTypeOK
  /\ \A t \in Tabs : TabIsRight(t)
  /\ \A r \in relays : RelayIsRight(r)

(* No step rewrites the order of a plan, or undoes what the venue took.    *)
OnlyMore ==
  /\ taken \subseteq taken'
  /\ plans' \in Seq(Plans) /\ Len(plans') >= Len(plans)
  /\ \A p \in 1..Len(plans) : plans'[p].order = plans[p].order

LEMMA OrdersAreShort ==
  ASSUME NEW o \in Orders
  PROVE  /\ Len(o) \in {1, 2}
         /\ \A i \in 1..Len(o) : o[i] \in Steps
         /\ 1 < Len(o) => o[1] = "remove"
BY DEF Orders, Steps

LEMMA PlanOf ==
  ASSUME ApprovalTypeOK, NEW p \in 1..Len(plans)
  PROVE  plans[p] \in Plans /\ plans[p].order \in Orders
<1>1. plans \in Seq(Plans)
  BY DEF ApprovalTypeOK
<1>2. plans[p] \in Plans
  BY <1>1
<1> QED BY <1>2 DEF Plans

LEMMA ApprovalsInitially == ApprovalInit => ApprovalsAreRight
BY DEF ApprovalInit, ApprovalsAreRight, ApprovalTypeOK, TabIsRight, Quiet, None, Kinds, AtWork

(* A tab nobody touches stays as right as it was.                          *)
LEMMA UntouchedTab ==
  ASSUME ApprovalsAreRight, OnlyMore, NEW t \in Tabs, tab'[t] = tab[t]
  PROVE  TabIsRight(t)'
<1>1. tab[t].plan \in 0..Len(plans) /\ TabIsRight(t)
  BY DEF ApprovalsAreRight, ApprovalTypeOK
<1>2. tab[t].plan # None => plans'[tab[t].plan].order = plans[tab[t].plan].order
  BY <1>1 DEF OnlyMore, None, ApprovalsAreRight, ApprovalTypeOK
<1>3. tab[t].plan # None => StepOf(t)' = StepOf(t)
  BY <1>2 DEF StepOf
<1> QED BY <1>1, <1>2, <1>3 DEF TabIsRight, OnlyMore, AtWork

(* Nor does one that hears of a failure, says that it waits for an answer, *)
(* or is reloaded.                                                         *)
LEMMA SpokenTab ==
  ASSUME ApprovalsAreRight, OnlyMore, NEW t \in Tabs, NEW w,
         tab'[t] = [tab[t] EXCEPT !.at = w],
         w = Failure(t) \/ (w = "sending" /\ tab[t].at = "signing")
  PROVE  TabIsRight(t)' /\ tab'[t].plan = tab[t].plan /\ tab'[t].step = tab[t].step
<1>1. /\ tab[t] \in [at : {"idle", "preparing", "failed"} \cup AtWork, kind : Kinds,
                     plan : 0..Len(plans), step : {1, 2}, existing : BOOLEAN]
      /\ TabIsRight(t)
  BY DEF ApprovalsAreRight, ApprovalTypeOK
<1>2. tab'[t].at = w /\ tab'[t].plan = tab[t].plan /\ tab'[t].step = tab[t].step
  BY <1>1
<1>3. tab[t].plan # None => plans'[tab[t].plan].order = plans[tab[t].plan].order
  BY <1>1 DEF OnlyMore, None, ApprovalsAreRight, ApprovalTypeOK
<1>4. w = "cleared" => tab[t].plan # None /\ <<tab[t].plan, "remove">> \in taken
  BY <1>1 DEF Failure, TabIsRight
<1>5. w \in {"failed", "cleared", "sending"} /\ (w = "sending" => tab[t].plan # None)
  BY <1>1 DEF Failure, TabIsRight, AtWork
<1> QED BY <1>1, <1>2, <1>3, <1>4, <1>5 DEF TabIsRight, OnlyMore, AtWork

LEMMA QuietTab ==
  ASSUME NEW t, tab'[t].at \in {"idle", "preparing"}, tab'[t].plan = None, tab'[t].step = 1
  PROVE  TabIsRight(t)'
BY DEF TabIsRight, AtWork

LEMMA UntouchedRelays ==
  ASSUME ApprovalsAreRight, OnlyMore, NEW r \in relays
  PROVE  RelayIsRight(r)' /\ r.plan <= Len(plans')
<1>1. r.plan \in Nat /\ r.plan <= Len(plans) /\ RelayIsRight(r)
  BY DEF ApprovalsAreRight, ApprovalTypeOK, Relays
<1>2. Len(plans) \in Nat /\ Len(plans') \in Nat /\ Len(plans') >= Len(plans) /\ taken \subseteq taken'
  BY DEF ApprovalsAreRight, ApprovalTypeOK, OnlyMore
<1>3. RelayIsRight(r)'
  BY <1>1, <1>2 DEF RelayIsRight
<1> QED BY <1>1, <1>2, <1>3

(* A plan is added, and a step of one is marked as done.                   *)
LEMMA PlanAdded ==
  ASSUME ApprovalTypeOK, NEW k \in Kinds, NEW e \in BOOLEAN, plans' = Append(plans, NewPlan(k, e))
  PROVE  /\ plans' \in Seq(Plans) /\ Len(plans') = Len(plans) + 1
         /\ \A p \in 1..Len(plans) : plans'[p].order = plans[p].order
         /\ plans'[Len(plans')].order \in Orders
<1>1. plans \in Seq(Plans) /\ hour \in Nat
  BY DEF ApprovalTypeOK
<1>2. NewPlan(k, e) \in Plans
  BY <1>1, ValidAssumption DEF NewPlan, Plans, Order, Orders, Kinds
<1>3. /\ plans' \in Seq(Plans) /\ Len(plans') = Len(plans) + 1
      /\ \A p \in 1..Len(plans) : plans'[p] = plans[p]
      /\ plans'[Len(plans')] = NewPlan(k, e)
  BY <1>1, <1>2
<1> QED BY <1>2, <1>3 DEF Plans

LEMMA PlanMarked ==
  ASSUME ApprovalTypeOK, NEW q \in 1..Len(plans), NEW d \in SUBSET Steps,
         plans' = [plans EXCEPT ![q].done = d]
  PROVE  /\ plans' \in Seq(Plans) /\ Len(plans') = Len(plans)
         /\ \A p \in 1..Len(plans) : plans'[p].order = plans[p].order
<1>1. plans \in Seq(Plans)
  BY DEF ApprovalTypeOK
<1>2. \A p \in 1..Len(plans) : plans[p] \in Plans
  BY <1>1
<1>3. [plans[q] EXCEPT !.done = d] \in Plans /\ [plans[q] EXCEPT !.done = d].order = plans[q].order
  BY <1>2 DEF Plans
<1>4. plans' \in Seq(Plans) /\ Len(plans') = Len(plans)
  BY <1>1, <1>3
<1>5. \A p \in 1..Len(plans) : plans'[p] = IF p = q THEN [plans[q] EXCEPT !.done = d] ELSE plans[p]
  BY <1>1
<1> QED BY <1>3, <1>4, <1>5

LEMMA SamePlans ==
  ASSUME ApprovalTypeOK, UNCHANGED plans, taken \subseteq taken'
  PROVE  OnlyMore
BY DEF ApprovalTypeOK, OnlyMore

(* What a step of one tab, and of no relay, has to show.                   *)
LEMMA TabSteps ==
  ASSUME ApprovalsAreRight, OnlyMore, NEW t \in Tabs, ApprovalTypeOK',
         \A u \in Tabs \ {t} : tab'[u] = tab[u], TabIsRight(t)', UNCHANGED relays
  PROVE  ApprovalsAreRight'
<1>1. \A u \in Tabs : TabIsRight(u)'
  BY UntouchedTab
<1>2. \A r \in relays' : RelayIsRight(r)'
  BY UntouchedRelays
<1> QED BY <1>1, <1>2 DEF ApprovalsAreRight

TabStates == {"idle", "preparing", "failed"} \cup AtWork
TabRecords(n) == [at : TabStates, kind : Kinds, plan : 0..n, step : {1, 2}, existing : BOOLEAN]

LEMMA SayType ==
  ASSUME NEW n \in Nat, NEW x \in TabRecords(n), NEW w \in TabStates
  PROVE  [x EXCEPT !.at = w] \in TabRecords(n) /\ [x EXCEPT !.at = w].at = w
BY DEF TabRecords

LEMMA TabsTyped ==
  ASSUME ApprovalTypeOK
  PROVE  Len(plans) \in Nat /\ tab \in [Tabs -> TabRecords(Len(plans))]
BY DEF ApprovalTypeOK, TabRecords, TabStates

LEMMA FailureIsSaid == ASSUME NEW t PROVE Failure(t) \in {"failed", "cleared"}
BY DEF Failure

LEMMA PrepareBeginsRight ==
  ASSUME ApprovalsAreRight, NEW t \in Tabs, PrepareBegins(t)
  PROVE  ApprovalsAreRight'
<1>1. PICK k \in Kinds : tab' = [tab EXCEPT ![t] = [Quiet EXCEPT !.at = "preparing", !.kind = k, !.existing = held # None]]
  BY DEF PrepareBegins
<1> DEFINE x == [Quiet EXCEPT !.at = "preparing", !.kind = k, !.existing = held # None]
<1>3. ApprovalTypeOK /\ OnlyMore /\ Len(plans) \in Nat
  BY SamePlans, TabsTyped DEF ApprovalsAreRight, PrepareBegins
<1>2. Quiet \in TabRecords(Len(plans)) /\ Quiet.plan = None /\ Quiet.step = 1
  BY <1>3 DEF Quiet, TabRecords, TabStates, None, Kinds
<1>4. x \in TabRecords(Len(plans)) /\ x.at = "preparing" /\ x.plan = None /\ x.step = 1
  BY <1>2, <1>3 DEF TabRecords, TabStates
<1> HIDE DEF x
<1>5. tab' \in [Tabs -> TabRecords(Len(plans))] /\ tab'[t] = x /\ \A u \in Tabs \ {t} : tab'[u] = tab[u]
  BY <1>1, <1>3, <1>4, TabsTyped DEF x
<1>6. ApprovalTypeOK'
  BY <1>3, <1>5 DEF PrepareBegins, ApprovalTypeOK, TabRecords, TabStates
<1>7. TabIsRight(t)'
  BY <1>4, <1>5, QuietTab
<1> QED BY <1>3, <1>5, <1>6, <1>7, TabSteps DEF PrepareBegins

LEMMA PrepareEndsRight ==
  ASSUME ApprovalsAreRight, NEW t \in Tabs, PrepareEnds(t)
  PROVE  ApprovalsAreRight'
<1> DEFINE n == Len(plans')
           x == [tab[t] EXCEPT !.at = "signing", !.plan = n, !.existing = FALSE]
<1>1. ApprovalTypeOK /\ tab \in [Tabs -> TabRecords(Len(plans))] /\ Len(plans) \in Nat /\ TabIsRight(t)
  BY TabsTyped DEF ApprovalsAreRight
<1>2. tab[t].kind \in Kinds /\ tab[t].existing \in BOOLEAN /\ tab[t].step = 1
  BY <1>1 DEF TabRecords, TabIsRight, PrepareEnds
<1>3. /\ plans' \in Seq(Plans) /\ n = Len(plans) + 1 /\ n \in Nat /\ n # None
      /\ \A p \in 1..Len(plans) : plans'[p].order = plans[p].order
      /\ plans'[n].order \in Orders
  BY <1>1, <1>2, PlanAdded DEF PrepareEnds, None
<1>4. OnlyMore
  BY <1>1, <1>3 DEF OnlyMore, PrepareEnds
<1> HIDE DEF n
<1>5. /\ x \in TabRecords(n)
      /\ x.at = "signing" /\ x.plan = n /\ x.step = 1
  <2>1. tab[t] \in TabRecords(n)
    BY <1>1, <1>3 DEF TabRecords
  <2>2. x \in TabRecords(n)
    <3>1. n \in 0..n
      BY <1>3
    <3> QED BY <2>1, <3>1 DEF TabRecords, TabStates, AtWork
  <2>3. x.at = "signing" /\ x.plan = n /\ x.step = tab[t].step
    BY <2>1 DEF TabRecords
  <2> QED BY <1>2, <2>2, <2>3
<1>6. tab' = [tab EXCEPT ![t] = x]
  BY <1>1 DEF PrepareEnds, n
<1> HIDE DEF x
<1>7. \A u \in Tabs : tab[u] \in TabRecords(n)
  BY <1>1, <1>3 DEF TabRecords
<1>8. tab' \in [Tabs -> TabRecords(n)] /\ tab'[t] = x /\ \A u \in Tabs \ {t} : tab'[u] = tab[u]
  BY <1>1, <1>5, <1>6, <1>7
<1>9. pending' \in [Kinds -> 0..n]
  BY <1>1, <1>2, <1>3 DEF PrepareEnds, ApprovalTypeOK, n
<1>10. ApprovalTypeOK'
  <2>1. \A r \in relays : r.plan <= n
    BY <1>1, <1>3 DEF ApprovalTypeOK, Relays
  <2> QED BY <1>1, <1>3, <1>8, <1>9, <2>1 DEF PrepareEnds, ApprovalTypeOK, TabRecords, TabStates, n
<1>11. TabIsRight(t)'
  <2>1. Len(plans'[n].order) \in {1, 2}
    BY <1>3, OrdersAreShort
  <2>2. tab'[t].at = "signing" /\ tab'[t].plan = n /\ tab'[t].step = 1
    BY <1>5, <1>8
  <2>3. tab'[t].step <= Len(plans'[tab'[t].plan].order)
    BY <2>1, <2>2
  <2>4. tab'[t].plan # None /\ ~(tab'[t].step > 1)
    BY <1>3, <2>2
  <2> QED BY <2>2, <2>3, <2>4 DEF TabIsRight
<1> QED BY <1>4, <1>8, <1>10, <1>11, TabSteps DEF PrepareEnds

LEMMA TabGivesUp ==
  ASSUME ApprovalsAreRight, NEW t \in Tabs, OwnerDeclines(t) \/ TabIsReloaded(t)
  PROVE  ApprovalsAreRight'
<1>1. ApprovalTypeOK /\ tab \in [Tabs -> TabRecords(Len(plans))] /\ Len(plans) \in Nat /\ OnlyMore
  BY TabsTyped, SamePlans DEF ApprovalsAreRight, OwnerDeclines, TabIsReloaded
<1>2. CASE OwnerDeclines(t)
  <2> DEFINE x == [tab[t] EXCEPT !.at = Failure(t)]
  <2>1. x \in TabRecords(Len(plans))
    BY <1>1, SayType, FailureIsSaid DEF TabStates, AtWork
  <2>2. tab' = [tab EXCEPT ![t] = x]
    BY <1>1, <1>2 DEF OwnerDeclines, Fails, Says
  <2>3. tab' \in [Tabs -> TabRecords(Len(plans))] /\ tab'[t] = x /\ \A u \in Tabs \ {t} : tab'[u] = tab[u]
    BY <1>1, <2>1, <2>2
  <2>4. ApprovalTypeOK'
    BY <1>1, <1>2, <2>3 DEF OwnerDeclines, ApprovalTypeOK, TabRecords, TabStates
  <2>5. TabIsRight(t)'
    BY <1>1, <2>3, SpokenTab
  <2> QED BY <1>1, <1>2, <2>3, <2>4, <2>5, TabSteps DEF OwnerDeclines
<1>3. CASE TabIsReloaded(t)
  <2>1. Quiet \in TabRecords(Len(plans)) /\ Quiet.at = "idle" /\ Quiet.plan = None /\ Quiet.step = 1
    BY <1>1 DEF TabRecords, TabStates, Quiet, None, Kinds
  <2>2. tab' \in [Tabs -> TabRecords(Len(plans))] /\ tab'[t] = Quiet /\ \A u \in Tabs \ {t} : tab'[u] = tab[u]
    BY <1>1, <1>3, <2>1 DEF TabIsReloaded
  <2>3. ApprovalTypeOK'
    BY <1>1, <1>3, <2>2 DEF TabIsReloaded, ApprovalTypeOK, TabRecords, TabStates
  <2>4. TabIsRight(t)'
    BY <2>1, <2>2, QuietTab
  <2> QED BY <1>1, <1>3, <2>2, <2>3, <2>4, TabSteps DEF TabIsReloaded
<1> QED BY <1>2, <1>3

(* The relay.  One begins with the plan that waits, and the tab's own.     *)
LEMMA RelayBeginsRight ==
  ASSUME ApprovalsAreRight, NEW t \in Tabs, RelayBegins(t)
  PROVE  ApprovalsAreRight'
<1>1. ApprovalTypeOK /\ tab \in [Tabs -> TabRecords(Len(plans))] /\ Len(plans) \in Nat /\ OnlyMore
  BY TabsTyped, SamePlans DEF ApprovalsAreRight, RelayBegins
<1>2. /\ tab[t].plan \in 1..Len(plans) /\ tab[t].kind \in Kinds /\ tab[t].step \in {1, 2}
      /\ tab[t].step <= Len(plans[tab[t].plan].order) /\ tab[t].at = "signing"
  <2>1. tab[t] \in TabRecords(Len(plans)) /\ TabIsRight(t) /\ tab[t].at = "signing"
    BY <1>1 DEF ApprovalsAreRight, RelayBegins
  <2>2. tab[t].plan # None /\ tab[t].step <= Len(plans[tab[t].plan].order)
    BY <2>1 DEF TabIsRight, AtWork
  <2>3. tab[t].plan \in 0..Len(plans) /\ tab[t].kind \in Kinds /\ tab[t].step \in {1, 2}
    BY <2>1 DEF TabRecords
  <2> QED BY <1>1, <2>1, <2>2, <2>3 DEF None
<1>3. StepOf(t) \in Steps
  BY <1>1, <1>2, PlanOf, OrdersAreShort DEF StepOf
<1> DEFINE r == [tab |-> t, plan |-> Waiting(t), signed |-> tab[t].plan, step |-> StepOf(t), answer |-> "none"]
<1>4. PICK w \in {"sending", Failure(t)} :
        /\ tab' = [tab EXCEPT ![t].at = w]
        /\ \/ relays' = relays \cup {r} /\ Waiting(t) # None /\ UNCHANGED pending
           \/ UNCHANGED relays /\ pending' \in {pending, [pending EXCEPT ![tab[t].kind] = None]}
  BY DEF RelayBegins, Fails, Says
<1> DEFINE x == [tab[t] EXCEPT !.at = w]
<1>5. x \in TabRecords(Len(plans))
  BY <1>1, <1>4, SayType, FailureIsSaid DEF TabStates, AtWork
<1>6. tab' = [tab EXCEPT ![t] = x]
  BY <1>1, <1>4
<1>7. tab' \in [Tabs -> TabRecords(Len(plans))] /\ tab'[t] = x /\ \A u \in Tabs \ {t} : tab'[u] = tab[u]
  BY <1>1, <1>5, <1>6
<1>8. TabIsRight(t)'
  BY <1>1, <1>2, <1>4, <1>7, SpokenTab
<1> HIDE DEF x
<1>9. pending' \in [Kinds -> 0..Len(plans)]
  <2>1. pending \in [Kinds -> 0..Len(plans)] /\ None \in 0..Len(plans)
    BY <1>1 DEF ApprovalTypeOK, None
  <2> QED BY <1>2, <1>4, <2>1
<1>10. CASE UNCHANGED relays
  <2>1. ApprovalTypeOK'
    BY <1>1, <1>7, <1>9, <1>10 DEF RelayBegins, ApprovalTypeOK, TabRecords, TabStates
  <2> QED BY <1>1, <1>7, <1>8, <1>10, <2>1, TabSteps
<1>11. CASE relays' = relays \cup {r} /\ Waiting(t) # None
  <2>1. Waiting(t) \in 0..Len(plans)
    BY <1>1, <1>2 DEF Waiting, ApprovalTypeOK
  <2>2. r \in Relays /\ r.plan <= Len(plans) /\ r.answer = "none"
    BY <1>1, <1>2, <1>3, <1>11, <2>1 DEF Relays, None
  <2> HIDE DEF r
  <2>3. ApprovalTypeOK'
    BY <1>1, <1>7, <1>9, <1>11, <2>2 DEF RelayBegins, ApprovalTypeOK, TabRecords, TabStates
  <2>4. \A u \in Tabs : TabIsRight(u)'
    BY <1>1, <1>7, <1>8, UntouchedTab
  <2>5. \A q \in relays' : RelayIsRight(q)'
    BY <1>1, <1>11, <2>2, UntouchedRelays DEF RelayIsRight
  <2> QED BY <2>3, <2>4, <2>5 DEF ApprovalsAreRight
<1> QED BY <1>4, <1>10, <1>11

(* What happens to a relay changes one tab, the one that waits for it.     *)
LEMMA RelayOf ==
  ASSUME ApprovalsAreRight, NEW r \in relays
  PROVE  /\ r \in Relays /\ r.tab \in Tabs /\ r.plan \in 1..Len(plans) /\ r.step \in Steps /\ RelayIsRight(r)
         /\ ApprovalTypeOK /\ tab \in [Tabs -> TabRecords(Len(plans))] /\ Len(plans) \in Nat
BY TabsTyped DEF ApprovalsAreRight, ApprovalTypeOK, Relays, None

LEMMA RelayFailsTab ==
  ASSUME ApprovalsAreRight, NEW r \in relays, OnlyMore, UNCHANGED plans, Fails(r.tab) \/ UNCHANGED tab
  PROVE  tab' \in [Tabs -> TabRecords(Len(plans))] /\ \A u \in Tabs : TabIsRight(u)'
<1> DEFINE t == r.tab
<1>1. t \in Tabs /\ tab \in [Tabs -> TabRecords(Len(plans))] /\ Len(plans) \in Nat
  BY RelayOf
<1>2. CASE UNCHANGED tab
  BY <1>1, <1>2, UntouchedTab
<1>3. CASE Fails(t)
  <2> DEFINE x == [tab[t] EXCEPT !.at = Failure(t)]
  <2>1. x \in TabRecords(Len(plans))
    BY <1>1, SayType, FailureIsSaid DEF TabStates, AtWork
  <2>2. tab' = [tab EXCEPT ![t] = x]
    BY <1>1, <1>3 DEF Fails, Says
  <2>3. tab' \in [Tabs -> TabRecords(Len(plans))] /\ tab'[t] = x /\ \A u \in Tabs \ {t} : tab'[u] = tab[u]
    BY <1>1, <2>1, <2>2
  <2>4. TabIsRight(t)'
    BY <1>1, <2>3, SpokenTab
  <2> QED BY <2>3, <2>4, UntouchedTab
<1> QED BY <1>2, <1>3

LEMMA RelayRefused ==
  ASSUME ApprovalsAreRight, NEW r \in relays, RelayIsNotTheirs(r)
  PROVE  ApprovalsAreRight'
<1>1. OnlyMore /\ ApprovalTypeOK
  BY SamePlans DEF ApprovalsAreRight, RelayIsNotTheirs
<1>2. tab' \in [Tabs -> TabRecords(Len(plans))] /\ \A u \in Tabs : TabIsRight(u)'
  BY <1>1, RelayFailsTab DEF RelayIsNotTheirs
<1>3. \A q \in relays' : RelayIsRight(q)'
  BY <1>1, UntouchedRelays DEF RelayIsNotTheirs
<1>4. ApprovalTypeOK'
  BY <1>1, <1>2 DEF RelayIsNotTheirs, ApprovalTypeOK, TabRecords, TabStates
<1> QED BY <1>2, <1>3, <1>4 DEF ApprovalsAreRight

(* The venue's answer is the word for what it did.                         *)
LEMMA RelayAnswered ==
  ASSUME ApprovalsAreRight, NEW r \in relays, RelayReachesVenue(r) \/ RelayIsUnreachable(r)
  PROVE  ApprovalsAreRight'
<1>1. r \in Relays /\ r.plan \in 1..Len(plans) /\ ApprovalTypeOK
  BY RelayOf
<1>2. taken \subseteq taken' /\ UNCHANGED <<plans, tab, pending, hour>> /\ r.signed = r.plan
  BY DEF RelayReachesVenue, RelayIsUnreachable
<1>3. OnlyMore
  BY <1>1, <1>2, SamePlans
<1>4. PICK a \in {"ok", "error"} :
        /\ relays' = (relays \ {r}) \cup {[r EXCEPT !.answer = a]}
        /\ a = "ok" => <<r.plan, r.step>> \in taken'
  BY DEF RelayReachesVenue, RelayIsUnreachable, ReadExchangeResponse
<1> DEFINE q == [r EXCEPT !.answer = a]
<1>5. q \in Relays /\ q.plan = r.plan /\ q.step = r.step /\ q.signed = r.signed /\ q.answer = a
  BY <1>1, <1>4 DEF Relays
<1>6. RelayIsRight(q)'
  BY <1>2, <1>4, <1>5 DEF RelayIsRight
<1> HIDE DEF q
<1>7. relays' = (relays \ {r}) \cup {q}
  BY <1>4 DEF q
<1>8. ApprovalTypeOK'
  BY <1>1, <1>2, <1>5, <1>7 DEF ApprovalTypeOK
<1>9. \A u \in Tabs : TabIsRight(u)'
  BY <1>2, <1>3, UntouchedTab
<1>10. \A p \in relays' : RelayIsRight(p)'
  BY <1>3, <1>6, <1>7, UntouchedRelays
<1> QED BY <1>8, <1>9, <1>10 DEF ApprovalsAreRight

(* A good answer moves the tab that waits for it to the plan's next step,  *)
(* past a removal, or to its last word.                                    *)
LEMMA RelaySucceeds ==
  ASSUME ApprovalsAreRight, NEW r \in relays, RelayEnds(r), r.answer = "ok"
  PROVE  /\ OnlyMore /\ Len(plans') = Len(plans) /\ pending' \in [Kinds -> 0..Len(plans)]
         /\ tab' \in [Tabs -> TabRecords(Len(plans))] /\ \A u \in Tabs : TabIsRight(u)'
<1> DEFINE p == r.plan
           done == plans[p].done \cup {r.step}
           t == r.tab
<1>1. /\ r \in Relays /\ t \in Tabs /\ p \in 1..Len(plans) /\ r.step \in Steps
      /\ ApprovalTypeOK /\ tab \in [Tabs -> TabRecords(Len(plans))] /\ Len(plans) \in Nat
      /\ r.signed = p /\ <<p, r.step>> \in taken
  BY RelayOf DEF RelayIsRight
<1>2. plans[p] \in Plans
  BY <1>1, PlanOf
<1>3. /\ plans' = [plans EXCEPT ![p].done = done] /\ UNCHANGED taken
      /\ pending' \in {pending, [pending EXCEPT ![plans[p].kind] = None]}
  BY DEF RelayEnds
<1>4. done \in SUBSET Steps /\ plans[p].kind \in Kinds /\ plans[p].order \in Orders
  BY <1>1, <1>2 DEF Plans
<1>5. OnlyMore /\ Len(plans') = Len(plans)
  <2> HIDE DEF done
  <2>1. /\ plans' \in Seq(Plans) /\ Len(plans') = Len(plans)
        /\ \A q \in 1..Len(plans) : plans'[q].order = plans[q].order
    BY <1>1, <1>3, <1>4, PlanMarked
  <2> QED BY <1>1, <1>3, <2>1 DEF OnlyMore
<1>6. pending' \in [Kinds -> 0..Len(plans)]
  <2>1. pending \in [Kinds -> 0..Len(plans)] /\ None \in 0..Len(plans)
    BY <1>1 DEF ApprovalTypeOK, None
  <2> QED BY <1>3, <1>4, <2>1
<1>7. CASE ~Listens(r)
  BY <1>1, <1>5, <1>6, <1>7, UntouchedTab DEF RelayEnds
<1>8. CASE Listens(r)
  <2>1. tab[t].at = "sending" /\ tab[t].plan = p /\ StepOf(t) = r.step
    BY <1>1, <1>8 DEF Listens
  <2>2. tab[t] \in TabRecords(Len(plans)) /\ TabIsRight(t)
    BY <1>1 DEF ApprovalsAreRight
  <2>3. p # None /\ plans'[p].order = plans[p].order
    BY <1>1, <1>5 DEF None, OnlyMore
  <2>4. CASE tab[t].step < Len(plans[p].order)
    <3> DEFINE x == [tab[t] EXCEPT !.at = "signing", !.step = @ + 1]
    <3>1. tab[t].step = 1 /\ 2 <= Len(plans[p].order) /\ plans[p].order[1] = "remove"
      <4>1. tab[t].step \in {1, 2}
        BY <2>2 DEF TabRecords
      <4>2. Len(plans[p].order) \in {1, 2} /\ (1 < Len(plans[p].order) => plans[p].order[1] = "remove")
        BY <1>4, OrdersAreShort
      <4>3. \A i, j \in {1, 2} : i < j => i = 1 /\ j = 2
        OBVIOUS
      <4>4. tab[t].step = 1 /\ Len(plans[p].order) = 2
        BY <2>4, <4>1, <4>2, <4>3
      <4> QED BY <4>2, <4>4
    <3>2. <<p, "remove">> \in taken
      BY <1>1, <2>1, <3>1 DEF StepOf
    <3>3. x \in TabRecords(Len(plans)) /\ x.at = "signing" /\ x.plan = p /\ x.step = 2
      <4>1. tab[t].step + 1 = 2 /\ tab[t].step + 1 \in {1, 2}
        BY <3>1
      <4>2. x \in TabRecords(Len(plans))
        BY <2>2, <4>1 DEF TabRecords, TabStates, AtWork
      <4>3. x.at = "signing" /\ x.plan = tab[t].plan /\ x.step = tab[t].step + 1
        BY <2>2 DEF TabRecords
      <4> QED BY <2>1, <4>1, <4>2, <4>3
    <3>4. tab' = [tab EXCEPT ![t] = x]
      BY <1>1, <1>8, <2>4, <2>1 DEF RelayEnds
    <3> HIDE DEF x
    <3>5. tab' \in [Tabs -> TabRecords(Len(plans))] /\ tab'[t] = x /\ \A u \in Tabs \ {t} : tab'[u] = tab[u]
      BY <1>1, <3>3, <3>4
    <3>6. tab'[t].at = "signing" /\ tab'[t].plan = p /\ tab'[t].step = 2
      BY <3>3, <3>5
    <3>7. TabIsRight(t)'
      BY <1>3, <2>3, <3>1, <3>2, <3>6 DEF TabIsRight
    <3> QED BY <1>1, <1>5, <1>6, <3>5, <3>7, UntouchedTab
  <2>5. CASE ~(tab[t].step < Len(plans[p].order))
    <3> DEFINE x == [tab[t] EXCEPT !.at = "approved"]
    <3>1. x \in TabRecords(Len(plans)) /\ x.at = "approved" /\ x.plan = p /\ x.step = tab[t].step
      BY <1>1, <2>1, <2>2 DEF TabRecords, TabStates, AtWork
    <3>2. tab' = [tab EXCEPT ![t] = x]
      BY <1>1, <1>8, <2>5, <2>1 DEF RelayEnds, Says
    <3> HIDE DEF x
    <3>3. tab' \in [Tabs -> TabRecords(Len(plans))] /\ tab'[t] = x /\ \A u \in Tabs \ {t} : tab'[u] = tab[u]
      BY <1>1, <3>1, <3>2
    <3>4. tab'[t].at = "approved" /\ tab'[t].plan = p /\ tab'[t].step = tab[t].step
      BY <3>1, <3>3
    <3>5. StepOf(t)' = r.step
      BY <2>1, <2>3, <3>4 DEF StepOf
    <3>6. /\ tab[t].step <= Len(plans[p].order)
          /\ tab[t].step > 1 => <<p, "remove">> \in taken
      BY <2>1, <2>2, <2>3 DEF TabIsRight
    <3>7. TabIsRight(t)'
      BY <1>1, <1>3, <2>3, <3>4, <3>5, <3>6 DEF TabIsRight
    <3> QED BY <1>1, <1>5, <1>6, <3>3, <3>7, UntouchedTab
  <2> QED BY <2>4, <2>5
<1> QED BY <1>7, <1>8

LEMMA RelayEndsRight ==
  ASSUME ApprovalsAreRight, NEW r \in relays, RelayEnds(r)
  PROVE  ApprovalsAreRight'
<1>1. ApprovalTypeOK /\ Len(plans) \in Nat /\ relays' = relays \ {r} /\ UNCHANGED <<hour, taken>>
  BY TabsTyped DEF ApprovalsAreRight, RelayEnds
<1>2. /\ OnlyMore /\ Len(plans') = Len(plans) /\ pending' \in [Kinds -> 0..Len(plans)]
      /\ tab' \in [Tabs -> TabRecords(Len(plans))] /\ \A u \in Tabs : TabIsRight(u)'
  <2>1. CASE r.answer = "ok"
    BY <2>1, RelaySucceeds
  <2>2. CASE r.answer # "ok"
    <3>1. UNCHANGED <<plans, pending>> /\ (Fails(r.tab) \/ UNCHANGED tab)
      BY <2>2 DEF RelayEnds
    <3>2. OnlyMore
      BY <1>1, <3>1, SamePlans
    <3> QED BY <1>1, <3>1, <3>2, RelayFailsTab DEF ApprovalTypeOK
  <2> QED BY <2>1, <2>2
<1>3. \A q \in relays' : RelayIsRight(q)' /\ q.plan <= Len(plans')
  BY <1>1, <1>2, UntouchedRelays
<1>4. ApprovalTypeOK'
  BY <1>1, <1>2, <1>3 DEF ApprovalTypeOK, OnlyMore, TabRecords, TabStates
<1> QED BY <1>2, <1>3, <1>4 DEF ApprovalsAreRight

(* The owner on the venue, the venue's pruning, the clock and a restart.   *)
LEMMA MishapsRight ==
  ASSUME ApprovalsAreRight, OwnerActsOnVenue \/ VenuePrunes \/ HourGoes \/ UNCHANGED approvalVars
  PROVE  ApprovalsAreRight'
<1>1. /\ ApprovalTypeOK /\ UNCHANGED <<plans, pending, tab, relays, taken>> /\ hour' \in Nat
  BY DEF ApprovalsAreRight, ApprovalTypeOK, OwnerActsOnVenue, VenuePrunes, HourGoes, approvalVars
<1>2. OnlyMore
  BY <1>1, SamePlans
<1>3. ApprovalTypeOK'
  BY <1>1 DEF ApprovalTypeOK
<1> QED BY <1>1, <1>2, <1>3, UntouchedTab, UntouchedRelays DEF ApprovalsAreRight

LEMMA RestartRight ==
  ASSUME ApprovalsAreRight, WebRestarts
  PROVE  ApprovalsAreRight'
<1>1. ApprovalTypeOK /\ tab \in [Tabs -> TabRecords(Len(plans))] /\ Len(plans) \in Nat /\ OnlyMore
  BY TabsTyped, SamePlans DEF ApprovalsAreRight, WebRestarts
<1>2. ASSUME NEW t \in Tabs
      PROVE  tab'[t] \in TabRecords(Len(plans)) /\ TabIsRight(t)'
  <2>1. tab'[t] = tab[t] \/ tab'[t] = [tab[t] EXCEPT !.at = Failure(t)]
    BY DEF WebRestarts
  <2>2. CASE tab'[t] = tab[t]
    BY <1>1, <2>2, UntouchedTab
  <2>3. CASE tab'[t] = [tab[t] EXCEPT !.at = Failure(t)]
    <3>1. TabIsRight(t)'
      BY <1>1, <2>3, SpokenTab
    <3>2. Failure(t) \in TabStates /\ tab[t] \in TabRecords(Len(plans))
      BY <1>1, FailureIsSaid DEF TabStates, AtWork
    <3>3. tab'[t] \in TabRecords(Len(plans))
      BY <1>1, <2>3, <3>2, SayType
    <3> QED BY <3>1, <3>3
  <2> QED BY <2>1, <2>2, <2>3
<1>3. tab' \in [Tabs -> TabRecords(Len(plans))]
  BY <1>2 DEF WebRestarts
<1>4. pending' \in [Kinds -> 0..Len(plans)] /\ relays' = {}
  BY <1>1 DEF WebRestarts, None
<1>5. ApprovalTypeOK'
  BY <1>1, <1>3, <1>4 DEF WebRestarts, ApprovalTypeOK, TabRecords, TabStates
<1> QED BY <1>2, <1>4, <1>5 DEF ApprovalsAreRight

(* "Approved" is said of a step the venue took, and "the old entry was     *)
(* already cleared" of a plan whose removal it took: for any number of     *)
(* tabs and plans, through lost answers, restarts and acts by hand.        *)
THEOREM TabsSayWhatIs == ApprovalSpec => []TabsAreRight
<1>1. ApprovalsAreRight /\ [ApprovalNext]_approvalVars => ApprovalsAreRight'
  BY PrepareBeginsRight, PrepareEndsRight, TabGivesUp, RelayBeginsRight, RelayRefused, RelayAnswered,
     RelayEndsRight, MishapsRight, RestartRight DEF ApprovalNext
<1>2. ApprovalsAreRight => TabsAreRight
  BY DEF ApprovalsAreRight, TabIsRight, TabsAreRight
<1> QED BY <1>1, <1>2, ApprovalsInitially, PTL DEF ApprovalSpec

-----------------------------------------------------------------------------
(***************************************************************************)
(* The limits of the accounts (Limits).                                    *)
(***************************************************************************)
AnyLimits == Offers \cup {NoLimits}
Events    == {"connect", "owner", "operator", "start"}
Presses   == [at : Nat, limits : AnyLimits]
RowsOf    == [limits : AnyLimits, at : Nat, by : Events]

LimitsTypeOK ==
  /\ instant \in Nat
  /\ row \in [Connected -> RowsOf]
  /\ {chosen, file, traded} \subseteq [Connected -> AnyLimits]
  /\ {pressed, inHand} \subseteq [Connected -> Presses]
  /\ \A c \in console : c.account \in Connected /\ c.limits \in AnyLimits

(* A press is of a later instant than any row written before it, and the   *)
(* request in hand is the last one pressed unless it was overtaken.        *)
PressesAreLater ==
  /\ \A w \in Connected :
       /\ row[w].at <= instant /\ pressed[w].at <= instant
       /\ pressed[w] # NoPress => pressed[w].at > 0
       /\ row[w].by = "connect" => row[w].at = 0
       /\ w \notin overtaken => inHand[w] \in {NoPress, pressed[w]}
  /\ SpentIsServed

(* The executor has nothing in memory when it is down, not even requests.  *)
Stopped == \A w \in Connected : traded[w] = NoLimits /\ inHand[w] = NoPress

CardsAreRight ==
  Stopped \/ \A w \in Connected : row[w].limits = traded[w] \/ row[w].by = "operator"

(***************************************************************************)
(* The accounts moved on a day, and those of them never moved with the     *)
(* word that passes the budget.  The budget may shrink within the day, and *)
(* a word passed later takes an account out of the count, so what holds is *)
(* said of every part of the plain ones: the last of any n of them to be   *)
(* moved for the first time was looked at under a budget of n or more.     *)
(***************************************************************************)
MovedOn(d) == {m \in moved : m.day = d}
PlainOn(d) == {w \in ChangedOn(d) : \A m \in MovedOn(d) : m.account = w => ~m.everyone}

MovesFit ==
  /\ \A m \in moved \cup console : m.account \in Connected /\ m.budget \in 0..(Cardinality(Connected) + 1)
  /\ \A c \in console : \/ c.everyone
                        \/ c.account \in ChangedOn(c.day)
                        \/ Cardinality(ChangedOn(c.day)) < c.budget
  /\ \A d : \A S \in SUBSET PlainOn(d) :
       S # {} => \E m \in MovedOn(d) : m.account \in S /\ m.budget >= Cardinality(S)

LimitsInv == LimitsTypeOK /\ PressesAreLater /\ CardsAreRight /\ MovesFit

LEMMA FewAccounts ==
  ASSUME NEW S \in SUBSET Connected
  PROVE  IsFiniteSet(S) /\ Cardinality(S) \in Nat /\ Cardinality(S) <= Cardinality(Connected)
         /\ Cardinality(Connected) \in Nat
BY ConnectedAssumption, FS_Subset, FS_CardinalityType

LEMMA BudgetIsBounded == Budget \in 0..(Cardinality(Connected) + 1)
<1> DEFINE n == Cardinality({w \in Connected : Pinned(w)})
<1>1. n \in Nat /\ n <= Cardinality(Connected) /\ Cardinality(Connected) \in Nat
  BY FewAccounts
<1> HIDE DEF n
<1>2. Max({1, n}) = IF 1 >= n THEN 1 ELSE n
  BY <1>1, MaxOfTwo
<1>3. Max({1, n}) \in 0..(Cardinality(Connected) + 1)
  BY <1>1, <1>2
<1> QED BY <1>3 DEF Budget, n

LEMMA LimitsInitially == LimitsInit => LimitsInv
<1> SUFFICES ASSUME LimitsInit PROVE LimitsInv
  OBVIOUS
<1>1. PressesAreLater
  BY DEF LimitsInit, PressesAreLater, SpentIsServed, NoPress
<1>2. CardsAreRight
  BY DEF LimitsInit, CardsAreRight
<1>3. MovesFit
  BY DEF LimitsInit, MovesFit, PlainOn, ChangedOn
<1>4. LimitsTypeOK
  <2>1. First \in Offers
    BY OffersAssumption DEF First
  <2> QED BY <2>1 DEF LimitsInit, LimitsTypeOK, AnyLimits, Events, Presses, RowsOf, NoPress
<1> QED BY <1>1, <1>2, <1>3, <1>4 DEF LimitsInv

-----------------------------------------------------------------------------
(* The types.                                                              *)
LEMMA LimitsTyped ==
  ASSUME LimitsTypeOK, [LimitsNext]_limitsVars
  PROVE  LimitsTypeOK'
<1> USE DEF LimitsTypeOK
<1>1. CASE UNCHANGED limitsVars
  BY <1>1 DEF limitsVars
<1>2. ASSUME NEW w \in Connected, OwnerPresses(w) PROVE LimitsTypeOK'
  BY <1>2 DEF OwnerPresses, Presses, AnyLimits
<1>3. ASSUME NEW w \in Connected, OperatorLooks(w)
      PROVE  LimitsTypeOK'
  BY <1>3 DEF OperatorLooks, AnyLimits
<1>4. ASSUME NEW w \in Connected, OperatorPins(w) PROVE LimitsTypeOK'
  BY <1>4, OffersAssumption DEF OperatorPins, AnyLimits
<1>5. CASE ExecutorReads \/ TimePasses
  BY <1>5 DEF ExecutorReads, TimePasses
<1>6. CASE ExecutorServes
  <2>1. \A w \in Connected : inHand[w] \in Presses /\ row[w] \in RowsOf
    OBVIOUS
  <2>2. \A w \in Connected : /\ ServedRow(w) \in RowsOf /\ ServedChoice(w) \in AnyLimits
                             /\ ServedMemory(w) \in AnyLimits
    BY <2>1 DEF ServedRow, ServedChoice, ServedMemory, Applied, RowsOf, Presses, Events
  <2>3. NoPress \in Presses
    BY DEF NoPress, Presses, AnyLimits
  <2> QED BY <1>6, <2>2, <2>3 DEF ExecutorServes
<1>7. CASE ExecutorStops
  <2>1. NoPress \in Presses /\ NoLimits \in AnyLimits
    BY DEF NoPress, Presses, AnyLimits
  <2> QED BY <1>7, <2>1 DEF ExecutorStops
<1>8. CASE ExecutorStarts
  <2>1. \A w \in Connected : LoadSettings(w) \in AnyLimits
    BY DEF LoadSettings
  <2>2. \A w \in Connected : Synced(w) \in RowsOf
    BY <2>1 DEF Synced, Applied, RowsOf, Events
  <2> QED BY <1>8, <2>1, <2>2 DEF ExecutorStarts
<1>9. CASE OperatorWrites
  <2>1. PICK c \in console : /\ row' = [row EXCEPT ![c.account] = Applied(c.limits, "operator")]
                             /\ chosen' = [chosen EXCEPT ![c.account] = c.limits]
    BY <1>9 DEF OperatorWrites
  <2>2. Applied(c.limits, "operator") \in RowsOf /\ c.limits \in AnyLimits
    BY DEF Applied, RowsOf, Events
  <2> QED BY <1>9, <2>1, <2>2 DEF OperatorWrites
<1> QED BY <1>1, <1>2, <1>3, <1>4, <1>5, <1>6, <1>7, <1>8, <1>9
        DEF LimitsNext

-----------------------------------------------------------------------------
(* Presses.                                                                *)
OwnerIsServed(w) ==
  pressed[w] # NoPress /\ ~Unspent(w) =>
    \/ row[w].by = "owner" /\ row[w].limits = pressed[w].limits /\ chosen[w] = pressed[w].limits
    \/ row[w].by \in {"operator", "start"}

PressIsLater(w) ==
  /\ row[w].at <= instant /\ pressed[w].at <= instant
  /\ pressed[w] # NoPress => pressed[w].at > 0
  /\ row[w].by = "connect" => row[w].at = 0
  /\ w \notin overtaken => inHand[w] \in {NoPress, pressed[w]} /\ OwnerIsServed(w)

LEMMA ByAccount == PressesAreLater <=> \A w \in Connected : PressIsLater(w)
BY DEF PressesAreLater, PressIsLater, SpentIsServed, OwnerIsServed, ChangeStatus

(* An account whose row and requests stay as they are, ...                 *)
LEMMA SamePress ==
  ASSUME LimitsTypeOK, LimitsTypeOK', NEW w \in Connected, PressIsLater(w), instant' >= instant,
         row'[w] = row[w], chosen'[w] = chosen[w], pressed'[w] = pressed[w],
         inHand'[w] \in {NoPress, inHand[w], pressed[w]}, overtaken \subseteq overtaken'
  PROVE  PressIsLater(w)'
<1>1. /\ instant \in Int /\ instant' \in Int /\ row[w].at \in Int /\ pressed[w].at \in Int
  BY DEF LimitsTypeOK, RowsOf, Presses
<1>2. OwnerIsServed(w) => OwnerIsServed(w)'
  BY DEF OwnerIsServed, Unspent
<1> QED BY <1>1, <1>2 DEF PressIsLater

(* ... and one whose row the operator or a start has just written.         *)
LEMMA WrittenRow ==
  ASSUME LimitsTypeOK, NEW w \in Connected, PressIsLater(w), instant' = instant,
         NEW l, NEW e \in {"operator", "start"}, row'[w] = Applied(l, e),
         pressed'[w] = pressed[w], inHand'[w] = inHand[w], overtaken' = overtaken
  PROVE  PressIsLater(w)'
<1>1. row'[w].at = instant /\ row'[w].by = e
  BY DEF Applied
<1>2. instant \in Nat
  BY DEF LimitsTypeOK
<1> QED BY <1>1, <1>2 DEF PressIsLater, OwnerIsServed

LEMMA PressesStayLater ==
  ASSUME LimitsTypeOK, PressesAreLater, [LimitsNext]_limitsVars
  PROVE  PressesAreLater'
<1> SUFFICES ASSUME NEW w \in Connected PROVE PressIsLater(w)'
  BY DEF PressesAreLater, PressIsLater, SpentIsServed, OwnerIsServed, ChangeStatus
<1>1. PressIsLater(w) /\ LimitsTypeOK' /\ instant \in Nat
      /\ row[w] \in RowsOf /\ pressed[w] \in Presses /\ inHand[w] \in Presses
  BY ByAccount, LimitsTyped DEF LimitsTypeOK
<1>2. CASE UNCHANGED limitsVars
  BY <1>1, <1>2, SamePress DEF limitsVars
<1>3. ASSUME NEW v \in Connected, OwnerPresses(v) PROVE PressIsLater(w)'
  <2>1. PICK l \in Offers : pressed' = [pressed EXCEPT ![v] = [at |-> instant + 1, limits |-> l]]
    BY <1>3 DEF OwnerPresses
  <2>2. /\ instant' = instant + 1 /\ UNCHANGED <<row, chosen, inHand>>
        /\ overtaken' = IF inHand[v] # NoPress THEN overtaken \cup {v} ELSE overtaken
    BY <1>3 DEF OwnerPresses
  <2>3. CASE w # v
    BY <1>1, <2>1, <2>2, <2>3, SamePress DEF LimitsTypeOK
  <2>4. CASE w = v
    <3>1. pressed'[w].at = instant + 1
      BY <2>1, <2>4 DEF LimitsTypeOK
    <3>2. Unspent(w)' \/ ~(pressed'[w] # NoPress)
      BY <1>1, <2>2, <3>1 DEF Unspent, IsNewer, PressIsLater, RowsOf
    <3>3. w \notin overtaken' => inHand'[w] = NoPress
      BY <2>2, <2>4
    <3> QED BY <1>1, <2>2, <3>1, <3>2, <3>3 DEF PressIsLater, OwnerIsServed, RowsOf
  <2> QED BY <2>3, <2>4
<1>4. ASSUME NEW v \in Connected, OperatorLooks(v) \/ OperatorPins(v) PROVE PressIsLater(w)'
  BY <1>1, <1>4, SamePress DEF OperatorLooks, OperatorPins
<1>5. CASE ExecutorReads
  BY <1>1, <1>5, SamePress DEF ExecutorReads
<1>6. CASE ExecutorServes
  <2>1. /\ row'[w] = ServedRow(w) /\ chosen'[w] = ServedChoice(w) /\ inHand'[w] = NoPress
        /\ UNCHANGED <<instant, pressed, overtaken>>
    BY <1>6 DEF ExecutorServes
  <2>2. CASE ~Serves(w)
    BY <1>1, <2>1, <2>2, SamePress DEF ServedRow, ServedChoice
  <2>3. CASE Serves(w)
    <3>1. row'[w] = Applied(inHand[w].limits, "owner") /\ chosen'[w] = inHand[w].limits /\ inHand[w] # NoPress
      BY <2>1, <2>3 DEF ServedRow, ServedChoice, Serves
    <3>2. row'[w].at = instant /\ row'[w].by = "owner" /\ row'[w].limits = inHand[w].limits
      BY <3>1 DEF Applied
    <3> QED BY <1>1, <2>1, <3>1, <3>2 DEF PressIsLater, OwnerIsServed
  <2> QED BY <2>2, <2>3
<1>7. CASE ExecutorStops
  BY <1>1, <1>7, SamePress DEF ExecutorStops
<1>8. CASE ExecutorStarts
  <2>1. row'[w] = Synced(w) /\ UNCHANGED <<instant, chosen, pressed, inHand, overtaken>>
    BY <1>8 DEF ExecutorStarts
  <2>2. row'[w] = row[w] \/ row'[w] = Applied(LoadSettings(w), "start")
    BY <2>1 DEF Synced
  <2>3. CASE row'[w] = row[w]
    BY <1>1, <2>1, <2>3, SamePress
  <2>4. CASE row'[w] = Applied(LoadSettings(w), "start")
    BY <1>1, <2>1, <2>4, WrittenRow
  <2> QED BY <2>2, <2>3, <2>4
<1>9. CASE OperatorWrites
  <2>1. PICK c \in console : /\ row' = [row EXCEPT ![c.account] = Applied(c.limits, "operator")]
                             /\ chosen' = [chosen EXCEPT ![c.account] = c.limits]
    BY <1>9 DEF OperatorWrites
  <2>2. UNCHANGED <<instant, pressed, inHand, overtaken>>
    BY <1>9 DEF OperatorWrites
  <2>3. CASE w = c.account
    <3>1. row'[w] = Applied(c.limits, "operator")
      BY <2>1, <2>3 DEF LimitsTypeOK
    <3> QED BY <1>1, <2>2, <3>1, WrittenRow
  <2>4. CASE w # c.account
    BY <1>1, <2>1, <2>2, <2>4, SamePress DEF LimitsTypeOK
  <2> QED BY <2>3, <2>4
<1>10. CASE TimePasses
  BY <1>1, <1>10, SamePress DEF TimePasses
<1> QED BY <1>2, <1>3, <1>4, <1>5, <1>6, <1>7, <1>8, <1>9, <1>10 DEF LimitsNext

-----------------------------------------------------------------------------
(* The card.                                                               *)
LEMMA CardsStayRight ==
  ASSUME LimitsTypeOK, CardsAreRight, [LimitsNext]_limitsVars
  PROVE  CardsAreRight'
<1> USE DEF CardsAreRight, Stopped
<1>1. CASE UNCHANGED <<row, traded, inHand>>
  BY <1>1
<1>2. CASE ExecutorReads
  BY <1>2 DEF ExecutorReads, Running
<1>3. CASE ExecutorServes
  <2>1. ~Stopped
    BY <1>3 DEF ExecutorServes
  <2> SUFFICES ASSUME NEW w \in Connected PROVE row'[w].limits = traded'[w] \/ row'[w].by = "operator"
    OBVIOUS
  <2>2. row'[w] = ServedRow(w) /\ traded'[w] = ServedMemory(w)
    BY <1>3 DEF ExecutorServes
  <2> QED BY <2>1, <2>2 DEF ServedRow, ServedMemory, Applied
<1>4. CASE ExecutorStops
  BY <1>4 DEF ExecutorStops
<1>5. CASE ExecutorStarts
  <2> SUFFICES ASSUME NEW w \in Connected PROVE row'[w].limits = traded'[w]
    OBVIOUS
  <2>1. row'[w] = Synced(w) /\ traded'[w] = LoadSettings(w)
    BY <1>5 DEF ExecutorStarts
  <2> QED BY <2>1 DEF Synced, Applied
<1>6. CASE OperatorWrites
  <2>1. PICK c \in console : row' = [row EXCEPT ![c.account] = Applied(c.limits, "operator")]
    BY <1>6 DEF OperatorWrites
  <2>2. \A w \in Connected : row'[w] = row[w] \/ row'[w].by = "operator"
    BY <2>1 DEF LimitsTypeOK, Applied
  <2> QED BY <1>6, <2>2 DEF OperatorWrites
<1>7. ASSUME NEW w \in Connected, OwnerPresses(w) \/ OperatorLooks(w) \/ OperatorPins(w)
      PROVE  UNCHANGED <<row, traded, inHand>>
  BY <1>7 DEF OwnerPresses, OperatorLooks, OperatorPins
<1> QED BY <1>1, <1>2, <1>3, <1>4, <1>5, <1>6, <1>7 DEF LimitsNext, TimePasses, limitsVars

-----------------------------------------------------------------------------
(* The operator's day.                                                     *)
LEMMA SameMoves ==
  ASSUME UNCHANGED moved, NEW d
  PROVE  MovedOn(d)' = MovedOn(d) /\ ChangedOn(d)' = ChangedOn(d) /\ PlainOn(d)' = PlainOn(d)
BY DEF MovedOn, PlainOn, ChangedOn

LEMMA MovesStayFit ==
  ASSUME MovesFit, LimitsTypeOK, [LimitsNext]_limitsVars
  PROVE  MovesFit'
<1>1. CASE UNCHANGED <<console, moved>>
  BY <1>1, SameMoves DEF MovesFit
<1>2. ASSUME NEW w \in Connected, OperatorLooks(w) PROVE MovesFit'
  <2>1. PICK l \in Offers, everyone \in BOOLEAN :
          /\ SettingsScope(w, everyone)
          /\ console' = {[account |-> w, limits |-> l, day |-> Date(instant), everyone |-> everyone,
                          budget |-> Budget]}
    BY <1>2 DEF OperatorLooks
  <2>2. UNCHANGED moved
    BY <1>2 DEF OperatorLooks
  <2>3. PICK c \in console' : /\ c.account = w /\ c.day = Date(instant) /\ c.everyone = everyone
                              /\ c.budget = Budget /\ console' = {c}
    BY <2>1
  <2>4. c.everyone \/ c.account \in ChangedOn(c.day) \/ Cardinality(ChangedOn(c.day)) < c.budget
    BY <2>1, <2>3 DEF SettingsScope
  <2>5. c.account \in Connected /\ c.budget \in 0..(Cardinality(Connected) + 1)
    BY <2>3, BudgetIsBounded
  <2> QED BY <2>2, <2>3, <2>4, <2>5, SameMoves DEF MovesFit
<1>3. CASE OperatorWrites
  <2>0. PICK c \in console :
          \E m : /\ m = [account |-> c.account, day |-> c.day, everyone |-> c.everyone,
                          budget |-> c.budget]
                 /\ moved' = moved \cup {m} /\ console' = {}
    BY <1>3 DEF OperatorWrites
  <2>1. PICK m : /\ m = [account |-> c.account, day |-> c.day, everyone |-> c.everyone,
                          budget |-> c.budget]
                 /\ moved' = moved \cup {m} /\ console' = {}
    BY <2>0
  <2>2. m.account = c.account /\ m.day = c.day /\ m.everyone = c.everyone /\ m.budget = c.budget
    BY <2>1
  <2>3. m.account \in Connected /\ m.budget \in 0..(Cardinality(Connected) + 1)
    BY <2>2 DEF MovesFit
  <2>4. ASSUME NEW d, NEW S \in SUBSET PlainOn(d)', S # {}
        PROVE  \E x \in MovedOn(d)' : x.account \in S /\ x.budget >= Cardinality(S)
    <3>1. MovedOn(d) \subseteq MovedOn(d)'
      BY <2>1 DEF MovedOn
    <3>2. CASE S \subseteq PlainOn(d)
      BY <2>4, <3>1, <3>2 DEF MovesFit
    <3>3. CASE ~(S \subseteq PlainOn(d))
      <4>1. PICK w \in S : w \notin PlainOn(d)
        BY <3>3
      <4>2. w \in PlainOn(d)'
        BY <4>1
      <4>3. \A x \in MovedOn(d) : x.account = w => ~x.everyone
        BY <3>1, <4>2 DEF PlainOn
      <4>4. w \notin ChangedOn(d) /\ w \in ChangedOn(d)'
        BY <4>1, <4>2, <4>3 DEF PlainOn
      <4>5. m.day = d /\ m.account = w
        BY <2>1, <4>4 DEF ChangedOn
      <4>6. m \in MovedOn(d)' /\ ~m.everyone
        BY <2>1, <4>2, <4>5 DEF MovedOn, PlainOn
      <4>7. Cardinality(ChangedOn(d)) < m.budget
        BY <2>2, <4>4, <4>5, <4>6 DEF MovesFit
      <4>8. S \subseteq ChangedOn(d) \cup {w} /\ ChangedOn(d) \subseteq Connected /\ w \in Connected
        BY <2>1, <2>3, <4>5 DEF PlainOn, ChangedOn, MovesFit
      <4>9. IsFiniteSet(ChangedOn(d)) /\ Cardinality(ChangedOn(d)) \in Nat
        BY <4>8, FewAccounts
      <4>10. /\ IsFiniteSet(ChangedOn(d) \cup {w})
             /\ Cardinality(ChangedOn(d) \cup {w}) = Cardinality(ChangedOn(d)) + 1
        BY <4>4, <4>9, FS_AddElement
      <4>11. Cardinality(S) <= Cardinality(ChangedOn(d)) + 1
        BY <4>8, <4>10, FS_Subset
      <4>12. Cardinality(S) \in Nat
        BY <4>8, FewAccounts
      <4>13. m.budget >= Cardinality(S)
        BY <2>3, <4>7, <4>9, <4>11, <4>12
      <4> QED BY <4>1, <4>5, <4>6, <4>13
    <3> QED BY <3>2, <3>3
  <2> QED BY <2>1, <2>3, <2>4 DEF MovesFit
<1>4. ASSUME NEW w \in Connected, OwnerPresses(w) \/ OperatorPins(w) PROVE UNCHANGED <<console, moved>>
  BY <1>4 DEF OwnerPresses, OperatorPins
<1> QED BY <1>1, <1>2, <1>3, <1>4
        DEF LimitsNext, ExecutorReads, ExecutorServes, ExecutorStops, ExecutorStarts, TimePasses, limitsVars

LEMMA ArmIsLeft == MovesFit => ControlArmIsLeft
<1> SUFFICES ASSUME MovesFit, NEW d,
                    NEW plain, NEW passed,
                    passed = {m.account : m \in {m \in MovedOn(d) : m.everyone}},
                    plain = {m \in MovedOn(d) : m.account \notin passed}, plain # {}
             PROVE  Cardinality({m.account : m \in plain}) <= Max({m.budget : m \in plain})
  BY DEF ControlArmIsLeft, MovedOn
<1> DEFINE S == {m.account : m \in plain}
           B == {m.budget : m \in plain}
           most == Cardinality(Connected) + 1
<1>1. S \subseteq PlainOn(d) /\ S # {}
  BY DEF PlainOn, ChangedOn, MovedOn
<1>2. PICK m \in MovedOn(d) : m.account \in S /\ m.budget >= Cardinality(S)
  BY <1>1 DEF MovesFit
<1>3. m \in plain
  BY <1>2
<1>4. \A x \in plain : x.budget \in 0..most
  BY DEF MovesFit, MovedOn
<1>5. Cardinality(Connected) \in Nat
  BY ConnectedAssumption, FS_CardinalityType
<1>6. B \in SUBSET Int /\ B # {} /\ most \in Int /\ \A x \in B : x <= most
  BY <1>3, <1>4, <1>5
<1>7. S \subseteq Connected
  BY DEF MovesFit, MovedOn
<1>8. Cardinality(S) \in Nat
  BY <1>7, FewAccounts
<1> HIDE DEF B, most, S
<1>9. Max(B) \in B /\ \A y \in B : Max(B) >= y
  BY <1>6, MaxOfBounded
<1>10. m.budget \in B
  BY <1>3 DEF B
<1>11. Max(B) \in Int /\ m.budget \in Int /\ Max(B) >= m.budget
  BY <1>6, <1>9, <1>10
<1>12. Cardinality(S) <= Max(B)
  BY <1>2, <1>8, <1>11
<1> QED BY <1>12 DEF S, B

(* A press is served or overwritten by something later, the card shows     *)
(* what is traded, and the accounts an operator moves in a day without the *)
(* word that passes it keep within the day's budget.                       *)
THEOREM LimitsAsAsked == LimitsSpec => []LimitsAreAsAsked
<1>1. LimitsInv /\ [LimitsNext]_limitsVars => LimitsInv'
  BY LimitsTyped, PressesStayLater, CardsStayRight, MovesStayFit DEF LimitsInv
<1>2. LimitsInv => LimitsAreAsAsked
  <2> SUFFICES ASSUME LimitsInv PROVE LimitsAreAsAsked
    OBVIOUS
  <2>1. CardIsWhatIsTraded
    BY DEF LimitsInv, CardsAreRight, Stopped, CardIsWhatIsTraded, Running
  <2> QED BY <2>1, ArmIsLeft DEF LimitsInv, LimitsAreAsAsked, PressesAreLater
<1> QED BY <1>1, <1>2, LimitsInitially, PTL DEF LimitsSpec


-----------------------------------------------------------------------------
(* The served desk.  A build that is under way knows the intents of every  *)
(* market that did not move since it read them, and while no press slipped *)
(* under one, builds and payload have seen all of them.                    *)
IsBuild(b) == b = [n |-> b.n, linked |-> b.linked, mode |-> b.mode, halted |-> b.halted, halt |-> b.halt,
                   waits |-> b.waits, presses |-> b.presses, intents |-> b.intents, touched |-> b.touched]

MarketsMove ==
  /\ intent = [c \in Markets |-> intent[c]]
  /\ linked \in BOOLEAN /\ mode \in {"live", "paper"} /\ position \subseteq Markets
  /\ linked => \A c \in position : intent[c] # "none"
  /\ ~linked => \A c \in Markets : intent[c] = "none"

Remembers(b) ==
  /\ IsBuild(b) /\ b.linked = TRUE /\ b.mode = mode
  /\ ~slipped => b.presses = presses
  /\ \A c \in Markets \ b.touched : linked /\ (c \in b.intents <=> intent[c] # "none")

BuildsRemember == \A b \in builds : Remembers(b)

TellsTheTruth(p) ==
  \A c \in Markets \ p.touched :
    /\ c \in p.foreign => c \in p.truth
    /\ c \in p.truth /\ p.linked => c \in p.foreign \cup p.positions

KeptIsTrue ==
  \A p \in kept :
    /\ ~slipped => p.presses = presses
    /\ TellsTheTruth(p)

ServedInv == MarketsMove /\ BuildsRemember /\ KeptIsTrue

(* What moves a market's intent marks it in the builds under way.          *)
LEMMA TouchedBuildsRemember ==
  ASSUME BuildsRemember, NEW T,
         \A a \in builds' :
           \E b \in builds : \E u : /\ a = [b EXCEPT !.touched = u]
                                     /\ Markets \ u \subseteq Markets \ (b.touched \cup T),
         UNCHANGED <<mode, presses, slipped>>,
         \A c \in Markets \ T : linked' = linked /\ intent'[c] = intent[c]
  PROVE  BuildsRemember'
<1> SUFFICES ASSUME NEW a \in builds' PROVE Remembers(a)'
  BY DEF BuildsRemember
<1>0. PICK b \in builds : \E u : /\ a = [b EXCEPT !.touched = u]
                                 /\ Markets \ u \subseteq Markets \ (b.touched \cup T)
  OBVIOUS
<1>1. PICK u : a = [b EXCEPT !.touched = u] /\ Markets \ u \subseteq Markets \ (b.touched \cup T)
  BY <1>0
<1>2. Remembers(b)
  BY DEF BuildsRemember
<1>3. IsBuild(a) /\ a.linked = b.linked /\ a.mode = b.mode /\ a.presses = b.presses
      /\ a.intents = b.intents /\ a.touched = u
  BY <1>1, <1>2 DEF Remembers, IsBuild
<1> QED BY <1>1, <1>2, <1>3 DEF Remembers, IsBuild

LEMMA MovesKeepServed ==
  ASSUME ServedInv, NEW c \in Markets,
         IntentIsWritten(c) \/ OrderFills(c) \/ FillIsRecorded(c) \/ PositionCloses(c)
           \/ CloseIsRecorded(c) \/ OthersTrade(c)
  PROVE  ServedInv'
<1>1. UNCHANGED <<linked, mode, presses, slipped, kept>> /\ Touched(c)
  BY DEF IntentIsWritten, OrderFills, FillIsRecorded, PositionCloses, CloseIsRecorded, OthersTrade, Books, Rest
<1>2. \A d \in Markets \ {c} : intent'[d] = intent[d]
  BY DEF IntentIsWritten, OrderFills, FillIsRecorded, PositionCloses, CloseIsRecorded, OthersTrade, Books,
         ServedInv, MarketsMove
<1>3. BuildsRemember'
  <2>1. builds' = {[b EXCEPT !.touched = b.touched \cup {c}] : b \in builds}
    BY <1>1 DEF Touched
  <2>2. \A a \in builds' :
          \E b \in builds : \E u : /\ a = [b EXCEPT !.touched = u]
                                    /\ Markets \ u \subseteq Markets \ (b.touched \cup {c})
    BY <2>1
  <2> QED BY <1>1, <1>2, <2>2, TouchedBuildsRemember DEF ServedInv
<1>4. KeptIsTrue'
  BY <1>1 DEF ServedInv, KeptIsTrue
<1>5. MarketsMove'
  BY <1>1 DEF IntentIsWritten, OrderFills, FillIsRecorded, PositionCloses, CloseIsRecorded, OthersTrade, Books,
              ServedInv, MarketsMove
<1> QED BY <1>3, <1>4, <1>5 DEF ServedInv

(* A payload is made of what the build read and the venue answers.         *)
LEMMA PayloadsAreTrue ==
  ASSUME MarketsMove, NEW b, b.linked \in BOOLEAN, b.mode = mode,
         b.linked => \A c \in Markets \ b.touched : linked /\ (c \in b.intents <=> intent[c] # "none"),
         NEW p, p = Payload(b)
  PROVE  /\ p.presses = b.presses
         /\ TellsTheTruth(p)
<1>1. CASE ~b.linked
  BY <1>1 DEF Payload, BaseOf, TellsTheTruth
<1>2. CASE b.linked
  <2>1. /\ p.presses = b.presses /\ p.touched = b.touched /\ p.positions = b.intents
        /\ p.foreign = Foreign(b, AtVenue) /\ p.truth = Strangers
    BY <1>2 DEF Payload, BaseOf
  <2> QED BY <1>2, <2>1 DEF Foreign, AtVenue, Strangers, MarketsMove, TellsTheTruth
<1> QED BY <1>1, <1>2

LEMMA ServedStepsKeep == ASSUME ServedInv, [ServedNext]_servedVars PROVE ServedInv'
<1> USE DEF ServedInv
<1>1. CASE UNCHANGED servedVars
  BY <1>1 DEF servedVars, MarketsMove, BuildsRemember, Remembers, KeptIsTrue
<1>2. ASSUME NEW k, PressIsServed(k) PROVE ServedInv'
  BY <1>2 DEF PressIsServed, Rest, MarketsMove, BuildsRemember, Remembers, KeptIsTrue
<1>3. CASE AccountIsUnlinked
  <2>1. BuildsRemember'
    <3>1. builds' = {[b EXCEPT !.touched = Markets] : b \in builds}
      BY <1>3 DEF AccountIsUnlinked
    <3>2. \A a \in builds' :
            \E b \in builds : \E u : /\ a = [b EXCEPT !.touched = u]
                                /\ Markets \ u \subseteq Markets \ (b.touched \cup Markets)
      BY <3>1
    <3>3. UNCHANGED <<mode, presses, slipped>>
      BY <1>3 DEF AccountIsUnlinked, Rest
    <3> QED BY <3>2, <3>3, TouchedBuildsRemember
  <2> QED BY <1>3, <2>1 DEF AccountIsUnlinked, Rest, MarketsMove, KeptIsTrue
<1>4. ASSUME NEW k, OwnerPushes(k) PROVE ServedInv'
  <2>1. kept' = {} /\ UNCHANGED <<linked, mode, intent, position, builds>>
    BY <1>4 DEF OwnerPushes, KeptAfterPress
  <2>2. BuildsRemember'
    <3>1. ~slipped' => builds' = {}
      BY <1>4, <2>1 DEF OwnerPushes
    <3> QED BY <2>1, <3>1 DEF BuildsRemember, Remembers
  <2> QED BY <2>1, <2>2 DEF MarketsMove, KeptIsTrue
<1>5. CASE BuildBegins
  <2>1. UNCHANGED accountVars
    BY <1>5 DEF BuildBegins
  <2>2. UNCHANGED <<linked, mode, intent, position, presses, slipped>>
    BY <2>1 DEF accountVars
  <2>3. CASE linked
    <3>1. builds' = builds \cup {LedgerHalf} /\ UNCHANGED kept
      BY <1>5, <2>3 DEF BuildBegins
    <3>2. Remembers(LedgerHalf)
      BY <2>3 DEF LedgerHalf, LiveIntents, Remembers, IsBuild
    <3>3. \A b \in builds' : Remembers(b)
      BY <3>1, <3>2 DEF BuildsRemember
    <3> QED BY <2>2, <3>1, <3>3 DEF MarketsMove, BuildsRemember, Remembers, KeptIsTrue
  <2>4. CASE ~linked
    <3> DEFINE half == LedgerHalf
    <3>1. kept' = {Payload(half)} /\ UNCHANGED builds
      BY <1>5, <2>4 DEF BuildBegins
    <3>2. half.linked = linked /\ half.mode = mode /\ half.presses = presses
      BY DEF LedgerHalf
    <3> HIDE DEF half
    <3>3. half.linked \in BOOLEAN /\ ~half.linked
      BY <2>4, <3>2 DEF MarketsMove
    <3>4. PICK p : p = Payload(half)
      OBVIOUS
    <3>5. KeptIsTrue'
      BY <2>2, <3>1, <3>2, <3>3, <3>4, PayloadsAreTrue DEF KeptIsTrue
    <3> QED BY <2>2, <3>1, <3>5 DEF MarketsMove, BuildsRemember, Remembers
  <2> QED BY <2>3, <2>4
<1>6. CASE BuildEnds
  <2>1. PICK b \in builds : builds' = builds \ {b} /\ kept' = {Payload(b)} /\ UNCHANGED accountVars
    BY <1>6 DEF BuildEnds
  <2>2. UNCHANGED <<linked, mode, intent, position, presses, slipped>>
    BY <2>1 DEF accountVars
  <2>3. Remembers(b)
    BY DEF BuildsRemember
  <2>4. PICK p : p = Payload(b)
    OBVIOUS
  <2>5. /\ p.presses = b.presses
        /\ TellsTheTruth(p)
    <3>1. b.linked \in BOOLEAN /\ b.mode = mode
          /\ \A c \in Markets \ b.touched : linked /\ (c \in b.intents <=> intent[c] # "none")
      BY <2>3 DEF Remembers
    <3> QED BY <2>4, <3>1, PayloadsAreTrue
  <2>6. KeptIsTrue'
    BY <2>1, <2>2, <2>3, <2>4, <2>5 DEF Remembers, KeptIsTrue
  <2> QED BY <2>1, <2>2, <2>6 DEF MarketsMove, BuildsRemember, Remembers
<1>7. CASE BuildFails \/ SecondPasses
  <2>1. UNCHANGED <<linked, mode, intent, position, presses, slipped, kept>> /\ builds' \subseteq builds
    BY <1>7 DEF BuildFails, SecondPasses, accountVars
  <2> QED BY <2>1 DEF MarketsMove, BuildsRemember, Remembers, KeptIsTrue
<1> QED BY <1>1, <1>2, <1>3, <1>4, <1>5, <1>6, <1>7, MovesKeepServed DEF ServedNext

(* A served desk is true whatever moved while it was built: a press shows  *)
(* unless a build was under way, and who is named a stranger is one there  *)
(* (web/desk.ts, buildDesk; web/server.ts, deskCache).                     *)
THEOREM DeskIsServedTrue == ServedSpec => []ServedIsTrue
<1>1. ServedInit => ServedInv
  BY DEF ServedInit, ServedInv, MarketsMove, BuildsRemember, KeptIsTrue
<1>2. ServedInv /\ [ServedNext]_servedVars => ServedInv'
  BY ServedStepsKeep
<1>3. ServedInv => ServedIsTrue
  BY DEF ServedInv, KeptIsTrue, TellsTheTruth, ServedIsTrue, PressIsShown, StrangersAreSaid
<1> QED BY <1>1, <1>2, <1>3, PTL DEF ServedSpec

-----------------------------------------------------------------------------
(* The signed-in tab.  While the server has answered every call for the    *)
(* account it was made for, the tab's copies are of who they are kept for. *)
IsCall(c) == c = [kind |-> c.kind, n |-> c.n, who |-> c.who, cursor |-> c.cursor, answered |-> c.answered,
                  of |-> c.of, page |-> c.page, had |-> c.had]

OwnCopies ==
  ~crossed => /\ \A c \in outstanding : c.of \in {NoReader, c.who}
              /\ cached.of \in {NoReader, cached.for} /\ chart.of \in {NoReader, chart.for}

ScreenInv == (\A c \in outstanding : IsCall(c)) /\ OwnCopies /\ DeskIsTheReaders

LEMMA NewCallsAreCalls ==
  ASSUME NEW kind, NEW n, NEW who, NEW cursor, NEW c, c = Call(kind, n, who, cursor)
  PROVE  IsCall(c) /\ c.of = NoReader /\ c.who = who /\ c.kind = kind
BY DEF Call, IsCall

(* A desk read again, or for the first time, leaves nothing of a reader's  *)
(* behind that is not replaced.                                            *)
LEMMA LoadsKeepScreen ==
  ASSUME ScreenInv, NEW w, w = me', LoadDesk(w), UNCHANGED <<cached, crossed>>
  PROVE  ScreenInv'
<1>1. PICK out : /\ outstanding' = outstanding \cup out
                 /\ \A c \in out : IsCall(c) /\ c.of = NoReader /\ c.who = w
                 /\ ~(Warm(w) /\ HasTheChart(w)) => \E c \in out : c.kind = "chart"
  <2> DEFINE forChart == Call("chart", made + 1, w, Start)
             forDesk == Call("desk", made + 2, w, Start)
             one == IF ~(Warm(w) /\ HasTheChart(w)) THEN {forChart} ELSE {}
             two == IF ~SharesTheCall(w) THEN {forDesk} ELSE {}
  <2>1. outstanding' = outstanding \cup (one \cup two)
    BY DEF LoadDesk
  <2>2. /\ IsCall(forChart) /\ forChart.of = NoReader /\ forChart.who = w /\ forChart.kind = "chart"
        /\ IsCall(forDesk) /\ forDesk.of = NoReader /\ forDesk.who = w
    BY NewCallsAreCalls
  <2> HIDE DEF forChart, forDesk
  <2>3. \A c \in one \cup two : IsCall(c) /\ c.of = NoReader /\ c.who = w
    BY <2>2
  <2>4. ~(Warm(w) /\ HasTheChart(w)) => \E c \in one \cup two : c.kind = "chart"
    BY <2>2
  <2> HIDE DEF one, two
  <2> QED BY <2>1, <2>3, <2>4
<1>2. /\ desk' = IF Warm(w) THEN cached.of ELSE NoReader
      /\ chart' = IF Warm(w) THEN chart ELSE NoCache
  BY DEF LoadDesk
<1>3. NoCache.of = NoReader
  BY DEF NoCache
<1>4. (\A c \in outstanding : IsCall(c))' /\ OwnCopies'
  BY <1>1, <1>2, <1>3 DEF ScreenInv, OwnCopies, IsCall
<1>5. DeskIsTheReaders'
  <2> SUFFICES ASSUME ~crossed PROVE /\ desk' \in {NoReader, w}
                                     /\ chart'.of \in {NoReader, w} \/ ChartIsAsked'
    BY DEF DeskIsTheReaders
  <2>1. cached.of \in {NoReader, cached.for} /\ chart.of \in {NoReader, chart.for}
    BY DEF ScreenInv, OwnCopies
  <2>2. desk' \in {NoReader, w}
    BY <1>2, <2>1 DEF Warm
  <2>3. CASE Warm(w) /\ HasTheChart(w)
    BY <1>2, <2>1, <2>2, <2>3 DEF HasTheChart
  <2>4. CASE ~(Warm(w) /\ HasTheChart(w))
    BY <1>1, <2>2, <2>4 DEF ChartIsAsked
  <2> QED BY <2>3, <2>4
<1> QED BY <1>4, <1>5 DEF ScreenInv

(* A call made for a list.                                                 *)
LEMMA ListCallsKeepScreen ==
  ASSUME ScreenInv, NEW kind, NEW n, NEW cursor, outstanding' = outstanding \cup {Call(kind, n, me, cursor)},
         UNCHANGED <<me, cached, desk, chart, crossed>>
  PROVE  ScreenInv'
<1> DEFINE call == Call(kind, n, me, cursor)
<1>1. IsCall(call) /\ call.of = NoReader
  BY NewCallsAreCalls
<1> HIDE DEF call
<1>2. outstanding' = outstanding \cup {call}
  BY DEF call
<1> QED BY <1>1, <1>2 DEF ScreenInv, OwnCopies, DeskIsTheReaders, ChartIsAsked, IsCall

LEMMA ScreenStepsKeep == ASSUME ScreenInv, [ScreenNext]_screenVars PROVE ScreenInv'
<1>1. CASE TradeCloses \/ SessionEnds \/ AnotherTabSignsIn \/ SignatureIsVerified \/ UNCHANGED screenVars
  BY <1>1 DEF TradeCloses, SessionEnds, AnotherTabSignsIn, SignatureIsVerified, screenVars, listVars,
              ScreenInv, OwnCopies, DeskIsTheReaders, ChartIsAsked, IsCall
<1>2. CASE ServerAnswers
  <2>0. PICK c \in outstanding :
          /\ \E page : \E had :
               outstanding' = (outstanding \ {c}) \cup {[c EXCEPT !.answered = TRUE, !.of = cookie,
                                                                 !.page = page, !.had = had]}
          /\ crossed' = (crossed \/ cookie \notin {NoReader, c.who})
    BY <1>2 DEF ServerAnswers
  <2>1. PICK told : /\ \E page : \E had : told = [c EXCEPT !.answered = TRUE, !.of = cookie,
                                                         !.page = page, !.had = had]
                    /\ outstanding' = (outstanding \ {c}) \cup {told}
    BY <2>0
  <2>2. IsCall(told) /\ told.who = c.who /\ told.kind = c.kind /\ told.of = cookie
    <3>1. IsCall(c)
      BY DEF ScreenInv
    <3> QED BY <2>1, <3>1 DEF IsCall
  <2>3. crossed' = (crossed \/ cookie \notin {NoReader, c.who})
    BY <2>0
  <2>4. /\ UNCHANGED <<me, cached, desk, chart>>
        /\ ~crossed' => ~crossed /\ cookie \in {NoReader, c.who}
    BY <1>2, <2>3 DEF ServerAnswers
  <2>5. ChartIsAsked => ChartIsAsked'
    <3> SUFFICES ASSUME NEW d \in outstanding, d.kind = "chart", d.who = me
                 PROVE  \E e \in outstanding' : e.kind = "chart" /\ e.who = me
      BY <2>4 DEF ChartIsAsked
    <3> QED BY <2>1, <2>2
  <2> QED BY <2>1, <2>2, <2>4, <2>5 DEF ScreenInv, OwnCopies, DeskIsTheReaders, IsCall
<1>3. CASE ReaderLands
  BY <1>3, LoadsKeepScreen DEF ReaderLands, serverVars
<1>4. CASE DeskIsOpened
  BY <1>4, LoadsKeepScreen DEF DeskIsOpened, serverVars
<1>5. CASE SignsOut
  BY <1>5 DEF SignsOut, NoCache, ScreenInv, OwnCopies, DeskIsTheReaders, ChartIsAsked, IsCall
<1>6. CASE SignalsAreAsked \/ FirstPageIsAsked \/ NextPageIsAsked
  BY <1>6, ListCallsKeepScreen DEF SignalsAreAsked, FirstPageIsAsked, NextPageIsAsked, serverVars
<1>7. CASE DeskArrives
  <2>1. PICK c \in outstanding :
          /\ c.kind = "desk" /\ outstanding' = outstanding \ {c}
          /\ cached' = IF StillTheirs(c) THEN [of |-> c.of, for |-> me] ELSE cached
          /\ desk' = IF StillTheirs(c) THEN c.of ELSE desk
    BY <1>7 DEF DeskArrives
  <2>2. UNCHANGED <<crossed, me, chart>>
    BY <1>7 DEF DeskArrives, serverVars
  <2>3. ChartIsAsked => ChartIsAsked'
    BY <2>1, <2>2 DEF ChartIsAsked
  <2> QED BY <2>1, <2>2, <2>3 DEF StillTheirs, ScreenInv, OwnCopies, DeskIsTheReaders, IsCall
<1>8. CASE ChartArrives
  <2>1. PICK c \in outstanding :
          /\ c.kind = "chart" /\ outstanding' = outstanding \ {c}
          /\ chart' = IF me = c.who THEN [of |-> c.of, for |-> c.who] ELSE chart
    BY <1>8 DEF ChartArrives
  <2>2. UNCHANGED <<crossed, me, cached, desk>>
    BY <1>8 DEF ChartArrives, serverVars
  <2>3. ChartIsAsked /\ me # c.who => ChartIsAsked'
    BY <2>1, <2>2 DEF ChartIsAsked
  <2> QED BY <2>1, <2>2, <2>3 DEF ScreenInv, OwnCopies, DeskIsTheReaders, IsCall
<1>9. CASE SignalsArrive \/ PageArrives
  <2>1. PICK c \in outstanding : c.kind # "chart" /\ outstanding' = outstanding \ {c}
    BY <1>9 DEF SignalsArrive, PageArrives, Listing
  <2>2. UNCHANGED <<crossed, me, cached, desk, chart>>
    BY <1>9 DEF SignalsArrive, PageArrives, serverVars
  <2> QED BY <2>1, <2>2 DEF ScreenInv, OwnCopies, DeskIsTheReaders, ChartIsAsked, IsCall
<1>10. CASE RefusalArrives \/ CallFails
  <2>1. PICK c \in outstanding : /\ outstanding' = outstanding \ {c}
                                 /\ me' \in {me, NoReader}
                                 /\ chart' = IF c.kind = "chart" THEN NoCache ELSE chart
    BY <1>10 DEF RefusalArrives, CallFails
  <2>2. UNCHANGED <<crossed, cached, desk>> /\ NoCache.of = NoReader
    BY <1>10 DEF RefusalArrives, CallFails, serverVars, NoCache
  <2>3. ChartIsAsked /\ c.kind # "chart" /\ me' = me => ChartIsAsked'
    BY <2>1 DEF ChartIsAsked
  <2> QED BY <2>1, <2>2, <2>3 DEF ScreenInv, OwnCopies, DeskIsTheReaders, IsCall
<1> QED BY <1>1, <1>2, <1>3, <1>4, <1>5, <1>6, <1>7, <1>8, <1>9, <1>10 DEF ScreenNext

LEMMA ScreenInitially == ScreenInit => ScreenInv
<1> SUFFICES ASSUME ScreenInit PROVE ScreenInv
  OBVIOUS
<1>1. outstanding = {} /\ desk \in {NoReader, me} /\ cached.of \in {NoReader, cached.for}
      /\ chart.of \in {NoReader, me} /\ chart.of \in {NoReader, chart.for}
  <2>1. outstanding = {}
    BY DEF ScreenInit, Quiescent
  <2>2. CASE FreshTab
    BY <2>1, <2>2 DEF FreshTab, NoCache
  <2>3. ASSUME NEW w, SettledTab(w) PROVE /\ desk \in {NoReader, me} /\ cached.of \in {NoReader, cached.for}
                                         /\ chart.of \in {NoReader, me} /\ chart.of \in {NoReader, chart.for}
    BY <2>3 DEF SettledTab
  <2> QED BY <2>1, <2>2, <2>3 DEF ScreenInit
<1> QED BY <1>1 DEF ScreenInv, OwnCopies, DeskIsTheReaders

(* A reader is shown their own money, however many calls are out and in    *)
(* whatever order sessions end and answers come back, as long as no call   *)
(* is answered for the account of a later session (design/src/desk.ts).    *)
THEOREM ReadersSeeTheirOwn == ScreenSpec => []DeskIsTheReaders
<1>1. ScreenInit => ScreenInv
  BY ScreenInitially
<1>2. ScreenInv /\ [ScreenNext]_screenVars => ScreenInv'
  BY ScreenStepsKeep
<1>3. ScreenInv => DeskIsTheReaders
  BY DEF ScreenInv
<1> QED BY <1>1, <1>2, <1>3, PTL DEF ScreenSpec

-----------------------------------------------------------------------------
(* The pages of closed trades.  Rows that are the newest of some trades,   *)
(* newest first.                                                           *)
ClosedTrades == (Nat \ {0}) \X Nat
Descends(rows) == \A i, j \in DOMAIN rows : i < j => Later(rows[i], rows[j])
Shows(rows, t) == \E i \in DOMAIN rows : rows[i] = t
(* Of some trades, those not shown yet are behind the cursor.              *)
Reaches(rows, cursor, S) == \A t \in S : Shows(rows, t) \/ (cursor # Start /\ Earlier(t, cursor))
EndsAt(rows, cursor) == cursor = Start \/ (Len(rows) > 0 /\ cursor = rows[Len(rows)])
IsHistory(rows, cursor) ==
  rows \in Seq(ClosedTrades) /\ Descends(rows) /\ EndsAt(rows, cursor)

LEMMA TradesAreOrdered ==
  ASSUME NEW a \in ClosedTrades, NEW b \in ClosedTrades
  PROVE  a = b \/ Later(a, b) \/ Later(b, a)
BY DEF ClosedTrades, Later, Earlier

LEMMA LaterIsTransitive ==
  ASSUME NEW a \in ClosedTrades, NEW b \in ClosedTrades, NEW c \in ClosedTrades, Later(a, b), Later(b, c)
  PROVE  Later(a, c)
BY DEF ClosedTrades, Later, Earlier

LEMMA LaterIsStrict ==
  ASSUME NEW a \in ClosedTrades
  PROVE  ~Later(a, a) /\ a # Start
BY DEF ClosedTrades, Later, Earlier, Start

(* Trades there are only so many of have a newest, and can be put in order. *)
LEMMA SomeTradeIsNewest ==
  ASSUME NEW S \in SUBSET ClosedTrades, IsFiniteSet(S), S # {}
  PROVE  \E x \in S : \A y \in S : y = x \/ Later(x, y)
<1> DEFINE Has(U) == U = {} \/ \E x \in U : \A y \in U : y = x \/ Later(x, y)
           Bad == {n \in Nat : \E U \in SUBSET S : Cardinality(U) = n /\ ~Has(U)}
<1>1. \A U \in SUBSET S : IsFiniteSet(U) /\ Cardinality(U) \in Nat
  BY FS_Subset, FS_CardinalityType
<1>2. ASSUME Bad # {} PROVE FALSE
  <2>1. PICK n \in Bad : \A m \in Bad : n <= m
    <3>1. Bad \in SUBSET Nat
      OBVIOUS
    <3> HIDE DEF Bad
    <3> QED BY <1>2, <3>1, LeastNatural
  <2>2. PICK U \in SUBSET S : Cardinality(U) = n /\ ~Has(U)
    BY <2>1
  <2>3. U # {}
    BY <2>2
  <2> DEFINE x == AnyOf(U)
             r == U \ {x}
  <2>4. x \in U /\ Cardinality(r) \in Nat /\ Cardinality(r) < n
    BY <1>1, <2>2, <2>3, AnyIsOne
  <2>5. r \in SUBSET S /\ U = r \cup {x} /\ x \in ClosedTrades /\ U \subseteq ClosedTrades
    BY <2>2, <2>4
  <2> HIDE DEF x, r
  <2>6. Has(r)
    <3>1. Cardinality(r) \notin Bad
      BY <2>1, <2>4
    <3> QED BY <2>4, <2>5, <3>1
  <2>7. CASE r = {}
    BY <2>2, <2>5, <2>7
  <2>8. CASE r # {}
    <3>1. PICK y \in r : \A z \in r : z = y \/ Later(y, z)
      BY <2>6, <2>8
    <3>2. y \in ClosedTrades /\ r \subseteq ClosedTrades
      BY <2>5
    <3>3. x = y \/ Later(x, y) \/ Later(y, x)
      BY <2>5, <3>2, TradesAreOrdered
    <3>4. CASE Later(x, y)
      <4>1. \A z \in r : Later(x, z)
        BY <2>5, <3>1, <3>2, <3>4, LaterIsTransitive
      <4> QED BY <2>2, <2>5, <4>1
    <3>5. CASE x = y \/ Later(y, x)
      BY <2>2, <2>5, <3>1, <3>5
    <3> QED BY <3>3, <3>4, <3>5
  <2> QED BY <2>7, <2>8
<1>3. Cardinality(S) \notin Bad
  BY <1>2
<1> QED BY <1>1, <1>3

LEMMA TradesCanBeOrdered ==
  ASSUME NEW S \in SUBSET ClosedTrades, IsFiniteSet(S)
  PROVE  \E s \in [1..Cardinality(S) -> S] : Descends(s)
<1> DEFINE Has(U) == \E s \in [1..Cardinality(U) -> U] : Descends(s)
           Bad == {n \in Nat : \E U \in SUBSET S : Cardinality(U) = n /\ ~Has(U)}
<1>1. \A U \in SUBSET S : IsFiniteSet(U) /\ Cardinality(U) \in Nat
  BY FS_Subset, FS_CardinalityType
<1>2. ASSUME Bad # {} PROVE FALSE
  <2>1. PICK n \in Bad : \A m \in Bad : n <= m
    <3>1. Bad \in SUBSET Nat
      OBVIOUS
    <3> HIDE DEF Bad
    <3> QED BY <1>2, <3>1, LeastNatural
  <2>2. PICK U \in SUBSET S : Cardinality(U) = n /\ ~Has(U)
    BY <2>1
  <2>3. U # {}
    <3>1. CASE U = {}
      <4>1. Cardinality(U) = 0 /\ 1..Cardinality(U) = {}
        BY <3>1, FS_EmptySet
      <4>2. [i \in {} |-> i] \in [1..Cardinality(U) -> U] /\ Descends([i \in {} |-> i])
        BY <4>1 DEF Descends
      <4> QED BY <2>2, <4>2
    <3> QED BY <3>1
  <2>4. PICK x \in U : \A y \in U : y = x \/ Later(x, y)
    BY <1>1, <2>2, <2>3, SomeTradeIsNewest
  <2> DEFINE r == U \ {x}
             k == Cardinality(r)
  <2>5. k \in Nat /\ n \in Nat /\ n = k + 1
    <3>1. IsFiniteSet(U) /\ Cardinality(U) = n /\ Cardinality(r) = n - 1 /\ IsFiniteSet(r)
      BY <1>1, <2>2, <2>4, FS_RemoveElement
    <3> QED BY <1>1, <2>2, <3>1, FS_CardinalityType
  <2>6. r \in SUBSET S /\ U = r \cup {x} /\ x \notin r
    BY <2>2, <2>4
  <2>7. Has(r)
    <3>1. k \notin Bad
      <4>1. k \in Bad => n <= k
        BY <2>1
      <4>2. ~(n <= k)
        <5> HIDE DEF k, Bad
        <5> QED BY <2>5
      <4> QED BY <4>1, <4>2
    <3> QED BY <2>5, <2>6, <3>1
  <2>8. PICK s \in [1..k -> r] : Descends(s)
    BY <2>7
  <2> HIDE DEF r, k
  <2> DEFINE q == [i \in 1..n |-> IF i = 1 THEN x ELSE s[i - 1]]
  <2>9. \A i \in 1..n : i # 1 => i - 1 \in 1..k
    BY <2>5
  <2>10. q \in [1..n -> U]
    BY <2>6, <2>8, <2>9
  <2>11. ASSUME NEW i \in 1..n, NEW j \in 1..n, i < j PROVE Later(q[i], q[j])
    <3>1. j # 1 /\ j - 1 \in 1..k /\ q[j] = s[j - 1] /\ q[j] \in r
      BY <2>8, <2>9, <2>11
    <3>2. CASE i = 1
      BY <2>4, <2>6, <3>1, <3>2
    <3>3. CASE i # 1
      <4>1. i - 1 \in 1..k /\ q[i] = s[i - 1] /\ i - 1 < j - 1
        BY <2>9, <2>11, <3>3
      <4> QED BY <2>8, <3>1, <4>1 DEF Descends
    <3> QED BY <3>2, <3>3
  <2>12. Descends(q)
    BY <2>11 DEF Descends
  <2> HIDE DEF q
  <2> QED BY <2>2, <2>10, <2>12
<1>3. Cardinality(S) \notin Bad
  BY <1>2
<1> QED BY <1>1, <1>3

LEMMA NewestFirstIs ==
  ASSUME NEW S \in SUBSET ClosedTrades, IsFiniteSet(S), NEW s, s = NewestFirst(S)
  PROVE  s \in Seq(S) /\ Len(s) \in Nat /\ Descends(s) /\ \A t \in S : Shows(s, t)
<1> DEFINE n == Cardinality(S)
<1>1. n \in Nat
  BY FS_CardinalityType
<1>2. s \in [1..n -> S] /\ Descends(s)
  BY TradesCanBeOrdered DEF NewestFirst, Descends
<1>3. s \in Seq(S) /\ Len(s) = n
  <2> HIDE DEF n
  <2> QED BY <1>1, <1>2
<1>4. s \in Injection(1..n, S)
  <2>0. ASSUME NEW i \in 1..n, NEW j \in 1..n, s[i] = s[j] PROVE i = j
    <3>1. s[i] \in ClosedTrades /\ DOMAIN s = 1..n
      BY <1>2
    <3>2. ~(i < j) /\ ~(j < i)
      BY <1>2, <2>0, <3>1, LaterIsStrict DEF Descends
    <3> HIDE DEF n
    <3> QED BY <2>0, <3>2
  <2> HIDE DEF n
  <2> QED BY <1>2, <2>0 DEF Injection, IsInjective
<1>5. s \in Surjection(1..n, S)
  <2>1. Cardinality(1..n) = n
    BY <1>1, FS_Interval
  <2> QED BY <1>4, <2>1, FS_Injection
<1>6. \A t \in S : \E i \in 1..n : s[i] = t
  BY <1>5 DEF Surjection
<1>7. \A t \in S : Shows(s, t)
  BY <1>2, <1>6 DEF Shows
<1> QED BY <1>1, <1>2, <1>3, <1>7

-----------------------------------------------------------------------------
(* A page read: newest first, behind the cursor, and of what is behind the *)
(* cursor nothing newer than its own end is left out.                      *)
LEMMA PageIsRight ==
  ASSUME NEW w \in Readers, NEW cursor, closed[w] \in SUBSET ClosedTrades, IsFiniteSet(closed[w]),
         NEW page, page = TradeHistory(w, cursor)
  PROVE  /\ IsHistory(page.rows, page.next)
         /\ \A i \in DOMAIN page.rows : Past(page.rows[i], cursor)
         /\ Reaches(page.rows, page.next, {t \in closed[w] : Past(t, cursor)})
<1> DEFINE S == {t \in closed[w] : Past(t, cursor)}
           all == NewestFirst(S)
           n == Len(all)
           part == ClosedTradesPage(w, cursor)
           rows == page.rows
<1>1. S \in SUBSET ClosedTrades /\ IsFiniteSet(S) /\ \A t \in S : Past(t, cursor)
  <2>1. S \in SUBSET ClosedTrades /\ S \subseteq closed[w]
    OBVIOUS
  <2>2. IsFiniteSet(S)
    BY <2>1, FS_Subset
  <2> QED BY <2>1, <2>2
<1>2. part = SubSeq(all, 1, IF n > PageSize THEN PageSize + 1 ELSE n)
  BY DEF ClosedTradesPage
<1>3. /\ rows = SubSeq(part, 1, IF Len(part) > PageSize THEN PageSize ELSE Len(part))
      /\ page.next = IF Len(part) > PageSize THEN rows[Len(rows)] ELSE Start
  BY DEF TradeHistory
<1> HIDE DEF S, all, part
<1>4. all \in Seq(S) /\ n \in Nat /\ Descends(all) /\ \A t \in S : Shows(all, t)
  <2> HIDE DEF n
  <2>1. all = NewestFirst(S)
    BY DEF all
  <2>2. all \in Seq(S) /\ Len(all) \in Nat /\ Descends(all) /\ \A t \in S : Shows(all, t)
    BY <1>1, <2>1, NewestFirstIs
  <2> QED BY <2>2 DEF n
<1>5. PageSize \in Nat /\ PageSize > 0
  BY PagesAssumption
<1>6. all \in Seq(ClosedTrades)
  BY <1>1, <1>4
<1>7. CASE n > PageSize
  <2>1. /\ part \in Seq(S) /\ Len(part) = PageSize + 1
        /\ \A i \in 1..PageSize + 1 : part[i] = all[i]
    BY <1>2, <1>4, <1>5, <1>7
  <2>2. /\ rows \in Seq(S) /\ Len(rows) = PageSize /\ \A i \in 1..PageSize : rows[i] = all[i]
        /\ page.next = rows[PageSize]
    <3>1. rows = SubSeq(part, 1, PageSize) /\ page.next = rows[Len(rows)]
      BY <1>3, <1>5, <2>1
    <3> HIDE DEF rows
    <3>2. Len(rows) = PageSize
      BY <2>1, <3>1, <1>5
    <3> QED BY <2>1, <3>1, <3>2, <1>5
  <2>3. DOMAIN rows = 1..PageSize /\ DOMAIN all = 1..n /\ 1..PageSize \subseteq 1..n /\ PageSize \in 1..PageSize
    <3> HIDE DEF rows
    <3> QED BY <1>4, <1>5, <1>7, <2>2
  <2> HIDE DEF rows
  <2>4. rows \in Seq(ClosedTrades)
    BY <1>1, <2>2
  <2>5. Descends(rows)
    BY <1>4, <2>2, <2>3 DEF Descends
  <2>6. page.next \in ClosedTrades /\ page.next # Start /\ page.next = all[PageSize]
    <3>1. page.next \in ClosedTrades
      BY <2>2, <2>3, <2>4
    <3> QED BY <2>2, <2>3, <3>1, LaterIsStrict
  <2>7. \A i \in DOMAIN rows : Past(rows[i], cursor)
    <3>1. \A i \in DOMAIN rows : rows[i] \in S
      BY <2>2, <2>3
    <3> QED BY <1>1, <3>1
  <2>8. Reaches(rows, page.next, S)
    <3> SUFFICES ASSUME NEW t \in S PROVE Shows(rows, t) \/ (page.next # Start /\ Earlier(t, page.next))
      BY DEF Reaches
    <3>1. PICK i \in 1..n : all[i] = t
      BY <1>4, <2>3 DEF Shows
    <3>2. CASE i <= PageSize
      <4>1. i \in 1..PageSize
        BY <1>4, <1>5, <3>2
      <4> QED BY <2>2, <2>3, <3>1, <4>1 DEF Shows
    <3>3. CASE ~(i <= PageSize)
      <4>1. PageSize < i
        BY <1>4, <1>5, <3>3
      <4>2. Later(all[PageSize], all[i])
        BY <1>4, <2>3, <4>1 DEF Descends
      <4> QED BY <2>6, <3>1, <4>2 DEF Later
    <3> QED BY <3>2, <3>3
  <2>9. EndsAt(rows, page.next)
    BY <1>5, <2>2 DEF EndsAt
  <2>10. IsHistory(rows, page.next)
    BY <2>4, <2>5, <2>9 DEF IsHistory
  <2> QED BY <2>7, <2>8, <2>10 DEF rows, S
<1>8. CASE ~(n > PageSize)
  <2>1. part = all
    BY <1>2, <1>4, <1>8
  <2>2. rows = all /\ page.next = Start
    <3>1. rows = SubSeq(all, 1, n) /\ page.next = Start
      BY <1>3, <1>8, <2>1
    <3> QED BY <1>4, <3>1
  <2>3. DOMAIN all = 1..n
    BY <1>4
  <2>4. \A i \in DOMAIN all : Past(all[i], cursor)
    <3>1. \A i \in DOMAIN all : all[i] \in S
      BY <1>4, <2>3
    <3> QED BY <1>1, <3>1
  <2>5. Reaches(all, Start, S)
    BY <1>4 DEF Reaches
  <2>6. IsHistory(all, Start)
    BY <1>4, <1>6 DEF IsHistory, EndsAt
  <2> QED BY <2>2, <2>4, <2>5, <2>6 DEF S
<1> QED BY <1>7, <1>8

(* Rows strung after rows that end where these begin.                      *)
LEMMA StrungRowsAre ==
  ASSUME NEW rows, NEW cursor, IsHistory(rows, cursor), cursor # Start,
         NEW more, NEW next, IsHistory(more, next), \A i \in DOMAIN more : Past(more[i], cursor),
         NEW S, Reaches(rows, cursor, S), Reaches(more, next, {t \in S : Past(t, cursor)})
  PROVE  IsHistory(rows \o more, next) /\ Reaches(rows \o more, next, S)
<1> DEFINE all == rows \o more
           m == Len(rows)
           k == Len(more)
<1>1. /\ rows \in Seq(ClosedTrades) /\ Descends(rows) /\ m \in Nat /\ m > 0 /\ cursor = rows[m]
      /\ more \in Seq(ClosedTrades) /\ Descends(more) /\ k \in Nat /\ EndsAt(more, next)
  BY DEF IsHistory, EndsAt
<1>2. /\ DOMAIN rows = 1..m /\ DOMAIN more = 1..k /\ DOMAIN all = 1..(m + k)
      /\ \A i \in 1..m : rows[i] \in ClosedTrades /\ all[i] = rows[i]
      /\ \A i \in 1..k : more[i] \in ClosedTrades /\ m + i \in 1..(m + k) /\ all[m + i] = more[i]
      /\ all \in Seq(ClosedTrades) /\ Len(all) = m + k
  BY <1>1
<1>3. \A i \in 1..k : Earlier(more[i], cursor)
  BY <1>2 DEF Past
<1> HIDE DEF all, m, k
<1>4. m \in 1..m /\ \A i \in 1..(m + k) : i \notin 1..m => i - m \in 1..k /\ all[i] = more[i - m]
  <2>1. ASSUME NEW i \in 1..(m + k), i \notin 1..m PROVE i - m \in 1..k /\ all[i] = more[i - m]
    <3>1. i - m \in 1..k /\ m + (i - m) = i
      BY <1>1, <2>1
    <3> QED BY <1>2, <3>1
  <2> QED BY <1>1, <2>1
<1>5. ASSUME NEW i \in 1..(m + k), NEW j \in 1..(m + k), i < j PROVE Later(all[i], all[j])
  <2>1. CASE i \in 1..m /\ j \in 1..m
    BY <1>1, <1>2, <1>5, <2>1 DEF Descends
  <2>2. CASE i \in 1..m /\ j \notin 1..m
    <3>1. j - m \in 1..k /\ all[j] = more[j - m] /\ all[i] = rows[i]
      BY <1>2, <1>4, <2>2
    <3>2. Later(cursor, more[j - m])
      BY <1>3, <3>1 DEF Later
    <3>3. i = m \/ i < m
      BY <1>1, <2>2
    <3>4. CASE i = m
      BY <1>1, <3>1, <3>2, <3>4
    <3>5. CASE i < m
      <4>1. Later(rows[i], cursor)
        BY <1>1, <1>2, <1>4, <2>2, <3>5 DEF Descends
      <4>2. rows[i] \in ClosedTrades /\ cursor \in ClosedTrades /\ more[j - m] \in ClosedTrades
        BY <1>1, <1>2, <1>4, <2>2, <3>1
      <4> QED BY <3>1, <3>2, <4>1, <4>2, LaterIsTransitive
    <3> QED BY <3>3, <3>4, <3>5
  <2>3. CASE i \notin 1..m
    <3>1. j \notin 1..m /\ i - m < j - m
      BY <1>1, <1>5, <2>3
    <3>2. i - m \in 1..k /\ all[i] = more[i - m] /\ j - m \in 1..k /\ all[j] = more[j - m]
      BY <1>4, <2>3, <3>1
    <3> QED BY <1>1, <1>2, <3>1, <3>2 DEF Descends
  <2> QED BY <2>1, <2>2, <2>3
<1>6. Descends(all)
  BY <1>2, <1>5 DEF Descends
<1>7. EndsAt(all, next)
  <2>1. CASE next = Start
    BY <2>1 DEF EndsAt
  <2>2. CASE next # Start
    <3>1. k > 0 /\ next = more[k]
      BY <1>1, <2>2 DEF EndsAt, k
    <3>2. k \in 1..k /\ m + k > 0
      BY <1>1, <3>1
    <3> QED BY <1>2, <3>1, <3>2 DEF EndsAt
  <2> QED BY <2>1, <2>2
<1>8. Reaches(all, next, S)
  <2> SUFFICES ASSUME NEW t \in S PROVE Shows(all, t) \/ (next # Start /\ Earlier(t, next))
    BY DEF Reaches
  <2>1. CASE Shows(rows, t)
    <3>1. PICK i \in 1..m : rows[i] = t
      BY <1>2, <2>1 DEF Shows
    <3>2. i \in 1..(m + k) /\ all[i] = t
      BY <1>1, <1>2, <3>1
    <3> QED BY <1>2, <3>2 DEF Shows
  <2>2. CASE Earlier(t, cursor)
    <3>1. Shows(more, t) \/ (next # Start /\ Earlier(t, next))
      BY <2>2 DEF Reaches, Past
    <3>2. ASSUME Shows(more, t) PROVE Shows(all, t)
      <4>1. PICK i \in 1..k : more[i] = t
        BY <1>2, <3>2 DEF Shows
      <4> QED BY <1>2, <4>1 DEF Shows
    <3> QED BY <3>1, <3>2
  <2> QED BY <2>1, <2>2 DEF Reaches
<1> QED BY <1>2, <1>6, <1>7, <1>8 DEF IsHistory, all

-----------------------------------------------------------------------------
(* The list of closed trades.  A page that was read fits its call.         *)
IsList(l) == l = [loaded |-> l.loaded, cursor |-> l.cursor, more |-> l.more, box |-> l.box,
                  rows |-> l.rows, had |-> l.had, tangled |-> l.tangled]

PageFits(c) ==
  /\ c.of \in Readers \cup {NoReader}
  /\ c.kind = "first" => c.cursor = Start
  /\ c.kind \in {"first", "more"} /\ c.of # NoReader =>
       /\ IsHistory(c.page.rows, c.page.next)
       /\ \A i \in DOMAIN c.page.rows : Past(c.page.rows[i], c.cursor)
  /\ c.kind = "first" /\ c.of # NoReader =>
       c.had \subseteq closed[c.of] /\ Reaches(c.page.rows, c.page.next, c.had)

PagesInv ==
  /\ closed \in [Readers -> SUBSET ClosedTrades] /\ \A w \in Readers : IsFiniteSet(closed[w])
  /\ clock \in Nat \ {0} /\ cookie \in Readers \cup {NoReader} /\ me \in Readers \cup {NoReader}
  /\ IsList(trades)
  /\ \A c \in outstanding : PageFits(c)

(* One call is out for the list at most, of the reader; the rows go        *)
(* down to the cursor, and a next page goes on from there.                 *)
RowsFit == /\ IsHistory(trades.rows, trades.cursor) /\ trades.had \subseteq closed[me]
           /\ Reaches(trades.rows, trades.cursor, trades.had)
           /\ trades.more => trades.cursor # Start
Continues(c) ==
  /\ c.cursor = trades.cursor /\ c.cursor # Start
  /\ c.of # NoReader => Reaches(c.page.rows, c.page.next, {t \in trades.had : Past(t, c.cursor)})

ListFits ==
  /\ me = NoReader => Listing = {} /\ trades.box # "rows"
  /\ \A c, d \in Listing : c = d
  /\ \A c \in Listing : c.who = me
  /\ trades.box = "rows" => RowsFit /\ \A c \in Listing : c.kind = "more" => Continues(c)

HistoryInv == ScreenInv /\ PagesInv /\ (~crossed /\ ~trades.tangled => ListFits)

ClosedGrows == \A w \in Readers : closed[w] \subseteq closed'[w]

LEMMA FewerAreReached ==
  ASSUME NEW rows, NEW cursor, NEW S, Reaches(rows, cursor, S), NEW T \in SUBSET S
  PROVE  Reaches(rows, cursor, T)
BY DEF Reaches

LEMMA PagesStayFit ==
  ASSUME PagesInv, ClosedGrows,
         \A c \in outstanding' : c \in outstanding \/ (c.of = NoReader /\ (c.kind = "first" => c.cursor = Start))
  PROVE  \A c \in outstanding' : PageFits(c)'
<1> SUFFICES ASSUME NEW c \in outstanding' PROVE PageFits(c)'
  OBVIOUS
<1>1. CASE c \in outstanding
  <2>1. PageFits(c)
    BY <1>1 DEF PagesInv
  <2> QED BY <2>1 DEF PageFits, ClosedGrows
<1>2. CASE c.of = NoReader /\ (c.kind = "first" => c.cursor = Start)
  BY <1>2 DEF PageFits
<1> QED BY <1>1, <1>2

(* A step that makes no call for the list and leaves its rows.             *)
LEMMA ListStaysFit ==
  ASSUME PagesInv, ListFits, ClosedGrows, UNCHANGED me, Listing' \subseteq Listing,
         trades' = trades \/ trades'.box # "rows"
  PROVE  ListFits'
<1>1. CASE trades'.box # "rows"
  BY <1>1 DEF ListFits
<1>2. CASE trades' = trades /\ trades.box = "rows"
  <2>1. RowsFit /\ me # NoReader
    BY <1>2 DEF ListFits
  <2>2. closed[me] \subseteq closed'[me]
    BY <2>1 DEF PagesInv, ClosedGrows
  <2>3. RowsFit'
    BY <1>2, <2>1, <2>2 DEF RowsFit
  <2>4. \A c \in Listing' : c.kind = "more" => Continues(c)'
    <3>1. \A c \in Listing : c.kind = "more" => Continues(c)
      BY <1>2 DEF ListFits
    <3> QED BY <1>2, <3>1 DEF Continues
  <2> QED BY <1>2, <2>1, <2>3, <2>4 DEF ListFits
<1> QED BY <1>1, <1>2

-----------------------------------------------------------------------------
(* The steps that leave the list alone.                                    *)
LEMMA FreshTradesFit == IsList(NoTrades) /\ NoTrades.box = "empty"
BY DEF NoTrades, IsList

LEMMA ATradeClosesInOrder ==
  ASSUME HistoryInv, TradeCloses
  PROVE  /\ (closed \in [Readers -> SUBSET ClosedTrades] /\ \A w \in Readers : IsFiniteSet(closed[w]))'
         /\ clock' \in Nat \ {0} /\ ClosedGrows
<1>1. /\ closed \in [Readers -> SUBSET ClosedTrades] /\ \A w \in Readers : IsFiniteSet(closed[w])
      /\ clock \in Nat \ {0}
  BY DEF HistoryInv, PagesInv
<1>2. PICK w \in Readers \cap {me}, id \in TradeIds, t \in {clock, clock + 1} :
        closed' = [closed EXCEPT ![w] = @ \cup {<<t, id>>}] /\ clock' = t
  BY DEF TradeCloses
<1>3. t \in Nat \ {0} /\ id \in Nat
  BY <1>1, PagesAssumption
<1> DEFINE trade == <<t, id>>
<1>4. trade \in ClosedTrades
  BY <1>3 DEF ClosedTrades
<1>5. closed' = [closed EXCEPT ![w] = closed[w] \cup {trade}]
  BY <1>2
<1> HIDE DEF trade
<1>6. IsFiniteSet(closed[w] \cup {trade})
  BY <1>1, FS_AddElement
<1> QED BY <1>1, <1>2, <1>3, <1>4, <1>5, <1>6 DEF ClosedGrows

LEMMA QuietStepsKeepHistory ==
  ASSUME HistoryInv, ScreenInv', ClosedGrows,
         (closed \in [Readers -> SUBSET ClosedTrades] /\ \A w \in Readers : IsFiniteSet(closed[w]))',
         clock' \in Nat \ {0}, cookie' \in Readers \cup {NoReader},
         UNCHANGED <<me, trades, crossed>>,
         \A c \in outstanding' :
           c \in outstanding \/ (c.kind \notin {"first", "more"} /\ c.of = NoReader)
  PROVE  HistoryInv'
<1>1. PagesInv
  BY DEF HistoryInv
<1>2. \A c \in outstanding' : PageFits(c)'
  BY <1>1, PagesStayFit
<1>3. IsList(trades)'
  BY <1>1 DEF PagesInv, IsList
<1>4. PagesInv'
  BY <1>1, <1>2, <1>3 DEF PagesInv
<1>5. Listing' \subseteq Listing
  BY DEF Listing
<1>6. (~crossed /\ ~trades.tangled => ListFits)'
  BY <1>1, <1>5, ListStaysFit DEF HistoryInv
<1> QED BY <1>4, <1>6 DEF HistoryInv

LEMMA UntouchedClosed ==
  ASSUME HistoryInv, UNCHANGED <<closed, clock>>
  PROVE  /\ (closed \in [Readers -> SUBSET ClosedTrades] /\ \A w \in Readers : IsFiniteSet(closed[w]))'
         /\ clock' \in Nat \ {0} /\ ClosedGrows
BY DEF HistoryInv, PagesInv, ClosedGrows

LEMMA BackgroundKeepsHistory ==
  ASSUME HistoryInv, ScreenInv',
         TradeCloses \/ SessionEnds \/ AnotherTabSignsIn \/ SignatureIsVerified \/ UNCHANGED screenVars
  PROVE  HistoryInv'
<1>1. UNCHANGED <<me, outstanding, trades, crossed>>
  BY DEF TradeCloses, SessionEnds, AnotherTabSignsIn, SignatureIsVerified, screenVars, listVars
<1>2. cookie' \in Readers \cup {NoReader}
  <2>1. cookie \in Readers \cup {NoReader}
    BY DEF HistoryInv, PagesInv
  <2> QED BY <2>1 DEF TradeCloses, SessionEnds, AnotherTabSignsIn, SignatureIsVerified, screenVars
<1>3. /\ (closed \in [Readers -> SUBSET ClosedTrades] /\ \A w \in Readers : IsFiniteSet(closed[w]))'
      /\ clock' \in Nat \ {0} /\ ClosedGrows
  <2>1. CASE TradeCloses
    BY <2>1, ATradeClosesInOrder
  <2>2. CASE UNCHANGED <<closed, clock>>
    BY <2>2, UntouchedClosed
  <2> QED BY <2>1, <2>2 DEF SessionEnds, AnotherTabSignsIn, SignatureIsVerified, screenVars
<1> QED BY <1>1, <1>2, <1>3, QuietStepsKeepHistory

LEMMA OtherCallsKeepHistory ==
  ASSUME HistoryInv, ScreenInv', SignalsAreAsked \/ DeskArrives \/ ChartArrives \/ SignalsArrive
  PROVE  HistoryInv'
<1>1. UNCHANGED <<closed, clock, cookie, me, trades, crossed>>
  BY DEF SignalsAreAsked, DeskArrives, ChartArrives, SignalsArrive, serverVars, listVars
<1>2. \A c \in outstanding' : c \in outstanding \/ (c.kind \notin {"first", "more"} /\ c.of = NoReader)
  <2>1. CASE SignalsAreAsked
    <3> DEFINE call == Call("list", made + 1, me, Start)
    <3>1. call.kind = "list" /\ call.of = NoReader
      BY NewCallsAreCalls
    <3>2. outstanding' = outstanding \cup {call}
      BY <2>1 DEF SignalsAreAsked
    <3> HIDE DEF call
    <3> QED BY <3>1, <3>2
  <2>2. CASE DeskArrives \/ ChartArrives \/ SignalsArrive
    BY <2>2 DEF DeskArrives, ChartArrives, SignalsArrive
  <2> QED BY <2>1, <2>2
<1>3. cookie' \in Readers \cup {NoReader}
  BY <1>1 DEF HistoryInv, PagesInv
<1>4. /\ (closed \in [Readers -> SUBSET ClosedTrades] /\ \A w \in Readers : IsFiniteSet(closed[w]))'
      /\ clock' \in Nat \ {0} /\ ClosedGrows
  BY <1>1, UntouchedClosed
<1> QED BY <1>1, <1>2, <1>3, <1>4, QuietStepsKeepHistory

-----------------------------------------------------------------------------
(* An answer: a page is of the ledger as it is read.                       *)
Told(c, told, of, page, had) ==
  told = [c EXCEPT !.answered = TRUE, !.of = of, !.page = page, !.had = had]

LEMMA ToldIs ==
  ASSUME NEW c, IsCall(c), NEW of, NEW page, NEW had, NEW told, Told(c, told, of, page, had)
  PROVE  /\ told.of = of /\ told.page = page /\ told.had = had
         /\ told.kind = c.kind /\ told.who = c.who /\ told.cursor = c.cursor
BY DEF Told, IsCall

LEMMA AnswersKeepHistory == ASSUME HistoryInv, ScreenInv', ServerAnswers PROVE HistoryInv'
<1>1. PagesInv /\ (\A c \in outstanding : IsCall(c))
  BY DEF HistoryInv, ScreenInv
<1>2. PICK c \in outstanding : \E page, had, told :
        /\ Told(c, told, cookie, page, had)
        /\ page = IF cookie = NoReader \/ c.kind \notin {"first", "more"} THEN c.page
                  ELSE TradeHistory(cookie, c.cursor)
        /\ had = IF cookie = NoReader \/ c.kind # "first" THEN {} ELSE closed[cookie]
        /\ outstanding' = (outstanding \ {c}) \cup {told}
        /\ crossed' = (crossed \/ cookie \notin {NoReader, c.who})
  BY DEF ServerAnswers, Told
<1>3. PICK page, had, told :
        /\ Told(c, told, cookie, page, had)
        /\ page = IF cookie = NoReader \/ c.kind \notin {"first", "more"} THEN c.page
                  ELSE TradeHistory(cookie, c.cursor)
        /\ had = IF cookie = NoReader \/ c.kind # "first" THEN {} ELSE closed[cookie]
        /\ outstanding' = (outstanding \ {c}) \cup {told}
        /\ crossed' = (crossed \/ cookie \notin {NoReader, c.who})
  BY <1>2
<1>4. /\ told.of = cookie /\ told.page = page /\ told.had = had
      /\ told.kind = c.kind /\ told.who = c.who /\ told.cursor = c.cursor
  BY <1>1, <1>3, ToldIs
<1>5. UNCHANGED <<cookie, closed, clock, me, trades>>
  BY DEF ServerAnswers, listVars
<1>6. cookie \in Readers \cup {NoReader} /\ PageFits(c)
  BY <1>1 DEF PagesInv
<1>7. ASSUME c.kind \in {"first", "more"}, cookie # NoReader
      PROVE  /\ IsHistory(page.rows, page.next)
             /\ \A i \in DOMAIN page.rows : Past(page.rows[i], c.cursor)
             /\ Reaches(page.rows, page.next, {t \in closed[cookie] : Past(t, c.cursor)})
  <2>1. page = TradeHistory(cookie, c.cursor) /\ cookie \in Readers
    BY <1>3, <1>6, <1>7
  <2>2. closed[cookie] \in SUBSET ClosedTrades /\ IsFiniteSet(closed[cookie])
    BY <1>1, <2>1 DEF PagesInv
  <2> QED BY <2>1, <2>2, PageIsRight
<1>8. PageFits(told)'
  <2>1. CASE cookie = NoReader \/ c.kind \notin {"first", "more"}
    BY <1>4, <1>5, <1>6, <2>1 DEF PageFits
  <2>2. CASE cookie # NoReader /\ c.kind = "more"
    BY <1>4, <1>5, <1>6, <1>7, <2>2 DEF PageFits
  <2>3. CASE cookie # NoReader /\ c.kind = "first"
    <3>1. c.cursor = Start /\ had = closed[cookie]
      BY <1>3, <1>6, <2>3 DEF PageFits
    <3>2. closed[cookie] = {t \in closed[cookie] : Past(t, c.cursor)}
      BY <3>1 DEF Past
    <3>3. Reaches(page.rows, page.next, had)
      BY <1>7, <2>3, <3>1, <3>2
    <3> QED BY <1>4, <1>5, <1>6, <1>7, <2>3, <3>1, <3>3 DEF PageFits
  <2> QED BY <2>1, <2>2, <2>3
<1>9. \A d \in outstanding' : PageFits(d)'
  <2>1. \A d \in outstanding : PageFits(d)'
    BY <1>1, <1>5 DEF PagesInv, PageFits
  <2> QED BY <1>3, <1>8, <2>1
<1>10. PagesInv'
  BY <1>1, <1>5, <1>9 DEF PagesInv, IsList
<1>11. ASSUME ~crossed', ~trades'.tangled PROVE ListFits'
  <2>1. ListFits /\ cookie \in {NoReader, c.who}
    BY <1>3, <1>5, <1>11 DEF HistoryInv
  <2>2. \A d \in Listing' : d \in Listing \/ (d = told /\ c \in Listing)
    BY <1>3, <1>4 DEF Listing
  <2>3. CASE c \notin Listing
    <3>1. Listing' \subseteq Listing /\ ClosedGrows
      BY <1>5, <2>2, <2>3 DEF ClosedGrows
    <3> QED BY <1>1, <1>5, <2>1, <3>1, ListStaysFit
  <2>4. CASE c \in Listing
    <3>1. Listing = {c} /\ c.who = me /\ me # NoReader /\ c.kind \in {"first", "more"}
      BY <2>1, <2>4 DEF ListFits, Listing
    <3>2. \A d \in Listing' : d = told
      <4>1. \A d \in Listing' : d # c \/ d = told
        BY <1>3 DEF Listing
      <4> QED BY <2>2, <3>1, <4>1
    <3>3. trades.box = "rows" => RowsFit /\ \A d \in Listing : d.kind = "more" => Continues(d)
      BY <2>1 DEF ListFits
    <3>4. trades.box = "rows" => RowsFit'
      BY <1>5, <3>3 DEF RowsFit
    <3>5. ASSUME trades.box = "rows", told.kind = "more" PROVE Continues(told)'
      <4>1. Continues(c) /\ trades.had \subseteq closed[me]
        BY <1>4, <2>4, <3>3, <3>5 DEF RowsFit
      <4>2. ASSUME told.of # NoReader
            PROVE  Reaches(page.rows, page.next, {t \in trades.had : Past(t, c.cursor)})
        <5>1. cookie = me /\ cookie # NoReader
          BY <1>4, <2>1, <3>1, <4>2
        <5>2. Reaches(page.rows, page.next, {t \in closed[me] : Past(t, c.cursor)})
          BY <1>7, <3>1, <5>1
        <5>3. {t \in trades.had : Past(t, c.cursor)} \in SUBSET {t \in closed[me] : Past(t, c.cursor)}
          BY <4>1
        <5> QED BY <5>2, <5>3, FewerAreReached
      <4> QED BY <1>4, <1>5, <4>1, <4>2 DEF Continues
    <3>6. /\ me' # NoReader /\ (\A d \in Listing' : d.who = me')
          /\ \A d, e \in Listing' : d = e
      BY <1>4, <1>5, <3>1, <3>2
    <3> QED BY <1>5, <3>2, <3>4, <3>5, <3>6 DEF ListFits
  <2> QED BY <2>3, <2>4
<1> QED BY <1>10, <1>11 DEF HistoryInv

-----------------------------------------------------------------------------
(* A desk read: the list is emptied, or was filled before.                 *)
LEMMA ResetTradesFit ==
  ASSUME NEW t, NEW l, l = [NoTrades EXCEPT !.tangled = t]
  PROVE  IsList(l) /\ l.box = "empty" /\ l.tangled = t
BY DEF NoTrades, IsList

LEMMA LoadsKeepHistory ==
  ASSUME HistoryInv, ScreenInv', NEW w \in Readers, w = me', me \in {NoReader, w}, LoadDesk(w),
         UNCHANGED <<serverVars, cached>>
  PROVE  HistoryInv'
<1>1. PagesInv
  BY DEF HistoryInv
<1>2. UNCHANGED <<cookie, closed, clock, crossed>>
  BY DEF serverVars
<1>3. \A c \in outstanding' : c \in outstanding \/ (c.kind \notin {"first", "more"} /\ c.of = NoReader)
  <2> DEFINE forChart == Call("chart", made + 1, w, Start)
             forDesk == Call("desk", made + 2, w, Start)
  <2>1. outstanding' \subseteq outstanding \cup {forChart, forDesk}
    BY DEF LoadDesk
  <2>2. /\ forChart.of = NoReader /\ forChart.kind = "chart"
        /\ forDesk.of = NoReader /\ forDesk.kind = "desk"
    BY NewCallsAreCalls
  <2> HIDE DEF forChart, forDesk
  <2> QED BY <2>1, <2>2
<1>4. ClosedGrows /\ Listing' \subseteq Listing
  BY <1>2, <1>3 DEF ClosedGrows, Listing
<1>5. \A c \in outstanding' : PageFits(c)'
  BY <1>1, <1>3, <1>4, PagesStayFit
<1>6. /\ IsList(trades')
      /\ \/ trades' = trades
         \/ trades'.box = "empty" /\ trades'.tangled = (trades.tangled /\ Listing # {})
  <2>1. CASE trades' = trades
    BY <1>1, <2>1 DEF PagesInv
  <2>2. CASE trades' = [NoTrades EXCEPT !.tangled = trades.tangled /\ Listing # {}]
    BY <2>2, ResetTradesFit
  <2> QED BY <2>1, <2>2 DEF LoadDesk, ListsAfterReset
<1>7. PagesInv'
  <2>1. IsList(trades)'
    BY <1>6 DEF IsList
  <2> QED BY <1>1, <1>2, <1>5, <2>1 DEF PagesInv
<1>8. w # NoReader
  BY NobodyIsAReader DEF NoReader
<1>9. ASSUME ~crossed', ~trades'.tangled PROVE ListFits'
  <2>1. CASE trades' = trades /\ me = w
    BY <1>1, <1>2, <1>4, <1>9, <2>1, ListStaysFit DEF HistoryInv
  <2>2. CASE trades' = trades /\ me = NoReader
    <3>1. Listing = {} /\ trades.box # "rows"
      BY <1>2, <1>9, <2>2 DEF HistoryInv, ListFits
    <3> QED BY <1>4, <1>8, <2>2, <3>1 DEF ListFits
  <2>3. CASE trades'.box = "empty" /\ Listing = {}
    BY <1>4, <1>8, <2>3 DEF ListFits
  <2>4. CASE trades'.box = "empty" /\ ~trades.tangled
    <3>1. ListFits
      BY <1>2, <1>9, <2>4 DEF HistoryInv
    <3>2. \A c \in Listing : c.who = w
      BY <3>1 DEF ListFits
    <3> QED BY <1>4, <1>8, <2>4, <3>1, <3>2 DEF ListFits
  <2> QED BY <1>6, <1>9, <2>1, <2>2, <2>3, <2>4
<1> QED BY <1>7, <1>9 DEF HistoryInv

LEMMA SignOutKeepsHistory == ASSUME HistoryInv, ScreenInv', SignsOut PROVE HistoryInv'
<1>1. UNCHANGED <<closed, clock>> /\ cookie' = NoReader /\ me' = NoReader /\ outstanding' = {} /\ trades' = NoTrades
  BY DEF SignsOut
<1>2. IsList(trades)' /\ trades'.box = "empty"
  BY <1>1, FreshTradesFit DEF IsList
<1>3. PagesInv'
  BY <1>1, <1>2 DEF HistoryInv, PagesInv
<1>4. ListFits'
  BY <1>1, <1>2 DEF ListFits, Listing
<1> QED BY <1>3, <1>4 DEF HistoryInv

(* A page asked for while none is out.                                     *)
LEMMA ListCallsKeepHistory ==
  ASSUME HistoryInv, ScreenInv', me # NoReader, NEW kind \in {"first", "more"}, NEW n, NEW cursor,
         kind = "first" => cursor = Start,
         outstanding' = outstanding \cup {Call(kind, n, me, cursor)},
         UNCHANGED <<serverVars, me>>, IsList(trades'),
         trades'.tangled \in {Listing # {}, trades.tangled \/ Listing # {}},
         trades'.box = "rows" =>
           /\ kind = "more" /\ trades'.tangled = (trades.tangled \/ Listing # {})
           /\ trades.box = "rows" /\ trades.more /\ cursor = trades.cursor
           /\ trades'.rows = trades.rows /\ trades'.cursor = trades.cursor /\ trades'.had = trades.had
  PROVE  HistoryInv'
<1>0. PICK call : call = Call(kind, n, me, cursor)
  OBVIOUS
<1>1. PagesInv /\ UNCHANGED <<cookie, closed, clock, crossed>> /\ ClosedGrows
  BY DEF HistoryInv, serverVars, ClosedGrows
<1>2. call.of = NoReader /\ call.kind = kind /\ call.who = me /\ call.cursor = cursor
  BY <1>0 DEF Call
<1>3. outstanding' = outstanding \cup {call}
  BY <1>0
<1>4. \A c \in outstanding' : PageFits(c)'
  BY <1>1, <1>2, <1>3, PagesStayFit
<1>5. PagesInv'
  <2>1. IsList(trades)'
    BY DEF IsList
  <2> QED BY <1>1, <1>4, <2>1 DEF PagesInv
<1>6. ASSUME ~crossed', ~trades'.tangled PROVE ListFits'
  <2>1. Listing = {}
    BY <1>6
  <2>2. \A c \in Listing' : c = call
    BY <1>3, <2>1 DEF Listing
  <2>3. ASSUME trades'.box = "rows" PROVE RowsFit' /\ Continues(call)'
    <3>1. ~trades.tangled
      BY <1>6, <2>3
    <3>2. RowsFit
      BY <1>1, <1>6, <2>3, <3>1 DEF HistoryInv, ListFits
    <3>3. cursor # Start
      BY <2>3, <3>2 DEF RowsFit
    <3>4. RowsFit'
      BY <1>1, <2>3, <3>2, <3>3 DEF RowsFit
    <3> QED BY <1>2, <2>3, <3>3, <3>4 DEF Continues
  <2> QED BY <1>2, <2>2, <2>3 DEF ListFits
<1> QED BY <1>5, <1>6 DEF HistoryInv

AskedAfresh(l, k, t) == k = [l EXCEPT !.cursor = Start, !.box = "loading", !.rows = <<>>, !.tangled = t]

LEMMA ListAskedAfresh ==
  ASSUME NEW l, IsList(l), NEW t, NEW k, AskedAfresh(l, k, t)
  PROVE  IsList(k) /\ k.tangled = t /\ k.box = "loading"
BY DEF IsList, AskedAfresh

LEMMA ListAskedOn ==
  ASSUME NEW l, IsList(l), NEW t, NEW k, k = [l EXCEPT !.tangled = t]
  PROVE  /\ IsList(k) /\ k.tangled = t /\ k.box = l.box
         /\ k.rows = l.rows /\ k.cursor = l.cursor /\ k.had = l.had
BY DEF IsList

LEMMA PagesAskedKeepHistory ==
  ASSUME HistoryInv, ScreenInv', FirstPageIsAsked \/ NextPageIsAsked PROVE HistoryInv'
<1>1. IsList(trades)
  BY DEF HistoryInv, PagesInv
<1>2. UNCHANGED <<serverVars, me>> /\ me # NoReader
  BY DEF FirstPageIsAsked, NextPageIsAsked
<1>3. CASE FirstPageIsAsked
  <2>1. PICK t : /\ t = (Listing # {})
                 /\ AskedAfresh(trades, trades', t)
    BY <1>3 DEF FirstPageIsAsked, AskedAfresh
  <2>2. IsList(trades') /\ trades'.tangled = t /\ trades'.box = "loading"
    BY <1>1, <2>1, ListAskedAfresh
  <2>3. outstanding' = outstanding \cup {Call("first", made + 1, me, Start)}
    BY <1>3 DEF FirstPageIsAsked
  <2> QED BY <1>2, <2>1, <2>2, <2>3, ListCallsKeepHistory
<1>4. CASE NextPageIsAsked
  <2>1. PICK t : /\ t = (trades.tangled \/ Listing # {})
                 /\ trades' = [trades EXCEPT !.tangled = t]
    BY <1>4 DEF NextPageIsAsked
  <2>2. /\ IsList(trades') /\ trades'.tangled = t /\ trades'.box = trades.box
        /\ trades'.rows = trades.rows /\ trades'.cursor = trades.cursor /\ trades'.had = trades.had
    BY <1>1, <2>1, ListAskedOn
  <2>3. outstanding' = outstanding \cup {Call("more", made + 1, me, trades.cursor)} /\ trades.more
    BY <1>4 DEF NextPageIsAsked
  <2> QED BY <1>2, <2>1, <2>2, <2>3, ListCallsKeepHistory
<1> QED BY <1>3, <1>4

-----------------------------------------------------------------------------
(* A page arrives.                                                         *)
NewList(l, k, c) ==
  k = [[l EXCEPT !.rows = c.page.rows, !.box = "rows", !.had = c.had]
       EXCEPT !.loaded = TRUE, !.cursor = c.page.next, !.more = c.page.next # Start]
LongerList(l, k, c) ==
  k = [[l EXCEPT !.rows = @ \o c.page.rows]
       EXCEPT !.loaded = TRUE, !.cursor = c.page.next, !.more = c.page.next # Start]
NoList(l, k, c) ==
  k = [[l EXCEPT !.rows = <<>>, !.box = "error"]
       EXCEPT !.loaded = TRUE, !.cursor = c.page.next, !.more = c.page.next # Start]

LEMMA NewListIs ==
  ASSUME NEW l, IsList(l), NEW c, NEW k, NewList(l, k, c)
  PROVE  /\ IsList(k) /\ k.tangled = l.tangled /\ k.box = "rows" /\ k.rows = c.page.rows /\ k.had = c.had
         /\ k.cursor = c.page.next /\ (k.more => c.page.next # Start)
BY DEF IsList, NewList

LEMMA LongerListIs ==
  ASSUME NEW l, IsList(l), NEW c, NEW k, LongerList(l, k, c)
  PROVE  /\ IsList(k) /\ k.tangled = l.tangled /\ k.box = l.box /\ k.rows = l.rows \o c.page.rows /\ k.had = l.had
         /\ k.cursor = c.page.next /\ (k.more => c.page.next # Start)
BY DEF IsList, LongerList

LEMMA NoListIs ==
  ASSUME NEW l, IsList(l), NEW c, NEW k, NoList(l, k, c)
  PROVE  IsList(k) /\ k.tangled = l.tangled /\ k.box = "error"
BY DEF IsList, NoList

LEMMA PageKeepsHistory == ASSUME HistoryInv, ScreenInv', PageArrives PROVE HistoryInv'
<1>1. PagesInv /\ UNCHANGED <<cookie, closed, clock, crossed, me>> /\ ClosedGrows
  BY DEF HistoryInv, PageArrives, serverVars, ClosedGrows
<1>2. PICK c \in Listing : /\ Answered(c) /\ outstanding' = outstanding \ {c}
                           /\ \/ c.kind = "first" /\ NewList(trades, trades', c)
                              \/ c.kind = "more" /\ trades.box = "rows" /\ LongerList(trades, trades', c)
                              \/ c.kind = "more" /\ NoList(trades, trades', c)
  <2>1. PICK c \in Listing :
          /\ Answered(c) /\ outstanding' = outstanding \ {c}
          /\ trades' = [Strung(c) EXCEPT !.loaded = TRUE, !.cursor = c.page.next, !.more = c.page.next # Start]
    BY DEF PageArrives
  <2>2. c.kind \in {"first", "more"}
    BY DEF Listing
  <2>3. CASE c.kind = "first"
    <3>1. Strung(c) = [trades EXCEPT !.rows = c.page.rows, !.box = "rows", !.had = c.had]
      BY <2>3 DEF Strung
    <3>2. NewList(trades, trades', c)
      BY <2>1, <3>1 DEF NewList
    <3> QED BY <2>1, <2>3, <3>2
  <2>4. CASE c.kind = "more" /\ trades.box = "rows"
    <3>1. Strung(c) = [trades EXCEPT !.rows = @ \o c.page.rows]
      BY <2>4 DEF Strung
    <3>2. LongerList(trades, trades', c)
      BY <2>1, <3>1 DEF LongerList
    <3> QED BY <2>1, <2>4, <3>2
  <2>5. CASE c.kind = "more" /\ trades.box # "rows"
    <3>1. Strung(c) = [trades EXCEPT !.rows = <<>>, !.box = "error"]
      BY <2>5 DEF Strung
    <3>2. NoList(trades, trades', c)
      BY <2>1, <3>1 DEF NoList
    <3> QED BY <2>1, <2>5, <3>2
  <2> QED BY <2>2, <2>3, <2>4, <2>5
<1>3. IsList(trades) /\ c \in outstanding /\ PageFits(c) /\ c.of # NoReader
  BY <1>1, <1>2 DEF PagesInv, Answered, Listing
<1>4. IsList(trades') /\ trades'.tangled = trades.tangled
  <2>1. CASE NewList(trades, trades', c)
    BY <1>3, <2>1, NewListIs
  <2>2. CASE LongerList(trades, trades', c)
    BY <1>3, <2>2, LongerListIs
  <2>3. CASE NoList(trades, trades', c)
    BY <1>3, <2>3, NoListIs
  <2> QED BY <1>2, <2>1, <2>2, <2>3
<1>5. PagesInv'
  <2>1. \A d \in outstanding' : PageFits(d)'
    BY <1>1, <1>2, PagesStayFit
  <2>2. IsList(trades)'
    BY <1>4 DEF IsList
  <2> QED BY <1>1, <2>1, <2>2 DEF PagesInv
<1>6. ASSUME ~crossed', ~trades'.tangled PROVE ListFits'
  <2>1. ListFits
    BY <1>1, <1>4, <1>6 DEF HistoryInv
  <2>2. Listing' = {} /\ me # NoReader /\ c.who = me
    BY <1>2, <2>1 DEF ListFits, Listing
  <2>3. c.of = me
    BY <1>1, <1>3, <1>6, <2>2 DEF HistoryInv, ScreenInv, OwnCopies
  <2>4. c.kind \in {"first", "more"}
    BY DEF Listing
  <2>5. /\ IsHistory(c.page.rows, c.page.next)
        /\ \A i \in DOMAIN c.page.rows : Past(c.page.rows[i], c.cursor)
    BY <1>3, <2>4 DEF PageFits
  <2>6. CASE c.kind = "first" /\ NewList(trades, trades', c)
    <3>1. c.had \subseteq closed[me] /\ Reaches(c.page.rows, c.page.next, c.had)
      BY <1>3, <2>3, <2>6 DEF PageFits
    <3>2. /\ trades'.rows = c.page.rows /\ trades'.had = c.had
          /\ trades'.cursor = c.page.next /\ (trades'.more => c.page.next # Start)
      BY <1>3, <2>6, NewListIs
    <3>3. RowsFit'
      BY <1>1, <2>5, <3>1, <3>2 DEF RowsFit
    <3> QED BY <1>1, <2>2, <3>3 DEF ListFits
  <2>7. CASE c.kind = "more" /\ trades.box = "rows" /\ LongerList(trades, trades', c)
    <3>1. RowsFit /\ Continues(c)
      BY <2>1, <2>7 DEF ListFits
    <3>2. IsHistory(trades.rows, c.cursor) /\ Reaches(trades.rows, c.cursor, trades.had) /\ c.cursor # Start
      <4>1. c.cursor = trades.cursor /\ c.cursor # Start
        BY <3>1 DEF Continues
      <4>2. IsHistory(trades.rows, trades.cursor) /\ Reaches(trades.rows, trades.cursor, trades.had)
        BY <3>1 DEF RowsFit
      <4> QED BY <4>1, <4>2
    <3>3. Reaches(c.page.rows, c.page.next, {t \in trades.had : Past(t, c.cursor)})
      BY <1>3, <3>1 DEF Continues
    <3>4. /\ IsHistory(trades.rows \o c.page.rows, c.page.next)
          /\ Reaches(trades.rows \o c.page.rows, c.page.next, trades.had)
      BY <2>5, <3>2, <3>3, StrungRowsAre
    <3>5. /\ trades'.rows = trades.rows \o c.page.rows /\ trades'.had = trades.had
          /\ trades'.cursor = c.page.next /\ (trades'.more => c.page.next # Start)
      BY <1>3, <2>7, LongerListIs
    <3>6. trades.had \subseteq closed[me]
      BY <3>1 DEF RowsFit
    <3>7. RowsFit'
      BY <1>1, <3>4, <3>5, <3>6 DEF RowsFit
    <3> QED BY <1>1, <2>2, <3>7 DEF ListFits
  <2>8. CASE c.kind = "more" /\ NoList(trades, trades', c)
    <3>1. trades'.box = "error"
      BY <1>3, <2>8, NoListIs
    <3> QED BY <1>1, <2>2, <3>1 DEF ListFits
  <2> QED BY <1>2, <2>6, <2>7, <2>8
<1> QED BY <1>5, <1>6 DEF HistoryInv

(* A refusal, or a call that fails.                                        *)
LEMMA ListRefused ==
  ASSUME NEW l, IsList(l), NEW k, k = [l EXCEPT !.tangled = TRUE]
  PROVE  IsList(k) /\ k.tangled
BY DEF IsList

LEMMA ListLost ==
  ASSUME NEW l, IsList(l), NEW k, k = [l EXCEPT !.rows = <<>>, !.box = "error"]
  PROVE  IsList(k) /\ k.tangled = l.tangled /\ k.box = "error"
BY DEF IsList

LEMMA FailuresKeepHistory ==
  ASSUME HistoryInv, ScreenInv', RefusalArrives \/ CallFails PROVE HistoryInv'
<1>1. PagesInv /\ UNCHANGED <<cookie, closed, clock, crossed>> /\ ClosedGrows
  BY DEF HistoryInv, RefusalArrives, CallFails, serverVars, ClosedGrows
<1>2. IsList(trades) /\ outstanding' \subseteq outstanding /\ Listing' \subseteq Listing
      /\ me' \in Readers \cup {NoReader}
  BY <1>1 DEF PagesInv, RefusalArrives, CallFails, Listing
<1>3. \/ me' = me /\ trades' = trades
      \/ IsList(trades') /\ trades'.tangled
      \/ me' = me /\ IsList(trades') /\ trades'.tangled = trades.tangled /\ trades'.box = "error"
  <2>1. CASE RefusalArrives
    <3>1. \/ me' = me /\ trades' = trades
          \/ trades' = [trades EXCEPT !.tangled = TRUE]
      BY <2>1 DEF RefusalArrives
    <3> QED BY <1>2, <3>1, ListRefused
  <2>2. CASE CallFails
    <3>1. me' = me /\ (trades' = trades \/ trades' = [trades EXCEPT !.rows = <<>>, !.box = "error"])
      BY <2>2 DEF CallFails
    <3> QED BY <1>2, <3>1, ListLost
  <2> QED BY <2>1, <2>2
<1>4. PagesInv'
  <2>1. IsList(trades)'
    BY <1>2, <1>3 DEF IsList
  <2>2. \A c \in outstanding' : PageFits(c)'
    BY <1>1, <1>2, PagesStayFit
  <2> QED BY <1>1, <1>2, <2>1, <2>2 DEF PagesInv
<1>5. ASSUME ~crossed', ~trades'.tangled PROVE ListFits'
  <2>1. ListFits /\ me' = me /\ (trades' = trades \/ trades'.box # "rows")
    BY <1>1, <1>3, <1>5 DEF HistoryInv
  <2> QED BY <1>1, <1>2, <2>1, ListStaysFit
<1> QED BY <1>4, <1>5 DEF HistoryInv

LEMMA HistoryStepsKeep == ASSUME HistoryInv, [ScreenNext]_screenVars PROVE HistoryInv'
<1>0. ScreenInv'
  BY ScreenStepsKeep DEF HistoryInv
<1>1. CASE TradeCloses \/ SessionEnds \/ AnotherTabSignsIn \/ SignatureIsVerified \/ UNCHANGED screenVars
  BY <1>0, <1>1, BackgroundKeepsHistory
<1>2. CASE ServerAnswers
  BY <1>0, <1>2, AnswersKeepHistory
<1>3. CASE ReaderLands
  <2>1. cookie \in Readers
    BY <1>3 DEF ReaderLands, HistoryInv, PagesInv
  <2> QED BY <1>0, <1>3, <2>1, LoadsKeepHistory DEF ReaderLands
<1>4. CASE DeskIsOpened
  <2>1. me \in Readers
    BY <1>4 DEF DeskIsOpened, HistoryInv, PagesInv
  <2> QED BY <1>0, <1>4, <2>1, LoadsKeepHistory DEF DeskIsOpened
<1>5. CASE SignsOut
  BY <1>0, <1>5, SignOutKeepsHistory
<1>6. CASE FirstPageIsAsked \/ NextPageIsAsked
  BY <1>0, <1>6, PagesAskedKeepHistory
<1>7. CASE SignalsAreAsked \/ DeskArrives \/ ChartArrives \/ SignalsArrive
  BY <1>0, <1>7, OtherCallsKeepHistory
<1>8. CASE PageArrives
  BY <1>0, <1>8, PageKeepsHistory
<1>9. CASE RefusalArrives \/ CallFails
  BY <1>0, <1>9, FailuresKeepHistory
<1> QED BY <1>1, <1>2, <1>3, <1>4, <1>5, <1>6, <1>7, <1>8, <1>9 DEF ScreenNext

(* However many trades close in one instant or while the pages are read,   *)
(* the closed trades a reader has paged through are each once there,       *)
(* newest first, and at the last page none of those that had closed by the *)
(* first is missing (web/desk.ts buildTradeHistory, store/db.ts            *)
(* closedTradesPage, design/src/desk.ts fetchHistory), when the pages were *)
(* asked for one at a time by one reader and answered for that reader.     *)
THEOREM HistoryIsReadWhole == ScreenSpec => []HistoryIsWhole
<1>1. ScreenInit => HistoryInv
  <2> SUFFICES ASSUME ScreenInit PROVE HistoryInv
    OBVIOUS
  <2>1. outstanding = {} /\ trades = NoTrades /\ closed = [w \in Readers |-> {}]
    BY DEF ScreenInit, Quiescent
  <2>2. cookie \in Readers \cup {NoReader} /\ me \in Readers \cup {NoReader} /\ clock \in Nat \ {0}
    <3>1. (CHOOSE w \in Readers : TRUE) \in Readers
      BY PagesAssumption
    <3> QED BY <3>1, PagesAssumption DEF ScreenInit, FreshTab, SettledTab
  <2>3. closed \in [Readers -> SUBSET ClosedTrades] /\ \A w \in Readers : IsFiniteSet(closed[w])
    BY <2>1, FS_EmptySet
  <2>4. PagesInv
    BY <2>1, <2>2, <2>3, FreshTradesFit DEF PagesInv
  <2>5. ListFits
    BY <2>1, FreshTradesFit DEF ListFits, Listing
  <2> QED BY <2>4, <2>5, ScreenInitially DEF HistoryInv
<1>2. HistoryInv /\ [ScreenNext]_screenVars => HistoryInv'
  BY HistoryStepsKeep
<1>3. HistoryInv => HistoryIsWhole
  <2> SUFFICES ASSUME HistoryInv, trades.box = "rows", ~trades.tangled, ~crossed
               PROVE  /\ \A i \in 1..Len(trades.rows) - 1 : Later(trades.rows[i], trades.rows[i + 1])
                      /\ trades.cursor = Start =>
                           trades.had \subseteq {trades.rows[i] : i \in DOMAIN trades.rows}
    BY DEF HistoryIsWhole
  <2>1. RowsFit
    BY DEF HistoryInv, ListFits
  <2>2. trades.rows \in Seq(ClosedTrades) /\ Descends(trades.rows)
    BY <2>1 DEF RowsFit, IsHistory
  <2>3. \A i \in 1..Len(trades.rows) - 1 : i \in DOMAIN trades.rows /\ i + 1 \in DOMAIN trades.rows /\ i < i + 1
    BY <2>2
  <2>4. \A i \in 1..Len(trades.rows) - 1 : Later(trades.rows[i], trades.rows[i + 1])
    BY <2>2, <2>3 DEF Descends
  <2>5. ASSUME trades.cursor = Start, NEW t \in trades.had PROVE \E i \in DOMAIN trades.rows : trades.rows[i] = t
    BY <2>1, <2>5 DEF RowsFit, Reaches, Shows
  <2> QED BY <2>4, <2>5
<1> QED BY <1>1, <1>2, <1>3, PTL DEF ScreenSpec
=============================================================================
