------------------------------- MODULE Visitor ------------------------------
(***************************************************************************)
(* The public door of the web tier: a wallet proves itself by signing a    *)
(* challenge, a browser then acts for it under a session cookie, and the   *)
(* wallet links an X account and claims a post.  Verifying a signature,    *)
(* reading a request's body and asking X are awaited, so any number of     *)
(* requests of one wallet overlap.  A look at X is paid for, and each      *)
(* wallet has an allowance of them a UTC day.                              *)
(***************************************************************************)
EXTENDS Naturals, FiniteSets

CONSTANTS
  Wallets, Browsers, XUsers,
  ChallengeTTL, SessionTTL, PkceTTL, \* ticks
  DayTicks,                          \* ticks in a UTC day
  LooksPerDay,                       \* X_LINK_ATTEMPTS_PER_DAY
  MaxTick, MaxNonces, MaxWaiting     \* bounds: clock, challenges, calls in flight

ASSUME LooksAssumption == LooksPerDay \in Nat

VARIABLES
  tick, nonces,
  challenges,  \* login_challenges
  verifying,   \* logins waiting for their signature to be verified
  opened,      \* every session ever created (history)
  table,       \* the rows of `sessions`, a part of opened
  jar,         \* the session cookie each browser holds
  pkce,        \* when each browser's PKCE cookie was set, or Never
  link,        \* the X account on each wallet's row of queue_entries
  claimed,     \* the wallets with posted_at set
  attempts,    \* x_link_attempts
  calls,       \* requests waiting on the network
  paid         \* looks at X paid for today, by wallet (history)

visitorVars == <<tick, nonces, challenges, verifying, opened, table, jar, pkce, link, claimed,
                 attempts, calls, paid>>

Never == 0
NoUser == "unlinked"
NoCookie == 0
UTCDayOf(t) == t \div DayTicks

VisitorInit ==
  /\ tick = 1 /\ nonces = 0
  /\ challenges = {} /\ verifying = {} /\ opened = {} /\ table = {} /\ calls = {}
  /\ jar = [b \in Browsers |-> NoCookie] /\ pkce = [b \in Browsers |-> Never]
  /\ link = [w \in Wallets |-> NoUser] /\ claimed = {}
  /\ attempts = [w \in Wallets |-> [day |-> 0, n |-> 0]]
  /\ paid = [w \in Wallets |-> 0]

-----------------------------------------------------------------------------
(* Signing in. *)

IssueChallenge(w) ==
  /\ nonces < MaxNonces /\ nonces' = nonces + 1
  /\ challenges' = challenges \cup {[nonce |-> nonces + 1, who |-> w, at |-> tick]}
  /\ UNCHANGED <<tick, verifying, opened, table, jar, pkce, link, claimed, attempts, calls, paid>>

\* A login deletes its challenge as it reads it, then judges age and address.
TakenBy(c, b, w) == [nonce |-> c.nonce, who |-> w, browser |-> b, at |-> tick]
Acceptable(c, w) == tick - c.at <= ChallengeTTL /\ c.who = w

LoginBegins_TakesLater ==
  \E c \in challenges, b \in Browsers, w \in Wallets :
    /\ Cardinality(verifying) < MaxWaiting
    /\ verifying' = verifying \cup IF Acceptable(c, w) THEN {TakenBy(c, b, w)} ELSE {}
    /\ UNCHANGED <<tick, nonces, challenges, opened, table, jar, pkce, link, claimed, attempts, calls, paid>>

LoginBegins ==
  \E c \in challenges, b \in Browsers, w \in Wallets :
    /\ Cardinality(verifying) < MaxWaiting
    /\ challenges' = challenges \ {c}
    /\ verifying' = verifying \cup IF Acceptable(c, w) THEN {TakenBy(c, b, w)} ELSE {}
    /\ UNCHANGED <<tick, nonces, opened, table, jar, pkce, link, claimed, attempts, calls, paid>>

\* The session's life counts from when the login began.
SessionFor(v) ==
  [id |-> Cardinality(opened) + 1, nonce |-> v.nonce, who |-> v.who, until |-> v.at + SessionTTL]

LoginEnds ==
  \E v \in verifying :
    /\ verifying' = verifying \ {v}
    /\ \/ UNCHANGED <<opened, table, jar>> \* the signature is not that wallet's
       \/ /\ opened' = opened \cup {SessionFor(v)} /\ table' = table \cup {SessionFor(v)}
          /\ jar' = [jar EXCEPT ![v.browser] = SessionFor(v).id]
    /\ UNCHANGED <<tick, nonces, challenges, pkce, link, claimed, attempts, calls, paid>>

HeldBy(b) == {s \in table : s.id = jar[b]}
Acts(b, w) == \E s \in HeldBy(b) : s.who = w /\ s.until > tick

\* A request under an expired session deletes the row and is refused.
ExpiredIsTurnedAway(b) ==
  /\ \E s \in HeldBy(b) : s.until <= tick
  /\ table' = table \ HeldBy(b)
  /\ UNCHANGED <<tick, nonces, challenges, verifying, opened, jar, pkce, link, claimed, attempts, calls, paid>>

Logout(b) ==
  /\ jar[b] # NoCookie /\ jar' = [jar EXCEPT ![b] = NoCookie]
  /\ table' = table \ HeldBy(b)
  /\ UNCHANGED <<tick, nonces, challenges, verifying, opened, pkce, link, claimed, attempts, calls, paid>>

Sweep ==
  /\ table' = {s \in table : s.until > tick}
  /\ challenges' = {c \in challenges : c.at > tick - ChallengeTTL}
  /\ UNCHANGED <<tick, nonces, verifying, opened, jar, pkce, link, claimed, attempts, calls, paid>>

-----------------------------------------------------------------------------
(* The X account of a wallet. *)

AttemptsToday(w) == IF attempts[w].day = UTCDayOf(tick) THEN attempts[w].n ELSE 0
CanSpendXCall(w) == AttemptsToday(w) < LooksPerDay
CanAttemptXLink(w) == link[w] = NoUser /\ CanSpendXCall(w)
BumpXAttempt(w) == attempts' = [attempts EXCEPT ![w] = [day |-> UTCDayOf(tick), n |-> AttemptsToday(w) + 1]]
Pays(w) == paid' = [paid EXCEPT ![w] = @ + 1]
Room == Cardinality(calls) < MaxWaiting

XStart(b, w) ==
  /\ Acts(b, w) /\ CanAttemptXLink(w)
  /\ pkce' = [pkce EXCEPT ![b] = tick]
  /\ UNCHANGED <<tick, nonces, challenges, verifying, opened, table, jar, link, claimed, attempts, calls, paid>>

HasPkce(b) == pkce[b] # Never /\ tick < pkce[b] + PkceTTL

\* Declined, without a session, out of turn or over the allowance.
CallbackIsTurnedBack(b) ==
  /\ HasPkce(b) /\ pkce' = [pkce EXCEPT ![b] = Never]
  /\ UNCHANGED <<tick, nonces, challenges, verifying, opened, table, jar, link, claimed, attempts, calls, paid>>

\* The cookie outlives the call, and the page it came from can be used again.
CallbackBegins(b, w) ==
  /\ Acts(b, w) /\ HasPkce(b) /\ CanAttemptXLink(w) /\ Room
  /\ BumpXAttempt(w) /\ Pays(w)
  /\ \E u \in XUsers : calls' = calls \cup {[kind |-> "link", who |-> w, browser |-> b, user |-> u]}
  /\ UNCHANGED <<tick, nonces, challenges, verifying, opened, table, jar, pkce, link, claimed>>

\* X answers; an account another wallet holds is refused.
Taken(u, w) == \E other \in Wallets \ {w} : link[other] = u

CallbackEnds ==
  \E c \in calls :
    /\ c.kind = "link" /\ calls' = calls \ {c}
    /\ pkce' = [pkce EXCEPT ![c.browser] = Never]
    /\ \/ UNCHANGED link \* X could not be asked
       \/ link' = IF Taken(c.user, c.who) THEN link ELSE [link EXCEPT ![c.who] = c.user]
    /\ UNCHANGED <<tick, nonces, challenges, verifying, opened, table, jar, claimed, attempts, paid>>

\* A claimed post: the row is read before the body, the allowance after it.
PostArrives(b, w) ==
  /\ Acts(b, w) /\ link[w] # NoUser /\ Room
  /\ calls' = calls \cup {[kind |-> "body", who |-> w, browser |-> b, user |-> link[w]]}
  /\ UNCHANGED <<tick, nonces, challenges, verifying, opened, table, jar, pkce, link, claimed, attempts, paid>>

PostIsLookedUp ==
  \E c \in calls :
    /\ c.kind = "body"
    /\ IF CanSpendXCall(c.who)
       THEN /\ calls' = (calls \ {c}) \cup {[c EXCEPT !.kind = "post"]}
            /\ BumpXAttempt(c.who) /\ Pays(c.who)
       ELSE calls' = calls \ {c} /\ UNCHANGED <<attempts, paid>>
    /\ UNCHANGED <<tick, nonces, challenges, verifying, opened, table, jar, pkce, link, claimed>>

PostEnds ==
  \E c \in calls :
    /\ c.kind = "post" /\ calls' = calls \ {c}
    /\ claimed' \in {claimed, claimed \cup {c.who}}
    /\ UNCHANGED <<tick, nonces, challenges, verifying, opened, table, jar, pkce, link, attempts, paid>>

TickGoes ==
  /\ tick < MaxTick /\ tick' = tick + 1
  /\ paid' = IF UTCDayOf(tick + 1) = UTCDayOf(tick) THEN paid ELSE [w \in Wallets |-> 0]
  /\ UNCHANGED <<nonces, challenges, verifying, opened, table, jar, pkce, link, claimed, attempts, calls>>

VisitorNext ==
  \/ \E w \in Wallets : IssueChallenge(w)
  \/ LoginBegins \/ LoginEnds \/ Sweep \/ CallbackEnds \/ PostIsLookedUp \/ PostEnds \/ TickGoes
  \/ \E b \in Browsers :
       \/ ExpiredIsTurnedAway(b) \/ Logout(b) \/ CallbackIsTurnedBack(b)
       \/ \E w \in Wallets : XStart(b, w) \/ CallbackBegins(b, w) \/ PostArrives(b, w)

VisitorSpec == VisitorInit /\ [][VisitorNext]_visitorVars

-----------------------------------------------------------------------------
(* A challenge opens at most one session, for the wallet it was issued to,
   however many logins present it at once and however the answers overlap:
   "consumed as it is read".  A nonce stays with the wallet it was made for. *)
ChallengesAreSpentOnce ==
  /\ \A s, t \in opened : s.nonce = t.nonce => s = t
  /\ \A s \in opened, c \in challenges \cup verifying : s.nonce # c.nonce

(* A wallet never costs more looks at X in a UTC day than its allowance, with
   callbacks and claimed posts of several browsers in flight over one count. *)
LooksStayInBudget == \A w \in Wallets : paid[w] <= LooksPerDay

(* What the doors hand out is used once (web/sessions.ts): a challenge, and each
   of the day's looks at X, however many requests hold it at the same time. *)
NothingIsSpentTwice == ChallengesAreSpentOnce /\ LooksStayInBudget
=============================================================================
