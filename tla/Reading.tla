------------------------------- MODULE Reading -------------------------------
(***************************************************************************)
(* What a reading of the ledger may pool (scripts/expectancy.ts over        *)
(* signals/contract.ts): closed trips are collapsed to one event for every  *)
(* outlook and exit policy, events are grouped into blocks of one feed       *)
(* regime, and the newest block is refused when the feed's contract broke or *)
(* the configuration moved twice inside its window.                          *)
(***************************************************************************)
EXTENDS Naturals, Sequences, FiniteSets, FiniteSetsExt

CONSTANTS
  Followed,          \* the stable outlooks
  Published,         \* what one poll may hold: sets of series [keys, words, parts]
  RegimeStarts,      \* the instants FEED_REGIMES dates
  EnoughEvents,      \* SAMPLE_FLOOR
  LastInstant, MaxPolls, MaxTrips   \* bounds

ASSUME ReadingAssumption == RegimeStarts \subseteq Nat /\ EnoughEvents \in Nat

VARIABLES
  readingNow,
  pollLog,       \* the archive: [at, series]
  trips,         \* the ledger's intents: [ref, hold, opened, closed, poll]; closed 0 while it runs
  configEvents   \* the instants at which a boot found another configuration

readingVars == <<readingNow, pollLog, trips, configEvents>>

ReadingInit == readingNow = 0 /\ pollLog = <<>> /\ trips = {} /\ configEvents = {}

Passes == readingNow < LastInstant /\ readingNow' = readingNow + 1

Running == {t \in trips : t.closed = 0}

Recorded ==
  /\ Passes /\ Len(pollLog) < MaxPolls
  /\ \E s \in Published : pollLog' = Append(pollLog, [at |-> readingNow', series |-> s])
  /\ UNCHANGED <<trips, configEvents>>

\* An entry, or a re-entry after a close, decided on the newest poll under the account's own policy.
Entered ==
  /\ Passes /\ Cardinality(trips) < MaxTrips
  /\ pollLog # <<>> /\ pollLog[Len(pollLog)].series # {}
  /\ \E o \in Followed, hold \in BOOLEAN :
       /\ \A t \in Running : t.ref # o
       /\ trips' = trips \cup {[ref |-> o, hold |-> hold, opened |-> readingNow', closed |-> 0, poll |-> Len(pollLog)]}
  /\ UNCHANGED <<pollLog, configEvents>>

Left ==
  /\ Passes
  /\ \E t \in Running : trips' = (trips \ {t}) \cup {[t EXCEPT !.closed = readingNow']}
  /\ UNCHANGED <<pollLog, configEvents>>

BootedAnew == Passes /\ configEvents' = configEvents \cup {readingNow'} /\ UNCHANGED <<pollLog, trips>>

ReadingNext == Recorded \/ Entered \/ Left \/ BootedAnew
ReadingSpec == ReadingInit /\ [][ReadingNext]_readingVars

-----------------------------------------------------------------------------
(* The contract of the feed. *)

Fields == {"keys", "words", "parts"}

\* Every key, every contract word and every id length seen on any series of a poll.
ContractOf(series) == [f \in Fields |-> UNION {s[f] : s \in series}]

DiffContract(prev, next) ==
  {<<f, "+">> : f \in {g \in Fields : next[g] \ prev[g] # {}}}
    \cup {<<f, "-">> : f \in {g \in Fields : prev[g] \ next[g] # {}}}

\* Mutant: a change is additive as soon as a key arrives.
Additive_Any(lines) == lines = {} \/ <<"keys", "+">> \in lines

\* Keys arriving and nothing else.
Additive(lines) == lines \subseteq {<<"keys", "+">>}

\* The polls of a window that held anything, and the lines of every change from one of them to the next.
HeldIn(from, to) == {i \in DOMAIN pollLog : from <= pollLog[i].at /\ pollLog[i].at <= to /\ pollLog[i].series # {}}
Seen(i) == ContractOf(pollLog[i].series)
ChangesAlong(held) ==
  LET inTurn == {p \in held \X held : p[1] < p[2] /\ ~\E k \in held : p[1] < k /\ k < p[2]}
  IN {DiffContract(Seen(p[1]), Seen(p[2])) : p \in {q \in inTurn : Seen(q[1]) # Seen(q[2])}}

BreakingSpan(from, to) == {lines \in ChangesAlong(HeldIn(from, to)) : ~Additive(lines)}

-----------------------------------------------------------------------------
(* The reading. *)

\* The row in force: the last one begun, or the first.
RegimeAt(at) ==
  LET begun == {r \in RegimeStarts : r <= at}
  IN IF begun = {} THEN Min(RegimeStarts) ELSE Max(begun)

\* One event for every outlook and policy, dated by the first of its trips.
FirstTrips ==
  LET done == trips \ Running
  IN {t \in done : \A u \in done : u.ref = t.ref /\ u.hold = t.hold => t.opened <= u.opened}

SameBlock(t, u) == RegimeAt(t.opened) = RegimeAt(u.opened) /\ t.hold = u.hold

\* The block of the most recently opened event.
HeadBlock ==
  {t \in FirstTrips : \E u \in FirstTrips : (\A v \in FirstTrips : v.opened <= u.opened) /\ SameBlock(t, u)}

WindowFrom == Min({t.opened : t \in HeadBlock})
WindowTo == Max({t.closed : t \in HeadBlock})

ConfigsInside == {c \in configEvents : WindowFrom <= c /\ c <= WindowTo}

Scoreable(changed) == Cardinality(changed) <= 1

Decision ==
  IF HeadBlock = {}                                   THEN "no trades"
  ELSE IF BreakingSpan(WindowFrom, WindowTo) # {}     THEN "two feeds"
  ELSE IF ~Scoreable(ConfigsInside)                   THEN "two desks"
  ELSE IF Cardinality(HeadBlock) < EnoughEvents       THEN "too small"
  ELSE "scored"

-----------------------------------------------------------------------------
(* The head block is of one feed: none of its events was decided on a poll   *)
(* that had broken with one the window already held, and between no two of   *)
(* them had the configuration changed twice.                                 *)
BlockIsOneFeed ==
  /\ \A t \in HeadBlock, i \in DOMAIN pollLog :
       WindowFrom <= pollLog[i].at /\ i < t.poll /\ pollLog[i].series # {} =>
         /\ Seen(i).keys \subseteq Seen(t.poll).keys
         /\ Seen(i).words = Seen(t.poll).words /\ Seen(i).parts = Seen(t.poll).parts
  /\ \A t, u \in HeadBlock : Cardinality({c \in configEvents : t.opened <= c /\ c <= u.opened}) <= 1

(* What expectancy promises of the number a risk fraction may be moved by    *)
(* ("a homogeneous block", expectancy.ts): a block it scores is of one feed. *)
(* A break at the poll the window opens on, and trips that are not the first *)
(* of their event, are outside what it looks at.                             *)
ReadingIsOneFeed == Decision \in {"too small", "scored"} => BlockIsOneFeed
=============================================================================
