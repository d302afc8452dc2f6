-------------------------------- MODULE Sigma --------------------------------
(***************************************************************************)
(* The watch on the feed's own volatility estimate (ops/feed-watch.ts over *)
(* scripts/feed-sigma.ts): every day of the archive is scored against a    *)
(* baseline window, over the pairs present on every day, and the alarm is  *)
(* raised when the newest whole days are outside a band.  Polls arrive,    *)
(* lack pairs or do not arrive; a day passes.                              *)
(***************************************************************************)
EXTENDS Naturals, Sequences, FiniteSets

CONSTANTS
  Pairs,                  \* asset and anchor
  Estimates,              \* what one poll may hold: [Pairs -> sigma_total], 0 when it is not there
  BaselineTo,             \* the last day of the baseline
  MinBaselineDays, SustainedDays,
  Low, High,              \* the band, in hundredths
  LastDay,                \* bound
  PollsOn                 \* bound: the polls that may be kept on each day

ASSUME BandAssumption == Low \in 1..100 /\ High \in Nat /\ High >= 100 /\ SustainedDays \in Nat \ {0}
ASSUME EstimatesAssumption == IsFiniteSet(Pairs) /\ Estimates \subseteq [Pairs -> Nat]
ASSUME CalendarAssumption == BaselineTo \in Nat /\ LastDay \in Nat

VARIABLES
  dayNow,
  pollsKept    \* pollsKept[d]: the polls of day d

sigmaVars == <<dayNow, pollsKept>>

SigmaInit == dayNow = 1 /\ pollsKept = [d \in 1..LastDay |-> <<>>]

PollIsKept ==
  /\ Len(pollsKept[dayNow]) < PollsOn[dayNow]
  /\ \E e \in Estimates : pollsKept' = [pollsKept EXCEPT ![dayNow] = Append(@, e)]
  /\ UNCHANGED dayNow

MidnightPasses == dayNow < LastDay /\ dayNow' = dayNow + 1 /\ UNCHANGED pollsKept

SigmaNext == PollIsKept \/ MidnightPasses
SigmaSpec == SigmaInit /\ [][SigmaNext]_sigmaVars

-----------------------------------------------------------------------------
(* Ratios of naturals; one over nothing is no number, and compares as false. *)

NoNumber == <<0, 0>>
IsNumber(r) == r[2] # 0
Smaller(a, b) == a[1] * b[2] < b[1] * a[2]
Midway(a, b) == <<a[1] * b[2] + b[1] * a[2], 2 * a[2] * b[2]>>

\* The k-th value in order: fewer than k are below it, and k or more not above.
Ranked(f, k) ==
  LET x == CHOOSE x \in DOMAIN f : /\ Cardinality({y \in DOMAIN f : Smaller(f[y], f[x])}) < k
                                   /\ Cardinality({y \in DOMAIN f : ~Smaller(f[x], f[y])}) >= k
  IN f[x]

Median(f) ==
  LET n == Cardinality(DOMAIN f)
      m == n \div 2
  IN CASE n = 0     -> NoNumber
       [] n % 2 = 1 -> Ranked(f, m + 1)
       [] OTHER     -> Midway(Ranked(f, m), Ranked(f, m + 1))

-----------------------------------------------------------------------------
(* The statistic. *)

AllDays == {d \in DOMAIN pollsKept : pollsKept[d] # <<>>}
BaseDays == AllDays \cap 1..BaselineTo
Whole == {d \in AllDays : d < dayNow}

\* A day's value of a pair, over its polls: zero and missing estimates are left out.
DailyByPair(d, p) ==
  LET held == {i \in DOMAIN pollsKept[d] : pollsKept[d][i][p] > 0}
  IN Median([i \in held |-> <<pollsKept[d][i][p], 1>>])

FixedBasket == {p \in Pairs : \A d \in AllDays : IsNumber(DailyByPair(d, p))}

PairOver(p, days) ==
  LET held == {d \in days : IsNumber(DailyByPair(d, p))}
  IN Median([d \in held |-> DailyByPair(d, p)])

\* What a pair reads over some days against its own baseline.
PairRatio(p, days) ==
  LET w == PairOver(p, days)
      b == PairOver(p, BaseDays)
  IN IF IsNumber(w) /\ IsNumber(b) THEN <<w[1] * b[2], w[2] * b[1]>> ELSE NoNumber

Elevation(basket, days) ==
  LET read == {p \in basket : IsNumber(PairRatio(p, days))}
  IN Median([p \in read |-> PairRatio(p, days)])

Below(r) == IsNumber(r) /\ 100 * r[1] < Low * r[2]
Above(r) == IsNumber(r) /\ 100 * r[1] > High * r[2]
OutsideBand(r) == Below(r) \/ Above(r)

DaysOutside == LET basket == FixedBasket IN {d \in Whole : OutsideBand(Elevation(basket, {d}))}

\* Mutant: every whole day outside counts, not the ones at the end.
RunOutside_Anywhere == Cardinality(DaysOutside)

\* The whole days after the last one inside.
RunOutside ==
  LET inside == Whole \ DaysOutside
  IN Cardinality({d \in Whole : \A e \in inside : e < d})

Refuses == Cardinality(BaseDays) < MinBaselineDays \/ Whole = {}
Firing == ~Refuses /\ RunOutside >= SustainedDays

-----------------------------------------------------------------------------
(* The alarm says that the feed was revised and stayed so (FEED_SIGMA_WATCH, *)
(* feed-watch.ts): it is up only if on each of the newest whole days at     *)
(* least half of the pairs that no day of the archive lacks left the band,  *)
(* on one side, against their own baseline; and it is up if all of them did. *)
(* Pairs that come and go, and the day still running, neither raise it nor  *)
(* hold it down.                                                           *)
AlarmIsAMajority ==
  LET steady == {p \in Pairs : \A d \in AllDays : \E i \in DOMAIN pollsKept[d] : pollsKept[d][i][p] > 0}
      newest == {d \in Whole : Cardinality({e \in Whole : e >= d}) <= SustainedDays}
      up(d) == {p \in steady : Above(PairRatio(p, {d}))}
      down(d) == {p \in steady : Below(PairRatio(p, {d}))}
  IN /\ Firing =>
          /\ steady # {} /\ Cardinality(newest) = SustainedDays
          /\ \A d \in newest : \/ 2 * Cardinality(up(d)) >= Cardinality(steady)
                               \/ 2 * Cardinality(down(d)) >= Cardinality(steady)
     /\ /\ ~Refuses /\ steady # {} /\ Cardinality(newest) = SustainedDays
        /\ (\A d \in newest : up(d) = steady) \/ (\A d \in newest : down(d) = steady)
        => Firing
=============================================================================
