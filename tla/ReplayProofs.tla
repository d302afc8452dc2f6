---------------------------- MODULE ReplayProofs ----------------------------
(***************************************************************************)
(* The simulator answers for the desk, whatever the outlooks, the candles, *)
(* the polls, the anchors, the stop's distance and the length of a day.    *)
(*                                                                         *)
(* An archive grows by one bar and one poll.  What the two passes found in *)
(* the shorter one they find in the longer: a trade that was over as it    *)
(* was, one that was running ended at the new bar or running on; and they  *)
(* find, for the poll that has a fill now, what the desk let in.  So the   *)
(* walk of the whole archive is the desk's, bar after bar; and what is     *)
(* derived of it - a summary, sums, a budget, a halt - is what its         *)
(* trades say.                                                             *)
(***************************************************************************)
EXTENDS Replay, SequenceTheorems, Extrema

-----------------------------------------------------------------------------
(* One poll, and the walk over the polls. *)

(* An outlook has a coin, a side, a target and an anchor.                  *)
LEMMA OutlooksAre ==
  /\ Len(Outlooks) \in Nat /\ Ids = 1..Len(Outlooks)
  /\ \A i \in Ids : Outlooks[i].coin \in Coins /\ Outlooks[i].target \in Int /\ Outlooks[i].anchor \in Nat
<1>1. /\ Len(Outlooks) \in Nat
      /\ \A i \in 1..Len(Outlooks) : Outlooks[i] \in [coin : STRING, side : {"long", "short"}, target : Int, anchor : Nat]
  BY OutlooksAssumption, ElementOfSeq, LenProperties
<1>2. \A i \in 1..Len(Outlooks) : Outlooks[i].target \in Int /\ Outlooks[i].anchor \in Nat
  <2> SUFFICES ASSUME NEW i \in 1..Len(Outlooks) PROVE Outlooks[i].target \in Int /\ Outlooks[i].anchor \in Nat
    OBVIOUS
  <2> QED BY <1>1
<1> QED BY <1>1, <1>2 DEF Ids, Coins

-----------------------------------------------------------------------------
(* A poll lets in the first of each coin that is not refused.              *)
ElseTaken(candles, polls, trades, k) ==
  {i \in Ids : IsChance(polls, i, k) /\ ~Refused(trades, i, k) /\ Simulate(candles, polls, i, k) # Nothing}
Firsts(S) == {i \in S : \A j \in S : Outlooks[j].coin = Outlooks[i].coin => i <= j}
TakenAt(candles, polls, trades, k) == {Simulate(candles, polls, i, k) : i \in Firsts(ElseTaken(candles, polls, trades, k))}

(* The walk over the outlooks of one poll is a function.                   *)
LEMMA PollWalkExists ==
  ASSUME NEW b, NEW p, NEW W, NEW k, NEW n \in Nat
  PROVE  \E g : g = [i \in 0..n |-> IF i = 0 THEN W ELSE Considers(b, p, g[i - 1], i, k)]
<1> DEFINE Fine(m) == \E g : \A i \in 0..m : g[i] = IF i = 0 THEN W ELSE Considers(b, p, g[i - 1], i, k)
           Bad == {m \in Nat : ~Fine(m)}
<1>1. Fine(0)
  <2> DEFINE g == [i \in 0..0 |-> W]
  <2>1. \A i \in 0..0 : i = 0 /\ g[i] = W
    OBVIOUS
  <2> HIDE DEF g
  <2>2. \A i \in 0..0 : g[i] = IF i = 0 THEN W ELSE Considers(b, p, g[i - 1], i, k)
    BY <2>1
  <2> QED BY <2>2
<1>2. ASSUME NEW m \in Nat, Fine(m) PROVE Fine(m + 1)
  <2>1. PICK g : \A i \in 0..m : g[i] = IF i = 0 THEN W ELSE Considers(b, p, g[i - 1], i, k)
    BY <1>2
  <2> DEFINE h == [i \in 0..m + 1 |-> IF i = m + 1 THEN Considers(b, p, g[m], m + 1, k) ELSE g[i]]
  <2>2. /\ \A i \in 0..m : h[i] = g[i]
        /\ h[m + 1] = Considers(b, p, g[m], m + 1, k)
    OBVIOUS
  <2> HIDE DEF h
  <2>3. ASSUME NEW i \in 0..m + 1 PROVE h[i] = IF i = 0 THEN W ELSE Considers(b, p, h[i - 1], i, k)
    <3>1. CASE i = 0
      BY <2>1, <2>2, <3>1
    <3>2. CASE i \in 1..m
      <4>1. i - 1 \in 0..m /\ i \in 0..m /\ i # 0
        BY <3>2
      <4> QED BY <2>1, <2>2, <4>1
    <3>3. CASE i = m + 1
      <4>1. i - 1 = m /\ m \in 0..m /\ i # 0
        BY <3>3
      <4> QED BY <2>2, <3>3, <4>1
    <3> QED BY <3>1, <3>2, <3>3
  <2> QED BY <2>3
<1> HIDE DEF Fine
<1>3. ASSUME Bad # {} PROVE FALSE
  <2>1. PICK m \in Bad : \A l \in Bad : m <= l
    <3>1. Bad \in SUBSET Nat
      OBVIOUS
    <3> HIDE DEF Bad
    <3> QED BY <1>3, <3>1, LeastNatural
  <2>2. m # 0 /\ m - 1 \in Nat
    BY <1>1, <2>1
  <2>3. Fine(m - 1)
    BY <2>1, <2>2
  <2>4. Fine(m - 1 + 1)
    BY <1>2, <2>2, <2>3
  <2> QED BY <2>1, <2>4
<1>4. Fine(n)
  BY <1>3
<1>5. PICK g : \A i \in 0..n : g[i] = IF i = 0 THEN W ELSE Considers(b, p, g[i - 1], i, k)
  BY <1>4 DEF Fine
<1> DEFINE h == [i \in 0..n |-> g[i]]
<1>6. \A i \in 0..n : h[i] = g[i]
  OBVIOUS
<1>7. h = [i \in 0..n |-> h[i]]
  OBVIOUS
<1> HIDE DEF h
<1>8. \A i \in 0..n : h[i] = IF i = 0 THEN W ELSE Considers(b, p, h[i - 1], i, k)
  <2> SUFFICES ASSUME NEW i \in 0..n PROVE h[i] = IF i = 0 THEN W ELSE Considers(b, p, h[i - 1], i, k)
    OBVIOUS
  <2>1. CASE i = 0
    BY <1>5, <1>6, <2>1
  <2>2. CASE i # 0
    <3>1. i - 1 \in 0..n
      BY <2>2
    <3> QED BY <1>5, <1>6, <2>2, <3>1
  <2> QED BY <2>1, <2>2
<1>9. h = [i \in 0..n |-> IF i = 0 THEN W ELSE Considers(b, p, h[i - 1], i, k)]
  BY <1>7, <1>8
<1> QED BY <1>9

(* And it says, for every outlook, what considering it made of the trades. *)
LEMMA PollWalkIs ==
  ASSUME NEW b, NEW p, NEW W, NEW k
  PROVE  \E g : /\ g[0] = W /\ AtPoll(b, p, W, k) = g[Len(Outlooks)]
                /\ \A i \in Ids : g[i] = Considers(b, p, g[i - 1], i, k)
<1> DEFINE g == CHOOSE h : h = [i \in 0..Len(Outlooks) |-> IF i = 0 THEN W ELSE Considers(b, p, h[i - 1], i, k)]
<1>1. g = [i \in 0..Len(Outlooks) |-> IF i = 0 THEN W ELSE Considers(b, p, g[i - 1], i, k)]
  BY OutlooksAre, PollWalkExists
<1>2. AtPoll(b, p, W, k) = g[Len(Outlooks)]
  BY DEF AtPoll
<1> HIDE DEF g
<1>3. \A i \in 0..Len(Outlooks) : g[i] = IF i = 0 THEN W ELSE Considers(b, p, g[i - 1], i, k)
  BY <1>1
<1>4. g[0] = W /\ \A i \in Ids : g[i] = Considers(b, p, g[i - 1], i, k)
  <2>1. 0 \in 0..Len(Outlooks) /\ \A i \in Ids : i \in 0..Len(Outlooks) /\ i # 0
    BY OutlooksAre
  <2> QED BY <1>3, <2>1
<1> QED BY <1>2, <1>4

(* A refusal is by one of the trades.                                      *)
LEMMA RefusedByEither ==
  ASSUME NEW V, NEW W, NEW i, NEW k
  PROVE  Refused(V \cup W, i, k) <=> Refused(V, i, k) \/ Refused(W, i, k)
BY DEF Refused

(* Whoever is let in holds its coin for the rest of the poll.              *)
LEMMA PollTakes ==
  ASSUME NEW b, NEW p, NEW W, NEW k \in Nat,
         \A i \in Ids : LET t == Simulate(b, p, i, k)
                         IN  IsChance(p, i, k) /\ t # Nothing => t.outlook = i /\ t.closes \in Nat /\ k <= t.closes
  PROVE  AtPoll(b, p, W, k) = W \cup TakenAt(b, p, W, k)
<1> DEFINE E == ElseTaken(b, p, W, k)
           sim(i) == Simulate(b, p, i, k)
           Upto(n) == {sim(i) : i \in {j \in Firsts(E) : j <= n}}
<1>1. PICK g : /\ g[0] = W /\ AtPoll(b, p, W, k) = g[Len(Outlooks)]
               /\ \A i \in Ids : g[i] = Considers(b, p, g[i - 1], i, k)
  BY PollWalkIs
<1>2. Firsts(E) \subseteq E /\ E \subseteq Ids /\ Ids \subseteq Nat \ {0}
  <2>1. Firsts(E) \subseteq E
    BY DEF Firsts
  <2>2. E \subseteq Ids /\ Ids \subseteq Nat \ {0}
    BY OutlooksAre DEF ElseTaken
  <2> QED BY <2>1, <2>2
<1>a. \A j \in Firsts(E) : j \in Nat /\ j # 0 /\ j \in Ids /\ j <= Len(Outlooks)
  BY <1>2, OutlooksAre
<1>b. \A j \in E : j \in Nat
  BY <1>2
<1>3. \A i \in E : sim(i).outlook = i /\ sim(i).closes \in Nat /\ k <= sim(i).closes
  <2> SUFFICES ASSUME NEW i \in E PROVE sim(i).outlook = i /\ sim(i).closes \in Nat /\ k <= sim(i).closes
    OBVIOUS
  <2>1. i \in Ids /\ IsChance(p, i, k) /\ sim(i) # Nothing
    BY DEF ElseTaken
  <2> QED BY <2>1
<1>4. ASSUME NEW n \in Nat, NEW i \in Ids
      PROVE  Refused(Upto(n), i, k) <=> \E j \in Firsts(E) : j <= n /\ Outlooks[j].coin = Outlooks[i].coin
  <2>1. ASSUME Refused(Upto(n), i, k)
        PROVE  \E j \in Firsts(E) : j <= n /\ Outlooks[j].coin = Outlooks[i].coin
    <3>1. PICK t \in Upto(n) : Outlooks[t.outlook].coin = Outlooks[i].coin
      BY <2>1 DEF Refused
    <3>2. PICK j \in Firsts(E) : j <= n /\ t = sim(j)
      BY <3>1
    <3>3. t.outlook = j
      BY <1>2, <1>3, <3>2
    <3> QED BY <3>1, <3>2, <3>3
  <2>2. ASSUME NEW j \in Firsts(E), j <= n, Outlooks[j].coin = Outlooks[i].coin
        PROVE  Refused(Upto(n), i, k)
    <3>1. sim(j) \in Upto(n)
      BY <2>2
    <3>2. sim(j).outlook = j /\ k <= sim(j).closes
      BY <1>2, <1>3
    <3> HIDE DEF Upto
    <3> QED BY <2>2, <3>1, <3>2 DEF Refused
  <2> QED BY <2>1, <2>2
<1>5. ASSUME NEW n \in Ids, g[n - 1] = W \cup Upto(n - 1) PROVE g[n] = W \cup Upto(n)
  <2>1. n \in Nat /\ n - 1 \in Nat
    BY <1>2
  <2>2. g[n] = Considers(b, p, g[n - 1], n, k)
    BY <1>1
  <2>3. Refused(g[n - 1], n, k) <=> Refused(W, n, k) \/ \E j \in Firsts(E) : j < n /\ Outlooks[j].coin = Outlooks[n].coin
    <3>1. Refused(W \cup Upto(n - 1), n, k) <=> Refused(W, n, k) \/ Refused(Upto(n - 1), n, k)
      <4> HIDE DEF Upto
      <4> QED BY RefusedByEither
    <3>2. Refused(Upto(n - 1), n, k) <=> \E j \in Firsts(E) : j <= n - 1 /\ Outlooks[j].coin = Outlooks[n].coin
      BY <1>4, <2>1
    <3>3. \A j \in Firsts(E) : j <= n - 1 <=> j < n
      <4> SUFFICES ASSUME NEW j \in Firsts(E) PROVE j <= n - 1 <=> j < n
        OBVIOUS
      <4>1. j \in Nat
        BY <1>2
      <4> QED BY <2>1, <4>1
    <3> QED BY <1>5, <3>1, <3>2, <3>3
  <2>4. CASE n \in Firsts(E)
    <3>1. n \in E /\ \A j \in E : Outlooks[j].coin = Outlooks[n].coin => n <= j
      BY <2>4 DEF Firsts
    <3>2. ~\E j \in Firsts(E) : j < n /\ Outlooks[j].coin = Outlooks[n].coin
      <4> SUFFICES ASSUME NEW j \in Firsts(E), j < n, Outlooks[j].coin = Outlooks[n].coin PROVE FALSE
        OBVIOUS
      <4>1. j \in E /\ j \in Nat /\ n <= j
        BY <1>2, <3>1
      <4> QED BY <2>1, <4>1
    <3>3. g[n] = g[n - 1] \cup {sim(n)}
      BY <2>2, <2>3, <3>1, <3>2 DEF ElseTaken, Considers
    <3>4. Upto(n) = Upto(n - 1) \cup {sim(n)}
      <4> DEFINE F == Firsts(E)
      <4>0. \A j \in F : j \in Nat
        BY <1>a
      <4>1. {j \in F : j <= n} = {j \in F : j <= n - 1} \cup {n}
        <5> HIDE DEF F
        <5>1. n \in F
          BY <2>4 DEF F
        <5>2. \A j \in F : j <= n <=> j <= n - 1 \/ j = n
          BY <2>1, <4>0
        <5>3. n <= n
          BY <2>1
        <5> QED BY <5>1, <5>2, <5>3
      <4> QED BY <4>1
    <3> QED BY <1>5, <3>3, <3>4
  <2>5. CASE n \notin Firsts(E)
    <3>1. Upto(n) = Upto(n - 1)
      <4> DEFINE F == Firsts(E)
      <4>0. \A j \in F : j \in Nat
        BY <1>a
      <4>1. {j \in F : j <= n} = {j \in F : j <= n - 1}
        <5> HIDE DEF F
        <5>1. n \notin F
          BY <2>5 DEF F
        <5> QED BY <2>1, <4>0, <5>1
      <4> QED BY <4>1
    <3>2. g[n] = g[n - 1]
      <4>1. CASE n \notin E
        <5>1. ~IsChance(p, n, k) \/ Refused(W, n, k) \/ sim(n) = Nothing
          BY <4>1 DEF ElseTaken
        <5> QED BY <2>2, <2>3, <5>1 DEF Considers
      <4>2. CASE n \in E
        <5> DEFINE S == {j \in E : Outlooks[j].coin = Outlooks[n].coin}
        <5>1. PICK j \in S : \A l \in S : j <= l
          <6>1. S \in SUBSET Nat /\ S # {}
            BY <1>2, <4>2
          <6> HIDE DEF S
          <6> QED BY <6>1, LeastNatural
        <5>2. j \in Firsts(E)
          BY <5>1 DEF Firsts
        <5>3. j <= n /\ j # n
          BY <2>5, <4>2, <5>1, <5>2
        <5>4. j < n
          <6>1. j \in Nat
            BY <1>b, <5>1
          <6> QED BY <2>1, <5>3, <6>1
        <5>5. Refused(g[n - 1], n, k)
          BY <2>3, <5>1, <5>2, <5>4
        <5> QED BY <2>2, <5>5 DEF Considers
      <4> QED BY <4>1, <4>2
    <3> QED BY <1>5, <3>1, <3>2
  <2> QED BY <2>4, <2>5
<1> DEFINE Bad == {n \in 0..Len(Outlooks) : g[n] # W \cup Upto(n)}
<1>6. ASSUME Bad # {} PROVE FALSE
  <2>1. PICK n \in Bad : \A l \in Bad : n <= l
    <3>1. Bad \in SUBSET Nat
      BY OutlooksAre
    <3> HIDE DEF Bad
    <3> QED BY <1>6, <3>1, LeastNatural
  <2>2. n # 0
    <3>1. Upto(0) = {}
      <4>1. {j \in Firsts(E) : j <= 0} = {}
        BY <1>a
      <4> QED BY <4>1
    <3> HIDE DEF Upto
    <3>2. g[0] = W \cup Upto(0)
      BY <1>1, <3>1
    <3> QED BY <2>1, <3>2
  <2>3. n \in Ids /\ n - 1 \in 0..Len(Outlooks) /\ ~(n <= n - 1)
    BY <2>1, <2>2, OutlooksAre
  <2> HIDE DEF Upto
  <2>4. g[n - 1] = W \cup Upto(n - 1)
    BY <2>1, <2>3
  <2>5. g[n] = W \cup Upto(n)
    BY <1>5, <2>3, <2>4
  <2> QED BY <2>1, <2>5
<1>7. g[Len(Outlooks)] = W \cup Upto(Len(Outlooks))
  <2>1. Len(Outlooks) \in 0..Len(Outlooks)
    BY OutlooksAre
  <2> HIDE DEF Upto
  <2> QED BY <1>6, <2>1
<1>8. Upto(Len(Outlooks)) = TakenAt(b, p, W, k)
  <2>1. {j \in Firsts(E) : j <= Len(Outlooks)} = Firsts(E)
    BY <1>2, OutlooksAre
  <2> QED BY <2>1 DEF TakenAt
<1> QED BY <1>1, <1>7, <1>8

-----------------------------------------------------------------------------
(* The bars that end a trade. *)

(* An archive, a plan in it, and the bars that end the trade planned.      *)
IsArchive(candles, polls) ==
  candles \in Seq([lo : Int, hi : Int, close : Int]) /\ polls \in Seq(Reports) /\ Len(polls) = Len(candles)
PlanAt(candles, i, k) == Plan(i, k, candles[k].close, candles[k].close)
Fate(candles, polls, t, m) == Becomes(t, m, candles[m], polls[m])
Endings(candles, polls, t) == {m \in t.at + 1..Len(candles) : Fate(candles, polls, t, m) # "held"}
Running(t, i, k) == [plan |-> t, outlook |-> i, closes |-> k, reason |-> "horizon", resolved |-> FALSE]

(* What the bars and the polls of an archive are.                          *)
LEMMA ArchivesAre ==
  ASSUME NEW b, NEW p, IsArchive(b, p)
  PROVE  /\ Len(b) \in Nat /\ DOMAIN b = 1..Len(b)
         /\ \A k \in 1..Len(b) : /\ b[k] \in [lo : Int, hi : Int, close : Int] /\ b[k].close \in Int
                                 /\ p[k] \in Reports
                                 /\ \A i \in Ids : p[k][i].says \in Words /\ p[k][i].sigma \in Nat
<1>1. Len(b) \in Nat /\ DOMAIN b = 1..Len(b) /\ \A k \in 1..Len(b) : b[k] \in [lo : Int, hi : Int, close : Int]
  BY LenProperties, ElementOfSeq DEF IsArchive
<1>2. \A k \in 1..Len(b) : p[k] \in Reports
  BY ElementOfSeq DEF IsArchive
<1>3. \A k \in 1..Len(b) : \A i \in Ids : p[k][i].says \in Words /\ p[k][i].sigma \in Nat
  <2> SUFFICES ASSUME NEW k \in 1..Len(b), NEW i \in Ids PROVE p[k][i].says \in Words /\ p[k][i].sigma \in Nat
    OBVIOUS
  <2>1. p[k] \in [1..Len(Outlooks) -> [says : Words, sigma : Nat]]
    BY <1>2, ArchiveAssumption
  <2>2. p[k][i] \in [says : Words, sigma : Nat]
    BY <2>1, OutlooksAre
  <2> QED BY <2>2
<1>4. \A k \in 1..Len(b) : b[k].close \in Int
  <2> SUFFICES ASSUME NEW k \in 1..Len(b) PROVE b[k].close \in Int
    OBVIOUS
  <2>1. b[k] \in [lo : Int, hi : Int, close : Int]
    BY <1>1
  <2> QED BY <2>1
<1> QED BY <1>1, <1>2, <1>3, <1>4

(* The earliest of some numbers is one of them.                            *)
LEMMA EarliestIs ==
  ASSUME NEW S \in SUBSET Nat, S # {}
  PROVE  Earliest(S) \in S /\ \A j \in S : Earliest(S) <= j
BY LeastNatural DEF Earliest

(* A trade is never mistaken for none.                                     *)
LEMMA NotSimulated ==
  ASSUME NEW b, NEW p, NEW i, NEW k \in Nat \ {0}, k >= Len(b) \/ ~IsAhead(i, b[k].close)
  PROVE  Simulate(b, p, i, k) = Nothing
<1>1. FillPx(b, k) = b[k].close
  <2>1. k + 1 # 1 /\ k + 1 - 1 = k
    OBVIOUS
  <2> QED BY <2>1 DEF FillPx, OpenOf
<1> QED BY <1>1 DEF Simulate

(* The last bar a trade may run to is the first that ends it without a     *)
(* touch: the one its anchor falls in, or the poll its outlook is gone     *)
(* from before that.                                                       *)
Retired(polls, i, k) == {r \in Retirements(polls, i) : r > k}
HasLeft(R, i) == R # {} /\ Earliest(R) < Outlooks[i].anchor
LeavesBy(R, i) == IF HasLeft(R, i) THEN Earliest(R) ELSE Outlooks[i].anchor
IsGone(polls, i, m) == polls[m][i].says = "absent"

LEMMA LeavesAre ==
  ASSUME NEW b, NEW p, IsArchive(b, p), NEW i \in Ids, NEW k \in 1..Len(b), IsOffered(p[k], i, k),
         NEW R, R = Retired(p, i, k), NEW e, e = LeavesBy(R, i)
  PROVE  /\ e \in Nat /\ k < e
         /\ \A m \in k + 1..Len(b) : IsGone(p, i, m) \/ m >= Outlooks[i].anchor => e <= m
         /\ HasLeft(R, i) => e <= Len(b) /\ e < Outlooks[i].anchor /\ IsGone(p, i, e)
         /\ ~HasLeft(R, i) => e = Outlooks[i].anchor
<1> DEFINE a == Outlooks[i].anchor
<1>0. Len(p) = Len(b) /\ Len(b) \in Nat /\ k \in Nat /\ a \in Nat /\ k < a /\ IsTradeable(p[k][i])
  BY ArchivesAre, OutlooksAre DEF IsArchive, IsOffered
<1> HIDE DEF a
<1>h. HasLeft(R, i) <=> R # {} /\ Earliest(R) < a
  BY DEF HasLeft, a
<1>e. e = IF HasLeft(R, i) THEN Earliest(R) ELSE a
  BY DEF LeavesBy, a
<1>1. R \in SUBSET Nat /\ \A r \in R : r \in k + 1..Len(b) /\ IsGone(p, i, r)
  BY <1>0 DEF Retired, Retirements, IsLive, IsGone
<1>2. ASSUME NEW m \in k + 1..Len(b), IsGone(p, i, m) PROVE \E r \in R : r <= m
  <2> DEFINE A == {r \in k + 1..Len(b) : IsGone(p, i, r)}
  <2>1. PICK r \in A : \A s \in A : r <= s
    <3>1. A \in SUBSET Nat /\ A # {}
      BY <1>0, <1>2
    <3> HIDE DEF A
    <3> QED BY <3>1, LeastNatural
  <2>2. r \in k + 1..Len(b) /\ IsGone(p, i, r) /\ r <= m
    BY <1>2, <2>1
  <2>3. ~IsGone(p, i, r - 1)
    <3>1. CASE r - 1 = k
      BY <1>0, <3>1 DEF IsTradeable, IsGone
    <3>2. CASE r - 1 # k
      <4>1. r - 1 \in k + 1..Len(b) /\ ~(r <= r - 1)
        BY <1>0, <2>2, <3>2
      <4> QED BY <2>1, <4>1
    <3> QED BY <3>1, <3>2
  <2>4. r \in 2..Len(p) /\ r > k
    BY <1>0, <2>2
  <2>5. r \in R
    BY <2>2, <2>3, <2>4 DEF Retired, Retirements, IsLive, IsGone
  <2> QED BY <2>2, <2>5
<1>3. R # {} => Earliest(R) \in R /\ Earliest(R) \in Nat /\ \A r \in R : Earliest(R) <= r
  BY <1>1, EarliestIs
<1>4. ASSUME NEW m \in k + 1..Len(b), IsGone(p, i, m) PROVE R # {} /\ Earliest(R) <= m
  <2>1. PICK r \in R : r <= m
    BY <1>2, <1>4
  <2>2. Earliest(R) <= r /\ Earliest(R) \in Nat /\ r \in Nat /\ m \in Nat
    BY <1>0, <1>1, <1>3, <2>1
  <2> QED BY <2>1, <2>2
<1>5. CASE HasLeft(R, i)
  <2>1. e = Earliest(R) /\ R # {} /\ e < a
    BY <1>5, <1>e, <1>h
  <2>2. e \in k + 1..Len(b) /\ IsGone(p, i, e)
    BY <1>1, <1>3, <2>1
  <2>3. e \in Nat /\ k < e /\ e <= Len(b)
    BY <1>0, <2>2
  <2>4. ASSUME NEW m \in k + 1..Len(b), IsGone(p, i, m) \/ m >= a PROVE e <= m
    <3>1. m \in Nat
      BY <1>0
    <3>2. CASE IsGone(p, i, m)
      BY <1>4, <2>1, <3>2
    <3>3. CASE m >= a
      BY <1>0, <2>1, <2>3, <3>1, <3>3
    <3> QED BY <2>4, <3>2, <3>3
  <2> QED BY <1>5, <2>1, <2>2, <2>3, <2>4 DEF a
<1>6. CASE ~HasLeft(R, i)
  <2>1. e = a /\ ~(R # {} /\ Earliest(R) < a)
    BY <1>6, <1>e, <1>h
  <2>2. ASSUME NEW m \in k + 1..Len(b), IsGone(p, i, m) \/ m >= a PROVE e <= m
    <3>1. m \in Nat
      BY <1>0
    <3>2. CASE IsGone(p, i, m)
      <4>1. R # {} /\ Earliest(R) <= m /\ Earliest(R) \in Nat
        BY <1>3, <1>4, <3>2
      <4> QED BY <1>0, <2>1, <3>1, <4>1
    <3>3. CASE m >= a
      BY <1>0, <2>1, <3>1, <3>3
    <3> QED BY <2>2, <3>2, <3>3
  <2> QED BY <1>0, <1>6, <2>1, <2>2 DEF a
<1> QED BY <1>5, <1>6

(* A bar touches the stop, or else the target, or neither.                 *)
LEMMA TouchesAre ==
  ASSUME NEW i, NEW stop, NEW c
  PROVE  Touch(i, stop, c) \in {"stop", "target", "none"}
BY DEF Touch

(* What a chance is scored as: the plan's trade ended at the first bar that *)
(* ends it, or running still.                                              *)
LEMMA SimulateIs ==
  ASSUME NEW b, NEW p, IsArchive(b, p), NEW i \in Ids, NEW k \in Nat \ {0}, k < Len(b),
         IsOffered(p[k], i, k), IsAhead(i, b[k].close), NEW t, t = PlanAt(b, i, k)
  PROVE  /\ Endings(b, p, t) = {} => Simulate(b, p, i, k) = Running(t, i, Len(b))
         /\ \A m \in Endings(b, p, t) : (\A l \in Endings(b, p, t) : m <= l)
              => Simulate(b, p, i, k) = Closing(t, m, Fate(b, p, t, m))
<1>0. /\ Len(b) \in Nat /\ k \in 1..Len(b) /\ Outlooks[i].anchor \in Nat /\ t.at = k /\ t.outlook = i
      /\ FillPx(b, k) = b[k].close /\ MarkPx(b, k) = b[k].close /\ t = Plan(i, k, b[k].close, b[k].close)
  <2>1. k + 1 # 1 /\ k + 1 - 1 = k
    OBVIOUS
  <2> QED BY <2>1, ArchivesAre, OutlooksAre DEF FillPx, OpenOf, MarkPx, PlanAt, Plan
<1>1. PICK R : R = Retired(p, i, k)
  OBVIOUS
<1>2. PICK e : e = LeavesBy(R, i)
  OBVIOUS
<1>3. /\ e \in Nat /\ k < e
      /\ \A m \in k + 1..Len(b) : IsGone(p, i, m) \/ m >= Outlooks[i].anchor => e <= m
      /\ HasLeft(R, i) => e <= Len(b) /\ e < Outlooks[i].anchor /\ IsGone(p, i, e)
      /\ ~HasLeft(R, i) => e = Outlooks[i].anchor
  BY <1>0, <1>1, <1>2, LeavesAre
<1>4. PICK last : last = IF e < Len(b) THEN e ELSE Len(b)
  OBVIOUS
<1>5. last \in k + 1..Len(b) /\ last <= e /\ (e <= Len(b) => last = e)
  BY <1>0, <1>3, <1>4
<1>6. PICK path : path = SubSeq(b, k + 1, last)
  OBVIOUS
<1>7. Len(path) = last - k /\ DOMAIN path = 1..last - k /\ \A n \in 1..last - k : path[n] = b[k + n]
  <2>1. k + 1 \in 1..Len(b) + 1 /\ last \in k..Len(b)
    BY <1>0, <1>5
  <2>2. k + 1 \in Int /\ last \in Int /\ k + 1 <= last
        /\ \A n \in k + 1..last : b[n] \in [lo : Int, hi : Int, close : Int]
    BY <1>0, <1>5, ArchivesAre
  <2>3. path \in Seq([lo : Int, hi : Int, close : Int]) /\ Len(path) = last - (k + 1) + 1
        /\ \A n \in 1..last - (k + 1) + 1 : path[n] = b[k + 1 + n - 1]
    BY <1>6, <2>2, SubSeqProperties
  <2>4. last - (k + 1) + 1 = last - k /\ \A n \in 1..last - k : k + 1 + n - 1 = k + n
    BY <1>0, <1>5
  <2>5. DOMAIN path = 1..Len(path)
    BY <2>3, LenProperties
  <2> QED BY <2>3, <2>4, <2>5
<1>8. PICK exit : exit = ReplayPath(i, t.stop, path)
  OBVIOUS
<1>9. Simulate(b, p, i, k) = [plan |-> t, outlook |-> i, closes |-> k + exit.after,
            reason |-> IF exit.reason # "horizon" THEN exit.reason
                       ELSE IF HasLeft(R, i) THEN "retired" ELSE "horizon",
            resolved |-> exit.reason # "horizon" \/ e <= Len(b)]
  <2>1. ~(k >= Len(b) \/ ~IsAhead(i, FillPx(b, k)))
    BY <1>0
  <2> QED BY <1>0, <1>1, <1>2, <1>4, <1>6, <1>8, <2>1 DEF Simulate, Retired, LeavesBy, HasLeft
<1> DEFINE S == Endings(b, p, t)
           touched == {n \in DOMAIN path : Touch(i, t.stop, path[n]) # "none"}
<1>10. \A m : m \in S <=> m \in k + 1..Len(b) /\ Fate(b, p, t, m) # "held"
  BY <1>0 DEF Endings
<1>11. \A m \in k + 1..Len(b) : Fate(b, p, t, m) =
         IF Touch(i, t.stop, b[m]) # "none" THEN Touch(i, t.stop, b[m])
         ELSE IF m >= Outlooks[i].anchor THEN "horizon" ELSE IF IsGone(p, i, m) THEN "retired" ELSE "held"
  BY <1>0 DEF Fate, Becomes, IsGone
<1>12. \A m \in k + 1..last : m - k \in touched <=> Touch(i, t.stop, b[m]) # "none"
  <2> SUFFICES ASSUME NEW m \in k + 1..last PROVE m - k \in touched <=> Touch(i, t.stop, b[m]) # "none"
    OBVIOUS
  <2>1. m - k \in 1..last - k /\ k + (m - k) = m
    BY <1>0, <1>5
  <2> QED BY <1>7, <2>1
<1>13. ASSUME NEW l \in S, l < e PROVE l \in k + 1..last /\ l - k \in touched
  <2>1. l \in k + 1..Len(b) /\ Fate(b, p, t, l) # "held"
    BY <1>10
  <2>2. l \in k + 1..last
    <3>1. l \in Nat /\ k + 1 <= l /\ l <= Len(b)
      BY <1>0, <2>1
    <3>2. l <= last
      BY <1>3, <1>4, <1>13, <3>1
    <3> QED BY <1>0, <1>5, <3>1, <3>2
  <2>3. ~(e <= l)
    BY <1>3, <1>13, <2>1
  <2>4. ~(IsGone(p, i, l) \/ l >= Outlooks[i].anchor)
    BY <1>3, <2>1, <2>3
  <2>5. Touch(i, t.stop, b[l]) # "none"
    BY <1>11, <2>1, <2>4
  <2> QED BY <1>12, <2>2, <2>5
<1>14. CASE touched # {}
  <2>1. touched \in SUBSET Nat /\ touched \subseteq 1..last - k
    BY <1>0, <1>5, <1>7
  <2>2. PICK first : first = CHOOSE n \in touched : \A m \in touched : n <= m
    OBVIOUS
  <2>3. first \in touched /\ \A m \in touched : first <= m
    <3> HIDE DEF touched
    <3>1. \E n \in touched : \A m \in touched : n <= m
      BY <1>14, <2>1, LeastNatural
    <3> QED BY <2>2, <3>1
  <2>4. exit = [reason |-> Touch(i, t.stop, path[first]), after |-> first]
    BY <1>8, <1>14, <2>2 DEF ReplayPath
  <2>5. first \in 1..last - k /\ path[first] = b[k + first] /\ k + first \in k + 1..last /\ k + first - k = first
    BY <1>0, <1>5, <1>7, <2>1, <2>3
  <2>6. Touch(i, t.stop, b[k + first]) \in {"stop", "target"}
    BY <2>3, <2>5, TouchesAre
  <2>7. k + first \in k + 1..Len(b)
    BY <1>0, <1>5, <2>5
  <2>8. Fate(b, p, t, k + first) = Touch(i, t.stop, b[k + first])
    BY <1>11, <2>6, <2>7
  <2>9. k + first \in S
    BY <1>10, <2>6, <2>7, <2>8
  <2>10. \A l \in S : k + first <= l
    <3> SUFFICES ASSUME NEW l \in S, ~(k + first <= l) PROVE FALSE
      OBVIOUS
    <3>1. l \in k + 1..Len(b)
      BY <1>10
    <3>2. l < e
      BY <1>0, <1>3, <1>5, <2>5, <3>1
    <3>3. l - k \in touched
      BY <1>13, <3>2
    <3>4. first <= l - k
      BY <2>3, <3>3
    <3> QED BY <1>0, <2>5, <3>1, <3>4
  <2>11. Simulate(b, p, i, k) = Closing(t, k + first, Fate(b, p, t, k + first))
    <3>1. exit.reason = Fate(b, p, t, k + first) /\ exit.reason # "horizon" /\ exit.after = first
      BY <2>4, <2>5, <2>6, <2>8
    <3>2. (exit.reason # "horizon" \/ e <= Len(b)) = TRUE
      BY <3>1
    <3> QED BY <1>0, <1>9, <3>1, <3>2 DEF Closing
  <2>12. ASSUME NEW m \in S, \A l \in S : m <= l PROVE m = k + first
    <3>1. m <= k + first /\ k + first <= m
      BY <2>9, <2>10, <2>12
    <3>2. m \in Nat /\ k + first \in Nat
      BY <1>0, <1>10, <2>5
    <3> HIDE DEF S
    <3> QED BY <3>1, <3>2
  <2> QED BY <2>9, <2>11, <2>12
<1>15. CASE touched = {}
  <2>1. exit = [reason |-> "horizon", after |-> Len(path)]
    BY <1>8, <1>15 DEF ReplayPath
  <2>2. exit.reason = "horizon" /\ k + exit.after = last
    BY <1>0, <1>5, <1>7, <2>1
  <2>3. \A m \in k + 1..last : Touch(i, t.stop, b[m]) = "none"
    BY <1>12, <1>15
  <2>4. \A l \in S : ~(l < e)
    BY <1>13, <1>15
  <2>5. CASE e <= Len(b)
    <3>1. last = e /\ e \in k + 1..Len(b) /\ e \in k + 1..last
      BY <1>0, <1>3, <1>5, <2>5
    <3>2. Fate(b, p, t, e) = IF HasLeft(R, i) THEN "retired" ELSE "horizon"
      <4>1. Touch(i, t.stop, b[e]) = "none"
        BY <2>3, <3>1
      <4>2. e >= Outlooks[i].anchor <=> ~HasLeft(R, i)
        BY <1>0, <1>3
      <4> QED BY <1>3, <1>11, <3>1, <4>1, <4>2
    <3>3. e \in S
      BY <1>10, <3>1, <3>2
    <3>4. Simulate(b, p, i, k) = Closing(t, e, Fate(b, p, t, e))
      <4>1. (exit.reason # "horizon" \/ e <= Len(b)) = TRUE
        BY <2>5
      <4>2. Fate(b, p, t, e) = IF HasLeft(R, i) THEN "retired" ELSE "horizon"
        BY <3>2
      <4>3. Simulate(b, p, i, k) = [plan |-> t, outlook |-> i, closes |-> e,
               reason |-> Fate(b, p, t, e), resolved |-> TRUE]
        BY <1>9, <2>2, <3>1, <4>1, <4>2
      <4> QED BY <1>0, <4>3 DEF Closing
    <3>5. ASSUME NEW m \in S, \A l \in S : m <= l PROVE m = e
      <4>1. m <= e /\ ~(m < e)
        BY <2>4, <3>3, <3>5
      <4>2. m \in Nat
        BY <1>0, <1>10
      <4> HIDE DEF S
      <4> QED BY <1>3, <4>1, <4>2
    <3> QED BY <3>3, <3>4, <3>5
  <2>6. CASE ~(e <= Len(b))
    <3>1. last = Len(b)
      BY <1>0, <1>3, <1>4, <2>6
    <3>2. S = {}
      <4> SUFFICES ASSUME NEW l \in S PROVE FALSE
        OBVIOUS
      <4>1. l \in k + 1..Len(b)
        BY <1>10
      <4> QED BY <1>0, <1>3, <2>4, <2>6, <4>1
    <3>3. Simulate(b, p, i, k) = Running(t, i, Len(b))
      <4>1. (exit.reason # "horizon" \/ e <= Len(b)) = FALSE
        BY <2>2, <2>6
      <4>2. ~HasLeft(R, i)
        BY <1>3, <2>6
      <4>3. Simulate(b, p, i, k) = [plan |-> t, outlook |-> i, closes |-> Len(b),
               reason |-> "horizon", resolved |-> FALSE]
        BY <1>9, <2>2, <3>1, <4>1, <4>2
      <4> QED BY <4>3 DEF Running
    <3> QED BY <3>2, <3>3
  <2> QED BY <2>5, <2>6
<1> QED BY <1>14, <1>15

IsWalk(g, b, p, n) == g = [k \in 0..n |-> IF k = 0 THEN {} ELSE AtPoll(b, p, g[k - 1], k)]

(* The walk over the polls is a function.                                  *)
LEMMA WalkExists ==
  ASSUME NEW b, NEW p, NEW n \in Nat
  PROVE  \E g : IsWalk(g, b, p, n)
<1> DEFINE Fine(m) == \E g : \A k \in 0..m : g[k] = IF k = 0 THEN {} ELSE AtPoll(b, p, g[k - 1], k)
           Bad == {m \in Nat : ~Fine(m)}
<1>1. Fine(0)
  <2> DEFINE g == [k \in 0..0 |-> {}]
  <2>1. \A k \in 0..0 : k = 0 /\ g[k] = {}
    OBVIOUS
  <2> HIDE DEF g
  <2>2. \A k \in 0..0 : g[k] = IF k = 0 THEN {} ELSE AtPoll(b, p, g[k - 1], k)
    BY <2>1
  <2> QED BY <2>2
<1>2. ASSUME NEW m \in Nat, Fine(m) PROVE Fine(m + 1)
  <2>1. PICK g : \A k \in 0..m : g[k] = IF k = 0 THEN {} ELSE AtPoll(b, p, g[k - 1], k)
    BY <1>2
  <2> DEFINE h == [k \in 0..m + 1 |-> IF k = m + 1 THEN AtPoll(b, p, g[m], m + 1) ELSE g[k]]
  <2>2. /\ \A k \in 0..m : h[k] = g[k]
        /\ h[m + 1] = AtPoll(b, p, g[m], m + 1)
    OBVIOUS
  <2> HIDE DEF h
  <2>3. ASSUME NEW k \in 0..m + 1 PROVE h[k] = IF k = 0 THEN {} ELSE AtPoll(b, p, h[k - 1], k)
    <3>1. CASE k = 0
      BY <2>1, <2>2, <3>1
    <3>2. CASE k \in 1..m
      <4>1. k - 1 \in 0..m /\ k \in 0..m /\ k # 0
        BY <3>2
      <4> QED BY <2>1, <2>2, <4>1
    <3>3. CASE k = m + 1
      <4>1. k - 1 = m /\ m \in 0..m /\ k # 0
        BY <3>3
      <4> QED BY <2>2, <3>3, <4>1
    <3> QED BY <3>1, <3>2, <3>3
  <2> QED BY <2>3
<1> HIDE DEF Fine
<1>3. ASSUME Bad # {} PROVE FALSE
  <2>1. PICK m \in Bad : \A l \in Bad : m <= l
    <3>1. Bad \in SUBSET Nat
      OBVIOUS
    <3> HIDE DEF Bad
    <3> QED BY <1>3, <3>1, LeastNatural
  <2>2. m # 0 /\ m - 1 \in Nat
    BY <1>1, <2>1
  <2>3. Fine(m - 1)
    BY <2>1, <2>2
  <2>4. Fine(m - 1 + 1)
    BY <1>2, <2>2, <2>3
  <2> QED BY <2>1, <2>4
<1>4. Fine(n)
  BY <1>3
<1>5. PICK g : \A k \in 0..n : g[k] = IF k = 0 THEN {} ELSE AtPoll(b, p, g[k - 1], k)
  BY <1>4 DEF Fine
<1> DEFINE h == [k \in 0..n |-> g[k]]
<1>6. \A k \in 0..n : h[k] = g[k]
  OBVIOUS
<1>7. h = [k \in 0..n |-> h[k]]
  OBVIOUS
<1> HIDE DEF h
<1>8. \A k \in 0..n : h[k] = IF k = 0 THEN {} ELSE AtPoll(b, p, h[k - 1], k)
  <2> SUFFICES ASSUME NEW k \in 0..n PROVE h[k] = IF k = 0 THEN {} ELSE AtPoll(b, p, h[k - 1], k)
    OBVIOUS
  <2>1. CASE k = 0
    BY <1>5, <1>6, <2>1
  <2>2. CASE k # 0
    <3>1. k - 1 \in 0..n
      BY <2>2
    <3> QED BY <1>5, <1>6, <2>2, <3>1
  <2> QED BY <2>1, <2>2
<1>9. h = [k \in 0..n |-> IF k = 0 THEN {} ELSE AtPoll(b, p, h[k - 1], k)]
  BY <1>7, <1>8
<1> QED BY <1>9 DEF IsWalk

(* And it says, for every poll, what the poll made of the trades.          *)
LEMMA WalkIs ==
  ASSUME NEW b, NEW p
  PROVE  /\ Walked(b, p, 0) = {}
         /\ \A k \in Nat \ {0} : Walked(b, p, k) = AtPoll(b, p, Walked(b, p, k - 1), k)
<1> DEFINE W(n) == CHOOSE g : IsWalk(g, b, p, n)
<1>1. \A n \in Nat : IsWalk(W(n), b, p, n)
  BY WalkExists
<1>2. \A n \in Nat : Walked(b, p, n) = W(n)[n]
  BY DEF Walked, IsWalk
<1> HIDE DEF W
<1>3. ASSUME NEW n \in Nat
      PROVE  \A k \in 0..n : W(n)[k] = IF k = 0 THEN {} ELSE AtPoll(b, p, W(n)[k - 1], k)
  <2> DEFINE w == W(n)
  <2>1. w = [k \in 0..n |-> IF k = 0 THEN {} ELSE AtPoll(b, p, w[k - 1], k)]
    <3>1. IsWalk(w, b, p, n)
      BY <1>1
    <3> HIDE DEF w
    <3> QED BY <3>1 DEF IsWalk
  <2> HIDE DEF w
  <2>2. \A k \in 0..n : w[k] = IF k = 0 THEN {} ELSE AtPoll(b, p, w[k - 1], k)
    BY <2>1
  <2> QED BY <2>2 DEF w
<1>4. ASSUME NEW n \in Nat PROVE \A k \in 0..n : W(n)[k] = W(n + 1)[k]
  <2> DEFINE Bad == {k \in 0..n : W(n)[k] # W(n + 1)[k]}
  <2> SUFFICES ASSUME Bad # {} PROVE FALSE
    OBVIOUS
  <2>1. PICK k \in Bad : \A l \in Bad : k <= l
    <3>1. Bad \in SUBSET Nat
      OBVIOUS
    <3> HIDE DEF Bad
    <3> QED BY <3>1, LeastNatural
  <2>2. k \in 0..n /\ k \in 0..n + 1 /\ n + 1 \in Nat
    BY <2>1
  <2>3. W(n)[k] = IF k = 0 THEN {} ELSE AtPoll(b, p, W(n)[k - 1], k)
    BY <1>3, <2>2
  <2>4. W(n + 1)[k] = IF k = 0 THEN {} ELSE AtPoll(b, p, W(n + 1)[k - 1], k)
    BY <1>3, <2>2
  <2>5. k # 0
    BY <2>1, <2>3, <2>4
  <2>6. k - 1 \in 0..n /\ ~(k <= k - 1)
    BY <2>2, <2>5
  <2>7. W(n)[k - 1] = W(n + 1)[k - 1]
    BY <2>1, <2>6
  <2> QED BY <2>1, <2>3, <2>4, <2>7
<1>5. Walked(b, p, 0) = {}
  BY <1>2, <1>3
<1>6. ASSUME NEW k \in Nat \ {0} PROVE Walked(b, p, k) = AtPoll(b, p, Walked(b, p, k - 1), k)
  <2>1. k - 1 \in Nat /\ k - 1 + 1 = k /\ k \in 0..k /\ k - 1 \in 0..k - 1 /\ k # 0
    OBVIOUS
  <2>2. W(k)[k] = AtPoll(b, p, W(k)[k - 1], k)
    BY <1>3, <2>1
  <2>3. W(k - 1)[k - 1] = W(k - 1 + 1)[k - 1]
    BY <1>4, <2>1
  <2> QED BY <1>2, <2>1, <2>2, <2>3
<1> QED BY <1>5, <1>6

(* A trade the simulator finds.                                            *)
LEMMA TradesAre ==
  ASSUME NEW b, NEW p, IsArchive(b, p), NEW i \in Ids, NEW k \in 1..Len(b), IsChance(p, i, k)
  PROVE  IF k < Len(b) /\ IsAhead(i, b[k].close)
         THEN \E t : /\ t = Simulate(b, p, i, k) /\ t # Nothing /\ t.plan = PlanAt(b, i, k) /\ t.outlook = i
                     /\ t.plan.at = k /\ t.plan.outlook = i /\ t.closes \in k + 1..Len(b)
                     /\ t.resolved = (Endings(b, p, t.plan) # {})
                     /\ ~t.resolved => t = Running(t.plan, i, Len(b))
                     /\ t.resolved => /\ t.closes \in Endings(b, p, t.plan) /\ \A l \in Endings(b, p, t.plan) : t.closes <= l
                                      /\ t = Closing(t.plan, t.closes, Fate(b, p, t.plan, t.closes))
         ELSE Simulate(b, p, i, k) = Nothing
<1>0. Len(b) \in Nat /\ k \in Nat \ {0} /\ i # 0
  BY ArchivesAre, OutlooksAre
<1>1. CASE k < Len(b) /\ IsAhead(i, b[k].close)
  <2>1. PICK u : u = PlanAt(b, i, k)
    OBVIOUS
  <2>2. u.at = k /\ u.outlook = i
    BY <2>1 DEF PlanAt, Plan
  <2>3. IsOffered(p[k], i, k)
    BY DEF IsChance
  <2> DEFINE S == Endings(b, p, u)
  <2>4. /\ S = {} => Simulate(b, p, i, k) = Running(u, i, Len(b))
        /\ \A m \in S : (\A l \in S : m <= l) => Simulate(b, p, i, k) = Closing(u, m, Fate(b, p, u, m))
    BY <1>0, <1>1, <2>1, <2>3, SimulateIs
  <2>5. PICK t : t = Simulate(b, p, i, k)
    OBVIOUS
  <2>6. CASE S = {}
    <3>1. t = Running(u, i, Len(b))
      BY <2>4, <2>5, <2>6
    <3>2. t.plan = u /\ t.outlook = i /\ t.closes = Len(b)
      BY <3>1 DEF Running
    <3>3. t.resolved = FALSE
      BY <3>1 DEF Running
    <3>4. t # Nothing
      <4>1. Nothing.outlook = 0
        BY DEF Nothing
      <4> QED BY <1>0, <3>2, <4>1
    <3>5. t.closes \in k + 1..Len(b)
      BY <1>0, <1>1, <3>2
    <3>6. t.resolved = (Endings(b, p, t.plan) # {})
      BY <2>6, <3>2, <3>3
    <3>7. ~t.resolved => t = Running(t.plan, i, Len(b))
      BY <3>1, <3>2
    <3>8. ~t.resolved
      BY <3>3
    <3> QED BY <1>1, <2>1, <2>2, <2>5, <3>2, <3>4, <3>5, <3>6, <3>7, <3>8
  <2>7. CASE S # {}
    <3>1. S \in SUBSET Nat /\ S \subseteq k + 1..Len(b)
      BY <1>0, <2>2 DEF Endings
    <3>2. PICK m \in S : \A l \in S : m <= l
      <4> HIDE DEF S
      <4> QED BY <2>7, <3>1, LeastNatural
    <3>3. t = Closing(u, m, Fate(b, p, u, m))
      BY <2>4, <2>5, <3>2
    <3>4. t.plan = u /\ t.outlook = i /\ t.closes = m
      BY <2>2, <3>3 DEF Closing
    <3>5. t.resolved = TRUE
      BY <3>3 DEF Closing
    <3>6. t # Nothing
      <4>1. Nothing.outlook = 0
        BY DEF Nothing
      <4> QED BY <1>0, <3>4, <4>1
    <3>7. t.closes \in k + 1..Len(b)
      BY <3>1, <3>4
    <3>8. t.resolved = (Endings(b, p, t.plan) # {})
      BY <2>7, <3>4, <3>5
    <3>9. t.resolved
      BY <3>5
    <3>10. /\ t.closes \in Endings(b, p, t.plan) /\ \A l \in Endings(b, p, t.plan) : t.closes <= l
           /\ t = Closing(t.plan, t.closes, Fate(b, p, t.plan, t.closes))
      BY <3>2, <3>3, <3>4
    <3> QED BY <1>1, <2>1, <2>2, <2>5, <3>4, <3>6, <3>7, <3>8, <3>9, <3>10
  <2> QED BY <2>6, <2>7
<1>2. CASE ~(k < Len(b) /\ IsAhead(i, b[k].close))
  BY <1>0, <1>2, NotSimulated
<1> QED BY <1>1, <1>2

-----------------------------------------------------------------------------
(* The trades of an archive. *)

(* A trade of an archive is what the chance it began with is scored as.    *)
IsTrade(b, p, t) ==
  /\ t.outlook \in Ids /\ t.plan.at \in 1..Len(b) /\ t.plan.at < Len(b)
  /\ IsChance(p, t.outlook, t.plan.at) /\ IsAhead(t.outlook, b[t.plan.at].close)
  /\ t = Simulate(b, p, t.outlook, t.plan.at)

(* Its plan, its exit and whether it has ended.                            *)
LEMMA TradesHave ==
  ASSUME NEW b, NEW p, IsArchive(b, p), NEW t, IsTrade(b, p, t)
  PROVE  /\ t.plan = PlanAt(b, t.outlook, t.plan.at) /\ t.plan.outlook = t.outlook /\ t # Nothing
         /\ t.closes \in Nat /\ t.plan.at < t.closes /\ t.closes <= Len(b)
         /\ t.resolved = (Endings(b, p, t.plan) # {})
         /\ ~t.resolved => t = Running(t.plan, t.outlook, Len(b))
         /\ t.resolved => /\ t.closes \in Endings(b, p, t.plan) /\ \A l \in Endings(b, p, t.plan) : t.closes <= l
                          /\ t = Closing(t.plan, t.closes, Fate(b, p, t.plan, t.closes))
<1>1. PICK i \in Ids, k \in 1..Len(b) : i = t.outlook /\ k = t.plan.at
  BY DEF IsTrade
<1>2. k < Len(b) /\ IsAhead(i, b[k].close) /\ IsChance(p, i, k) /\ t = Simulate(b, p, i, k)
  BY <1>1 DEF IsTrade
<1>3. \E u : /\ u = Simulate(b, p, i, k) /\ u # Nothing /\ u.plan = PlanAt(b, i, k) /\ u.outlook = i
             /\ u.plan.at = k /\ u.plan.outlook = i /\ u.closes \in k + 1..Len(b)
             /\ u.resolved = (Endings(b, p, u.plan) # {})
             /\ ~u.resolved => u = Running(u.plan, i, Len(b))
             /\ u.resolved => /\ u.closes \in Endings(b, p, u.plan) /\ \A l \in Endings(b, p, u.plan) : u.closes <= l
                              /\ u = Closing(u.plan, u.closes, Fate(b, p, u.plan, u.closes))
  BY <1>2, TradesAre
<1>4. Len(b) \in Nat /\ k \in Nat
  BY ArchivesAre
<1>5. t.closes \in Nat /\ k < t.closes /\ t.closes <= Len(b)
  <2>1. t.closes \in k + 1..Len(b)
    BY <1>2, <1>3
  <2> QED BY <1>4, <2>1
<1> QED BY <1>1, <1>2, <1>3, <1>5

(* Those of one poll begin with the outlooks it lets in.                   *)
LEMMA TakenAre ==
  ASSUME NEW b, NEW p, IsArchive(b, p), NEW W, NEW k \in 1..Len(b), NEW t \in TakenAt(b, p, W, k)
  PROVE  IsTrade(b, p, t) /\ t.plan.at = k /\ t.outlook \in Firsts(ElseTaken(b, p, W, k))
<1>1. PICK i \in Firsts(ElseTaken(b, p, W, k)) : t = Simulate(b, p, i, k)
  BY DEF TakenAt
<1>2. i \in Ids /\ IsChance(p, i, k) /\ t # Nothing
  BY <1>1 DEF Firsts, ElseTaken
<1>3. k < Len(b) /\ IsAhead(i, b[k].close)
  BY <1>1, <1>2, TradesAre
<1>4. t.outlook = i /\ t.plan.at = k
  BY <1>1, <1>2, <1>3, TradesAre
<1> QED BY <1>1, <1>2, <1>3, <1>4 DEF IsTrade

(* The walk, poll by poll.                                                 *)
LEMMA WalkGoesOn ==
  ASSUME NEW b, NEW p, IsArchive(b, p), NEW k \in 1..Len(b)
  PROVE  Walked(b, p, k) = Walked(b, p, k - 1) \cup TakenAt(b, p, Walked(b, p, k - 1), k)
<1>1. k \in Nat /\ k \in Nat \ {0} /\ Len(b) \in Nat
  BY ArchivesAre
<1>2. Walked(b, p, k) = AtPoll(b, p, Walked(b, p, k - 1), k)
  BY <1>1, WalkIs
<1>3. ASSUME NEW i \in Ids, NEW t, t = Simulate(b, p, i, k), IsChance(p, i, k), t # Nothing
      PROVE  t.outlook = i /\ t.closes \in Nat /\ k <= t.closes
  <2>1. k < Len(b) /\ IsAhead(i, b[k].close)
    BY <1>3, TradesAre
  <2>2. t.outlook = i /\ t.closes \in k + 1..Len(b)
    BY <1>3, <2>1, TradesAre
  <2> QED BY <1>1, <2>2
<1>4. \A i \in Ids : LET t == Simulate(b, p, i, k)
                     IN  IsChance(p, i, k) /\ t # Nothing => t.outlook = i /\ t.closes \in Nat /\ k <= t.closes
  BY <1>3
<1> QED BY <1>1, <1>2, <1>4, PollTakes

(* What a walk has found comes from one of its polls.                      *)
LEMMA WalkHas ==
  ASSUME NEW b, NEW p, IsArchive(b, p), NEW n \in 0..Len(b), NEW t \in Walked(b, p, n)
  PROVE  \E k \in 1..n : t \in TakenAt(b, p, Walked(b, p, k - 1), k)
<1>0. Len(b) \in Nat
  BY ArchivesAre
<1> DEFINE Bad == {m \in 0..Len(b) : \E u \in Walked(b, p, m) : ~\E k \in 1..m : u \in TakenAt(b, p, Walked(b, p, k - 1), k)}
<1>1. ASSUME Bad # {} PROVE FALSE
  <2>1. PICK m \in Bad : \A l \in Bad : m <= l
    <3>1. Bad \in SUBSET Nat
      BY <1>0
    <3> HIDE DEF Bad
    <3> QED BY <1>1, <3>1, LeastNatural
  <2>2. PICK u \in Walked(b, p, m) : ~\E k \in 1..m : u \in TakenAt(b, p, Walked(b, p, k - 1), k)
    BY <2>1
  <2>3. m # 0
    BY <2>2, WalkIs
  <2>4. m \in 1..Len(b) /\ m \in 1..m /\ m - 1 \in 0..Len(b) /\ ~(m <= m - 1) /\ \A k \in 1..m - 1 : k \in 1..m
    BY <1>0, <2>1, <2>3
  <2>5. u \notin TakenAt(b, p, Walked(b, p, m - 1), m)
    BY <2>2, <2>4
  <2>6. u \in Walked(b, p, m - 1)
    BY <2>2, <2>4, <2>5, WalkGoesOn
  <2>7. m - 1 \notin Bad
    BY <2>1, <2>4
  <2>8. \E k \in 1..m - 1 : u \in TakenAt(b, p, Walked(b, p, k - 1), k)
    BY <2>4, <2>6, <2>7
  <2> QED BY <2>2, <2>4, <2>8
<1> QED BY <1>1

(* A longer walk only finds more.                                          *)
LEMMA WalkGrows ==
  ASSUME NEW b, NEW p, IsArchive(b, p), NEW n \in 0..Len(b), NEW m \in 0..n
  PROVE  Walked(b, p, m) \subseteq Walked(b, p, n)
<1>0. Len(b) \in Nat /\ m \in Nat
  BY ArchivesAre
<1> DEFINE Bad == {l \in m..Len(b) : ~(Walked(b, p, m) \subseteq Walked(b, p, l))}
<1>1. ASSUME Bad # {} PROVE FALSE
  <2>1. PICK l \in Bad : \A j \in Bad : l <= j
    <3>1. Bad \in SUBSET Nat
      BY <1>0
    <3> HIDE DEF Bad
    <3> QED BY <1>1, <3>1, LeastNatural
  <2>2. l # m
    BY <2>1
  <2>3. l \in 1..Len(b) /\ l - 1 \in m..Len(b) /\ ~(l <= l - 1)
    BY <1>0, <2>1, <2>2
  <2>4. Walked(b, p, m) \subseteq Walked(b, p, l - 1)
    BY <2>1, <2>3
  <2>5. Walked(b, p, l - 1) \subseteq Walked(b, p, l)
    BY <2>3, WalkGoesOn
  <2> QED BY <2>1, <2>4, <2>5
<1>2. n \in m..Len(b)
  BY <1>0
<1> QED BY <1>1, <1>2

(* All it finds are trades of the archive.                                 *)
LEMMA WalkedAre ==
  ASSUME NEW b, NEW p, IsArchive(b, p), NEW n \in 0..Len(b), NEW t \in Walked(b, p, n)
  PROVE  /\ IsTrade(b, p, t) /\ t.plan.at \in 1..n
         /\ t.outlook \in Firsts(ElseTaken(b, p, Walked(b, p, t.plan.at - 1), t.plan.at))
<1>1. PICK k \in 1..n : t \in TakenAt(b, p, Walked(b, p, k - 1), k)
  BY WalkHas
<1>2. k \in 1..Len(b)
  BY ArchivesAre
<1>3. IsTrade(b, p, t) /\ t.plan.at = k /\ t.outlook \in Firsts(ElseTaken(b, p, Walked(b, p, k - 1), k))
  BY <1>1, <1>2, TakenAre
<1> QED BY <1>3

(* A coin is held until its trade closes.                                  *)
LEMMA OneAfterAnother ==
  ASSUME NEW b, NEW p, IsArchive(b, p), NEW n \in 0..Len(b), NEW t \in Walked(b, p, n), NEW u \in Walked(b, p, n),
         Outlooks[t.outlook].coin = Outlooks[u.outlook].coin, t.plan.at <= u.plan.at
  PROVE  t = u \/ t.closes < u.plan.at
<1>0. Len(b) \in Nat /\ n \in Nat
  BY ArchivesAre
<1>1. /\ IsTrade(b, p, t) /\ t.plan.at \in 1..n
      /\ t.outlook \in Firsts(ElseTaken(b, p, Walked(b, p, t.plan.at - 1), t.plan.at))
  BY WalkedAre
<1>2. /\ IsTrade(b, p, u) /\ u.plan.at \in 1..n
      /\ u.outlook \in Firsts(ElseTaken(b, p, Walked(b, p, u.plan.at - 1), u.plan.at))
  BY WalkedAre
<1>3. PICK k \in 1..n, l \in 1..n : k = t.plan.at /\ l = u.plan.at
  BY <1>1, <1>2
<1>4. k \in Nat /\ l \in Nat /\ k <= l /\ t.closes \in Nat
  BY <1>0, <1>1, <1>3, TradesHave
<1>5. CASE k = l
  <2>1. t.outlook = u.outlook
    <3>1. t.outlook \in Nat /\ u.outlook \in Nat
      BY <1>1, <1>2, OutlooksAre DEF IsTrade
    <3>2. t.outlook <= u.outlook /\ u.outlook <= t.outlook
      BY <1>1, <1>2, <1>3, <1>5 DEF Firsts
    <3> QED BY <3>1, <3>2
  <2> QED BY <1>1, <1>2, <1>3, <1>5, <2>1 DEF IsTrade
<1>6. CASE k < l
  <2>1. PICK j \in 1..n : j = k /\ t \in TakenAt(b, p, Walked(b, p, j - 1), j)
    <3>1. PICK j \in 1..n : t \in TakenAt(b, p, Walked(b, p, j - 1), j)
      BY WalkHas
    <3>2. j \in 1..Len(b)
      BY <1>0
    <3>3. t.plan.at = j
      BY <3>1, <3>2, TakenAre
    <3> QED BY <1>3, <3>1, <3>3
  <2>2. k \in 1..Len(b) /\ l - 1 \in 0..Len(b) /\ k \in 0..l - 1
    BY <1>0, <1>4, <1>6
  <2>3. t \in Walked(b, p, k)
    BY <2>1, <2>2, WalkGoesOn
  <2>4. t \in Walked(b, p, l - 1)
    BY <2>2, <2>3, WalkGrows
  <2>5. ~Refused(Walked(b, p, l - 1), u.outlook, l)
    BY <1>2, <1>3 DEF Firsts, ElseTaken
  <2>6. ~(l <= t.closes)
    BY <2>4, <2>5 DEF Refused
  <2> QED BY <1>3, <1>4, <2>6
<1> QED BY <1>4, <1>5, <1>6

-----------------------------------------------------------------------------
(* An archive that grows. *)

(* The archive with one bar and one poll more.                             *)
Grown(b, p, b2, p2) ==
  /\ IsArchive(b, p) /\ IsArchive(b2, p2) /\ Len(b2) = Len(b) + 1
  /\ \A k \in 1..Len(b) : b2[k] = b[k] /\ p2[k] = p[k]
Again(b2, p2, t) == Simulate(b2, p2, t.outlook, t.plan.at)
AllAgain(b2, p2, W) == {Again(b2, p2, t) : t \in W}

(* A bar that ended a plan still does; only the new one is added.          *)
LEMMA EndingsGrow ==
  ASSUME NEW b, NEW p, NEW b2, NEW p2, Grown(b, p, b2, p2), NEW t, t.at \in 1..Len(b)
  PROVE  /\ \A m \in 1..Len(b) : Fate(b2, p2, t, m) = Fate(b, p, t, m)
         /\ Endings(b2, p2, t) = Endings(b, p, t) \cup (IF Fate(b2, p2, t, Len(b2)) = "held" THEN {} ELSE {Len(b2)})
         /\ \A m \in Endings(b, p, t) : m < Len(b2)
<1>0. Len(b) \in Nat /\ Len(b2) = Len(b) + 1 /\ t.at \in Nat
  BY ArchivesAre DEF Grown
<1>1. \A m \in 1..Len(b) : Fate(b2, p2, t, m) = Fate(b, p, t, m)
  BY DEF Grown, Fate
<1>2. \A m : m \in t.at + 1..Len(b2) <=> m \in t.at + 1..Len(b) \/ m = Len(b2)
  BY <1>0
<1>3. \A m \in t.at + 1..Len(b) : m \in 1..Len(b) /\ m < Len(b2)
  BY <1>0
<1>4. \A m : m \in Endings(b2, p2, t) <=> m \in t.at + 1..Len(b2) /\ Fate(b2, p2, t, m) # "held"
  BY DEF Endings
<1>5. \A m : m \in Endings(b, p, t) <=> m \in t.at + 1..Len(b) /\ Fate(b, p, t, m) # "held"
  BY DEF Endings
<1>6. \A m : m \in Endings(b2, p2, t) <=> m \in Endings(b, p, t) \/ (m = Len(b2) /\ Fate(b2, p2, t, Len(b2)) # "held")
  BY <1>1, <1>2, <1>3, <1>4, <1>5
<1> QED BY <1>1, <1>3, <1>5, <1>6

(* What was over stays as it was; what was running ends at the new bar or  *)
(* runs on.                                                                *)
LEMMA TradesGrow ==
  ASSUME NEW b, NEW p, NEW b2, NEW p2, Grown(b, p, b2, p2), NEW t, IsTrade(b, p, t)
  PROVE  /\ IsTrade(b2, p2, Again(b2, p2, t))
         /\ Again(b2, p2, t).plan = t.plan /\ Again(b2, p2, t).outlook = t.outlook
         /\ t.resolved => Again(b2, p2, t) = t
         /\ ~t.resolved => Again(b2, p2, t) = IF Fate(b2, p2, t.plan, Len(b2)) = "held" THEN Running(t.plan, t.outlook, Len(b2))
                                            ELSE Closing(t.plan, Len(b2), Fate(b2, p2, t.plan, Len(b2)))
<1>0. Len(b) \in Nat /\ Len(b2) = Len(b) + 1 /\ IsArchive(b, p) /\ IsArchive(b2, p2)
  BY ArchivesAre DEF Grown
<1>1. PICK i \in Ids, k \in 1..Len(b) : i = t.outlook /\ k = t.plan.at
  BY DEF IsTrade
<1>2. k < Len(b) /\ IsAhead(i, b[k].close) /\ IsChance(p, i, k) /\ t = Simulate(b, p, i, k)
  BY <1>1 DEF IsTrade
<1>3. k \in 1..Len(b2) /\ k < Len(b2) /\ IsAhead(i, b2[k].close) /\ IsChance(p2, i, k)
  <2>1. b2[k] = b[k] /\ p2[k] = p[k]
    BY DEF Grown
  <2>2. IsAhead(i, b2[k].close)
    BY <1>2, <2>1
  <2>3. IsChance(p2, i, k)
    BY <1>2, <2>1 DEF IsChance
  <2>4. k \in 1..Len(b2) /\ k < Len(b2)
    BY <1>0, <1>2
  <2> QED BY <2>2, <2>3, <2>4
<1>4. PICK u : u = Again(b2, p2, t)
  OBVIOUS
<1>5. u = Simulate(b2, p2, i, k)
  BY <1>1, <1>4 DEF Again
<1>6. u.outlook = i /\ u.plan.at = k /\ u.plan = PlanAt(b2, i, k)
  BY <1>0, <1>3, <1>5, TradesAre
<1>7. IsTrade(b2, p2, u)
  BY <1>3, <1>5, <1>6 DEF IsTrade
<1>8. u.plan = t.plan
  <2>1. t.plan = PlanAt(b, i, k)
    BY <1>0, <1>1, TradesHave
  <2>2. b2[k] = b[k]
    BY DEF Grown
  <2> QED BY <1>6, <2>1, <2>2 DEF PlanAt
<1> DEFINE pl == t.plan
<1>9. /\ \A m \in 1..Len(b) : Fate(b2, p2, pl, m) = Fate(b, p, pl, m)
      /\ Endings(b2, p2, pl) = Endings(b, p, pl) \cup (IF Fate(b2, p2, pl, Len(b2)) = "held" THEN {} ELSE {Len(b2)})
      /\ \A m \in Endings(b, p, pl) : m < Len(b2)
  <2>1. pl.at \in 1..Len(b)
    BY <1>1
  <2> HIDE DEF pl
  <2> QED BY <2>1, EndingsGrow
<1>10. \A m \in Endings(b2, p2, pl) : m \in Nat
  <2>1. pl.at \in Nat /\ Len(b2) \in Nat
    BY <1>0, <1>1
  <2> QED BY <2>1 DEF Endings
<1>11. ASSUME t.resolved PROVE u = t
  <2>1. t.closes \in Endings(b, p, pl) /\ t = Closing(pl, t.closes, Fate(b, p, pl, t.closes))
    BY <1>0, <1>11, TradesHave
  <2>2. t.closes \in Endings(b2, p2, pl)
    BY <1>9, <2>1
  <2>3. u.resolved = (Endings(b2, p2, pl) # {})
    BY <1>0, <1>7, <1>8, TradesHave
  <2>4. u.resolved
    BY <2>2, <2>3
  <2>5. /\ u.closes \in Endings(b2, p2, pl) /\ \A l \in Endings(b2, p2, pl) : u.closes <= l
        /\ u = Closing(pl, u.closes, Fate(b2, p2, pl, u.closes))
    BY <1>0, <1>7, <1>8, <2>4, TradesHave
  <2>6. u.closes \in Endings(b, p, pl)
    <3>1. u.closes <= t.closes /\ t.closes < Len(b2)
      BY <1>9, <2>1, <2>2, <2>5
    <3>2. u.closes \in Nat /\ t.closes \in Nat
      BY <1>10, <2>2, <2>5
    <3>3. u.closes # Len(b2)
      BY <1>0, <3>1, <3>2
    <3> QED BY <1>9, <2>5, <3>3
  <2>7. t.closes <= u.closes
    BY <1>0, <1>11, <2>6, TradesHave
  <2>8. u.closes = t.closes
    BY <1>10, <2>2, <2>5, <2>7
  <2>9. t.closes \in 1..Len(b)
    BY <1>0, <1>1, <2>1 DEF Endings
  <2>10. Fate(b2, p2, pl, t.closes) = Fate(b, p, pl, t.closes)
    BY <1>9, <2>9
  <2> QED BY <2>1, <2>5, <2>8, <2>10
<1>12. ASSUME ~t.resolved
       PROVE  u = IF Fate(b2, p2, pl, Len(b2)) = "held" THEN Running(pl, t.outlook, Len(b2))
                  ELSE Closing(pl, Len(b2), Fate(b2, p2, pl, Len(b2)))
  <2>1. t.resolved = (Endings(b, p, pl) # {})
    BY <1>0, TradesHave
  <2>2. Endings(b, p, pl) = {}
    BY <1>12, <2>1
  <2>3. u.resolved = (Endings(b2, p2, pl) # {})
    BY <1>0, <1>7, <1>8, TradesHave
  <2>4. CASE Fate(b2, p2, pl, Len(b2)) = "held"
    <3>1. Endings(b2, p2, pl) = {}
      BY <1>9, <2>2, <2>4
    <3>2. ~u.resolved
      BY <2>3, <3>1
    <3>3. u = Running(u.plan, u.outlook, Len(b2))
      BY <1>0, <1>7, <3>2, TradesHave
    <3> QED BY <1>1, <1>6, <1>8, <2>4, <3>3
  <2>5. CASE Fate(b2, p2, pl, Len(b2)) # "held"
    <3>1. Endings(b2, p2, pl) = {Len(b2)}
      BY <1>9, <2>2, <2>5
    <3>2. u.resolved
      BY <2>3, <3>1
    <3>3. u.closes \in Endings(b2, p2, pl) /\ u = Closing(pl, u.closes, Fate(b2, p2, pl, u.closes))
      BY <1>0, <1>7, <1>8, <3>2, TradesHave
    <3>4. u.closes = Len(b2)
      BY <3>1, <3>3
    <3> QED BY <2>5, <3>3, <3>4
  <2> QED BY <2>4, <2>5
<1> QED BY <1>1, <1>4, <1>6, <1>7, <1>8, <1>11, <1>12

(* So at a poll of the shorter archive the same chances are refused.       *)
LEMMA RefusedTheSame ==
  ASSUME NEW b, NEW p, NEW b2, NEW p2, Grown(b, p, b2, p2), NEW W, \A t \in W : IsTrade(b, p, t),
         NEW i, NEW k \in 1..Len(b)
  PROVE  Refused(AllAgain(b2, p2, W), i, k) <=> Refused(W, i, k)
<1>0. Len(b) \in Nat /\ Len(b2) = Len(b) + 1 /\ IsArchive(b, p) /\ k \in Nat /\ k <= Len(b)
  BY ArchivesAre DEF Grown
<1> DEFINE holds(t) == Outlooks[t.outlook].coin = Outlooks[i].coin /\ k <= t.closes
           bars_(t) == /\ t.reason = "stop" /\ k <= EndOfDay(t.closes)
                       /\ Outlooks[t.outlook].coin = Outlooks[i].coin /\ Outlooks[t.outlook].side = Outlooks[i].side
<1>1. \A V : Refused(V, i, k) <=> \E t \in V : holds(t) \/ bars_(t)
  BY DEF Refused
<1>2. ASSUME NEW t \in W, NEW u, u = Again(b2, p2, t)
      PROVE  (holds(u) \/ bars_(u)) <=> (holds(t) \/ bars_(t))
  <2>1. CASE t.resolved
    BY <1>2, <2>1, TradesGrow
  <2>2. CASE ~t.resolved
    <3>1. t = Running(t.plan, t.outlook, Len(b))
      BY <1>0, <2>2, TradesHave
    <3>2. t.closes = Len(b) /\ t.reason = "horizon"
      <4> DEFINE x == t.plan
                 y == t.outlook
      <4>1. t = Running(x, y, Len(b))
        BY <3>1
      <4> HIDE DEF x, y
      <4> QED BY <4>1 DEF Running
    <3>3. u.outlook = t.outlook /\ u.closes = Len(b2)
      <4>1. u.outlook = t.outlook
        BY <1>2, TradesGrow
      <4>2. u = IF Fate(b2, p2, t.plan, Len(b2)) = "held" THEN Running(t.plan, t.outlook, Len(b2))
                ELSE Closing(t.plan, Len(b2), Fate(b2, p2, t.plan, Len(b2)))
        BY <1>2, <2>2, TradesGrow
      <4> QED BY <4>1, <4>2 DEF Running, Closing
    <3> QED BY <1>0, <3>2, <3>3
  <2> QED BY <2>1, <2>2
<1> HIDE DEF holds, bars_
<1>3. \A t \in W : (holds(Again(b2, p2, t)) \/ bars_(Again(b2, p2, t))) <=> (holds(t) \/ bars_(t))
  BY <1>2
<1> QED BY <1>1, <1>3 DEF AllAgain

(* What keeps an outlook of a poll from being let in.                      *)
LEMMA ElseTakenIs ==
  ASSUME NEW b, NEW p, IsArchive(b, p), NEW W, NEW k \in 1..Len(b)
  PROVE  ElseTaken(b, p, W, k) =
           {i \in Ids : IsChance(p, i, k) /\ ~Refused(W, i, k) /\ k < Len(b) /\ IsAhead(i, b[k].close)}
<1>1. ASSUME NEW i \in Ids, IsChance(p, i, k)
      PROVE  Simulate(b, p, i, k) # Nothing <=> k < Len(b) /\ IsAhead(i, b[k].close)
  BY <1>1, TradesAre
<1> QED BY <1>1 DEF ElseTaken

(* So the walk over the polls of the shorter archive finds the same        *)
(* chances.                                                                *)
LEMMA WalkAgain ==
  ASSUME NEW b, NEW p, NEW b2, NEW p2, Grown(b, p, b2, p2), NEW n \in 0..Len(b), n < Len(b)
  PROVE  Walked(b2, p2, n) = AllAgain(b2, p2, Walked(b, p, n))
<1>0. Len(b) \in Nat /\ Len(b2) = Len(b) + 1 /\ IsArchive(b, p) /\ IsArchive(b2, p2)
  BY ArchivesAre DEF Grown
<1> DEFINE Bad == {k \in 0..Len(b) - 1 : Walked(b2, p2, k) # AllAgain(b2, p2, Walked(b, p, k))}
<1>1. ASSUME Bad # {} PROVE FALSE
  <2>1. PICK k \in Bad : \A l \in Bad : k <= l
    <3>1. Bad \in SUBSET Nat
      BY <1>0
    <3> HIDE DEF Bad
    <3> QED BY <1>1, <3>1, LeastNatural
  <2>2. k # 0
    <3>1. Walked(b2, p2, 0) = {} /\ Walked(b, p, 0) = {}
      BY WalkIs
    <3>2. AllAgain(b2, p2, {}) = {}
      BY DEF AllAgain
    <3> QED BY <2>1, <3>1, <3>2
  <2>3. /\ k \in 1..Len(b) /\ k \in 1..Len(b2) /\ k < Len(b) /\ k < Len(b2)
        /\ k - 1 \in 0..Len(b) - 1 /\ k - 1 \in 0..Len(b) /\ ~(k <= k - 1)
    BY <1>0, <2>1, <2>2
  <2>4. PICK W : W = Walked(b, p, k - 1)
    OBVIOUS
  <2>5. Walked(b2, p2, k - 1) = AllAgain(b2, p2, W)
    BY <2>1, <2>3, <2>4
  <2>6. \A t \in W : IsTrade(b, p, t)
    BY <1>0, <2>3, <2>4, WalkedAre
  <2>7. \A i \in Ids : Refused(AllAgain(b2, p2, W), i, k) <=> Refused(W, i, k)
    BY <2>3, <2>6, RefusedTheSame
  <2>8. \A i \in Ids : (IsChance(p2, i, k) <=> IsChance(p, i, k)) /\ b2[k] = b[k]
    BY <2>3 DEF IsChance, Grown
  <2>9. ElseTaken(b2, p2, AllAgain(b2, p2, W), k) = ElseTaken(b, p, W, k)
    <3>1. ElseTaken(b, p, W, k) = {i \in Ids : IsChance(p, i, k) /\ ~Refused(W, i, k) /\ k < Len(b) /\ IsAhead(i, b[k].close)}
      BY <1>0, <2>3, ElseTakenIs
    <3>2. PICK V : V = AllAgain(b2, p2, W)
      OBVIOUS
    <3>3. ElseTaken(b2, p2, V, k) = {i \in Ids : IsChance(p2, i, k) /\ ~Refused(V, i, k) /\ k < Len(b2) /\ IsAhead(i, b2[k].close)}
      BY <1>0, <2>3, ElseTakenIs
    <3> QED BY <2>3, <2>7, <2>8, <3>1, <3>2, <3>3
  <2>10. TakenAt(b2, p2, AllAgain(b2, p2, W), k) = AllAgain(b2, p2, TakenAt(b, p, W, k))
    <3> DEFINE F == Firsts(ElseTaken(b, p, W, k))
    <3>1. \A i \in F : Again(b2, p2, Simulate(b, p, i, k)) = Simulate(b2, p2, i, k)
      <4> SUFFICES ASSUME NEW i \in F PROVE Again(b2, p2, Simulate(b, p, i, k)) = Simulate(b2, p2, i, k)
        OBVIOUS
      <4>1. i \in Ids /\ IsChance(p, i, k) /\ k < Len(b) /\ IsAhead(i, b[k].close)
        BY <1>0, <2>3, ElseTakenIs DEF Firsts
      <4>2. Simulate(b, p, i, k).outlook = i /\ Simulate(b, p, i, k).plan.at = k
        BY <1>0, <2>3, <4>1, TradesAre
      <4> QED BY <4>2 DEF Again
    <3>2. TakenAt(b, p, W, k) = {Simulate(b, p, i, k) : i \in F}
      BY DEF TakenAt
    <3>3. TakenAt(b2, p2, AllAgain(b2, p2, W), k) = {Simulate(b2, p2, i, k) : i \in F}
      BY <2>9 DEF TakenAt
    <3> HIDE DEF F
    <3> QED BY <3>1, <3>2, <3>3 DEF AllAgain
  <2>11. Walked(b, p, k) = W \cup TakenAt(b, p, W, k)
    BY <1>0, <2>3, <2>4, WalkGoesOn
  <2>12. Walked(b2, p2, k) = AllAgain(b2, p2, W) \cup TakenAt(b2, p2, AllAgain(b2, p2, W), k)
    BY <1>0, <2>3, <2>5, WalkGoesOn
  <2>13. AllAgain(b2, p2, W \cup TakenAt(b, p, W, k)) = AllAgain(b2, p2, W) \cup AllAgain(b2, p2, TakenAt(b, p, W, k))
    BY DEF AllAgain
  <2> QED BY <2>1, <2>10, <2>11, <2>12, <2>13
<1>2. n \in 0..Len(b) - 1
  BY <1>0
<1> QED BY <1>1, <1>2

(* What the poll of the last bar would let in.                             *)
Found(b, p) == Walked(b, p, Len(b))
Eligible(b, p, W, k) == {i \in Ids : IsChance(p, i, k) /\ ~Refused(W, i, k) /\ IsAhead(i, b[k].close)}

(* The poll of the last bar has no fill yet.                               *)
LEMMA LastPollFindsNone ==
  ASSUME NEW b, NEW p, IsArchive(b, p), Len(b) > 0
  PROVE  Found(b, p) = Walked(b, p, Len(b) - 1)
<1>1. Len(b) \in 1..Len(b) /\ ~(Len(b) < Len(b))
  BY ArchivesAre
<1>2. PICK W : W = Walked(b, p, Len(b) - 1)
  OBVIOUS
<1>3. ElseTaken(b, p, W, Len(b)) = {}
  BY <1>1, ElseTakenIs
<1>4. TakenAt(b, p, W, Len(b)) = {}
  BY <1>3 DEF TakenAt, Firsts
<1>5. PICK k \in 1..Len(b) : k = Len(b)
  BY <1>1
<1>6. Walked(b, p, k) = W \cup TakenAt(b, p, W, k)
  BY <1>2, <1>5, WalkGoesOn
<1> QED BY <1>2, <1>4, <1>5, <1>6 DEF Found

(* The longer archive has the old trades again, and those the old last     *)
(* poll lets in.                                                           *)
LEMMA FoundGrows ==
  ASSUME NEW b, NEW p, NEW b2, NEW p2, Grown(b, p, b2, p2)
  PROVE  IF Len(b) = 0 THEN Found(b2, p2) = {} /\ Found(b, p) = {}
         ELSE Found(b2, p2) = AllAgain(b2, p2, Found(b, p))
                \cup {Simulate(b2, p2, i, Len(b)) : i \in Firsts(Eligible(b, p, Found(b, p), Len(b)))}
<1>0. Len(b) \in Nat /\ Len(b2) = Len(b) + 1 /\ IsArchive(b, p) /\ IsArchive(b2, p2)
  BY ArchivesAre DEF Grown
<1>1. Len(b2) > 0 /\ Len(b2) - 1 = Len(b)
  BY <1>0
<1>2. Found(b2, p2) = Walked(b2, p2, Len(b))
  BY <1>0, <1>1, LastPollFindsNone
<1>3. CASE Len(b) = 0
  BY <1>2, <1>3, WalkIs DEF Found
<1>4. CASE Len(b) # 0
  <2>1. PICK k : k = Len(b)
    OBVIOUS
  <2>2. k \in 1..Len(b) /\ k \in 1..Len(b2) /\ k < Len(b2) /\ k - 1 \in 0..Len(b) /\ k - 1 < Len(b) /\ Len(b) > 0
    BY <1>0, <1>4, <2>1
  <2>3. PICK W : W = Found(b, p)
    OBVIOUS
  <2>4. W = Walked(b, p, k - 1)
    BY <1>0, <2>1, <2>2, <2>3, LastPollFindsNone
  <2>5. Walked(b2, p2, k - 1) = AllAgain(b2, p2, W)
    BY <2>2, <2>4, WalkAgain
  <2>6. PICK V : V = AllAgain(b2, p2, W)
    OBVIOUS
  <2>7. Walked(b2, p2, k) = V \cup TakenAt(b2, p2, V, k)
    BY <1>0, <2>2, <2>5, <2>6, WalkGoesOn
  <2>8. \A t \in W : IsTrade(b, p, t)
    BY <1>0, <2>2, <2>4, WalkedAre
  <2>9. \A i \in Ids : Refused(V, i, k) <=> Refused(W, i, k)
    BY <2>2, <2>6, <2>8, RefusedTheSame
  <2>10. \A i \in Ids : (IsChance(p2, i, k) <=> IsChance(p, i, k)) /\ b2[k] = b[k]
    BY <2>2 DEF IsChance, Grown
  <2>11. ElseTaken(b2, p2, V, k) = Eligible(b, p, W, k)
    <3>1. ElseTaken(b2, p2, V, k) = {i \in Ids : IsChance(p2, i, k) /\ ~Refused(V, i, k) /\ k < Len(b2) /\ IsAhead(i, b2[k].close)}
      BY <1>0, <2>2, ElseTakenIs
    <3> QED BY <2>2, <2>9, <2>10, <3>1 DEF Eligible
  <2>12. TakenAt(b2, p2, V, k) = {Simulate(b2, p2, i, k) : i \in Firsts(Eligible(b, p, W, k))}
    BY <2>11 DEF TakenAt
  <2> QED BY <1>2, <1>4, <2>1, <2>3, <2>6, <2>7, <2>12
<1> QED BY <1>3, <1>4

(* The days of an archive.                                                 *)
LEMMA DayIs ==
  ASSUME start \in Nat, NEW m \in Nat, NEW d \in Int
  PROVE  /\ DayOfBar(m) \in Int
         /\ DayOfBar(m) = d <=> d * BarsInDay <= m + start /\ m + start < (d + 1) * BarsInDay
<1> DEFINE x == m + start
<1>1. x \in Nat /\ BarsInDay \in Nat \ {0}
  BY WalkAssumption
<1>2. DayOfBar(m) = x \div BarsInDay
  BY DEF DayOfBar
<1> HIDE DEF x
<1>3. x \div BarsInDay \in Int /\ (x \div BarsInDay = d <=> d * BarsInDay <= x /\ x < (d + 1) * BarsInDay)
  BY <1>1
<1> QED BY <1>2, <1>3 DEF x

(* A stop spends its coin and side for as long as the day it exited on     *)
(* lasts.                                                                  *)
LEMMA DayEnds ==
  ASSUME start \in Nat, NEW m \in Nat, NEW k \in Nat, m <= k
  PROVE  k <= EndOfDay(m) <=> DayOfBar(k) = DayOfBar(m)
<1>1. PICK d \in Int : d = DayOfBar(m)
  BY DayIs
<1>2. d * BarsInDay <= m + start /\ m + start < (d + 1) * BarsInDay
  BY <1>1, DayIs
<1>3. DayOfBar(k) = d <=> d * BarsInDay <= k + start /\ k + start < (d + 1) * BarsInDay
  BY DayIs
<1>4. PICK low \in Int, high \in Int : low = d * BarsInDay /\ high = (d + 1) * BarsInDay
  BY WalkAssumption
<1>5. EndOfDay(m) = high - 1 - start
  BY <1>1, <1>4 DEF EndOfDay
<1> QED BY <1>1, <1>2, <1>3, <1>4, <1>5

(* The walk looks at the archive and the hour it begins at, so a step that *)
(* keeps the hour walks an archive alike.                                  *)
LEMMA ConsidersNext ==
  ASSUME start' = start, NEW CONSTANT b, NEW CONSTANT p, NEW CONSTANT V, NEW CONSTANT i, NEW CONSTANT k
  PROVE  Considers(b, p, V, i, k)' = Considers(b, p, V, i, k)
<1>1. Refused(V, i, k)' <=> Refused(V, i, k)
  BY DEF Refused, EndOfDay, DayOfBar
<1> QED BY <1>1 DEF Considers

PollsAreWalked ==
  \A b, p, W, k : \E g : /\ g[0] = W /\ AtPoll(b, p, W, k) = g[Len(Outlooks)]
                         /\ \A i \in Ids : g[i] = Considers(b, p, g[i - 1], i, k)

(* What holds of any state holds of the next.                              *)
LEMMA PollsAreWalkedEver == PollsAreWalked /\ PollsAreWalked'
<1>1. PollsAreWalked
  BY PollWalkIs DEF PollsAreWalked
<1> QED BY <1>1, PTL

LEMMA AtPollNext ==
  ASSUME start' = start, NEW CONSTANT b, NEW CONSTANT p, NEW CONSTANT W, NEW CONSTANT k
  PROVE  AtPoll(b, p, W, k)' = AtPoll(b, p, W, k)
<1>0. Len(Outlooks) \in Nat /\ Ids = 1..Len(Outlooks)
  BY OutlooksAre
<1>1. PICK g : /\ g[0] = W /\ AtPoll(b, p, W, k) = g[Len(Outlooks)]
               /\ \A i \in Ids : g[i] = Considers(b, p, g[i - 1], i, k)
  BY PollWalkIs
<1>2. \E f : /\ f[0] = W /\ AtPoll(b, p, W, k)' = f[Len(Outlooks)]
             /\ \A i \in Ids : f[i] = Considers(b, p, f[i - 1], i, k)'
  BY PollsAreWalkedEver DEF PollsAreWalked
<1>3. PICK f : /\ f[0] = W /\ AtPoll(b, p, W, k)' = f[Len(Outlooks)]
               /\ \A i \in Ids : f[i] = Considers(b, p, f[i - 1], i, k)
  BY <1>2, ConsidersNext
<1> DEFINE Bad == {n \in 0..Len(Outlooks) : f[n] # g[n]}
<1>4. ASSUME Bad # {} PROVE FALSE
  <2>1. PICK n \in Bad : \A l \in Bad : n <= l
    <3>1. Bad \in SUBSET Nat
      BY <1>0
    <3> HIDE DEF Bad
    <3> QED BY <1>4, <3>1, LeastNatural
  <2>2. n # 0
    BY <1>1, <1>3, <2>1
  <2>3. n \in Ids /\ n - 1 \in 0..Len(Outlooks) /\ ~(n <= n - 1)
    BY <1>0, <2>1, <2>2
  <2>4. f[n - 1] = g[n - 1]
    BY <2>1, <2>3
  <2> QED BY <1>1, <1>3, <2>1, <2>3, <2>4
<1>5. f[Len(Outlooks)] = g[Len(Outlooks)]
  BY <1>0, <1>4
<1> QED BY <1>1, <1>3, <1>5

WalksAre ==
  \A b, p : Walked(b, p, 0) = {} /\ \A k \in Nat \ {0} : \E W : W = Walked(b, p, k - 1) /\ Walked(b, p, k) = AtPoll(b, p, W, k)

LEMMA WalksAreEver == WalksAre /\ WalksAre'
<1>1. WalksAre
  BY WalkIs DEF WalksAre
<1> QED BY <1>1, PTL

LEMMA WalkedNext ==
  ASSUME start' = start, NEW CONSTANT b, NEW CONSTANT p, NEW CONSTANT n \in Nat
  PROVE  Walked(b, p, n)' = Walked(b, p, n)
<1> DEFINE Bad == {m \in Nat : Walked(b, p, m)' # Walked(b, p, m)}
<1>1. ASSUME Bad # {} PROVE FALSE
  <2>1. PICK m \in Bad : \A l \in Bad : m <= l
    <3>1. Bad \in SUBSET Nat
      OBVIOUS
    <3> HIDE DEF Bad
    <3> QED BY <1>1, <3>1, LeastNatural
  <2>2. m # 0
    BY <2>1, WalksAreEver DEF WalksAre
  <2>3. m \in Nat \ {0} /\ m - 1 \in Nat /\ ~(m <= m - 1)
    BY <2>1, <2>2
  <2>4. Walked(b, p, m - 1)' = Walked(b, p, m - 1)
    BY <2>1, <2>3
  <2>5. \E W : W = Walked(b, p, m - 1)' /\ Walked(b, p, m)' = AtPoll(b, p, W, m)'
    BY <2>3, WalksAreEver DEF WalksAre
  <2>6. \E W : W = Walked(b, p, m - 1) /\ Walked(b, p, m) = AtPoll(b, p, W, m)
    BY <2>3, WalksAreEver DEF WalksAre
  <2>7. \A W : AtPoll(b, p, W, m)' = AtPoll(b, p, W, m)
    BY AtPollNext
  <2> QED BY <2>1, <2>4, <2>5, <2>6, <2>7
<1> QED BY <1>1

-----------------------------------------------------------------------------
(* The desk beside the walk. *)

(* Who the poll of the last bar lets in, and what one bar more makes of a  *)
(* plan.                                                                   *)
CoinOf(t) == Outlooks[t.outlook].coin
Entering(b, p) == IF Len(b) = 0 THEN {} ELSE Firsts(Eligible(b, p, Found(b, p), Len(b)))
Fated(b2, p2, t) == IF Fate(b2, p2, t, Len(b2)) = "held" THEN Running(t, t.outlook, Len(b2))
                    ELSE Closing(t, Len(b2), Fate(b2, p2, t, Len(b2)))

(* The trades of an archive that has bars are those of its earlier polls.  *)
LEMMA FoundThen ==
  ASSUME NEW b, NEW p, NEW b2, NEW p2, Grown(b, p, b2, p2)
  PROVE  Found(b2, p2) = AllAgain(b2, p2, Found(b, p)) \cup {Simulate(b2, p2, i, Len(b)) : i \in Entering(b, p)}
<1>1. CASE Len(b) = 0
  <2>1. Found(b2, p2) = {} /\ Found(b, p) = {}
    BY <1>1, FoundGrows
  <2>2. Entering(b, p) = {}
    BY <1>1 DEF Entering
  <2> QED BY <2>1, <2>2 DEF AllAgain
<1>2. CASE Len(b) # 0
  <2>1. Entering(b, p) = Firsts(Eligible(b, p, Found(b, p), Len(b)))
    BY <1>2 DEF Entering
  <2> QED BY <1>2, <2>1, FoundGrows
<1> QED BY <1>1, <1>2

(* Who enters is planned on the last close, one on a coin.                 *)
LEMMA EnteringAre ==
  ASSUME NEW b, NEW p, IsArchive(b, p), NEW i \in Entering(b, p)
  PROVE  /\ i \in Ids /\ i # 0 /\ Len(b) \in Nat \ {0} /\ IsChance(p, i, Len(b)) /\ IsAhead(i, b[Len(b)].close)
         /\ PlanAt(b, i, Len(b)).at = Len(b) /\ PlanAt(b, i, Len(b)).outlook = i
<1>1. Len(b) \in Nat
  BY ArchivesAre
<1>2. Len(b) # 0 /\ i \in Firsts(Eligible(b, p, Found(b, p), Len(b)))
  BY DEF Entering
<1>3. i \in Eligible(b, p, Found(b, p), Len(b))
  BY <1>2 DEF Firsts
<1>4. i \in Ids /\ IsChance(p, i, Len(b)) /\ IsAhead(i, b[Len(b)].close)
  BY <1>3 DEF Eligible
<1>5. i # 0
  BY <1>4, OutlooksAre
<1> QED BY <1>1, <1>2, <1>4, <1>5 DEF PlanAt, Plan

(* A chance is one the last poll may enter.                                *)
LEMMA ChancesAre ==
  ASSUME NEW b, NEW p, IsArchive(b, p), NEW i \in Ids, NEW k \in 1..Len(b), IsChance(p, i, k),
         k < Len(b), IsAhead(i, b[k].close), NEW t, t = Simulate(b, p, i, k)
  PROVE  IsTrade(b, p, t) /\ t.plan = PlanAt(b, i, k) /\ t.outlook = i /\ t.plan.at = k
<1>1. t.plan = PlanAt(b, i, k) /\ t.outlook = i /\ t.plan.at = k
  BY TradesAre
<1> QED BY <1>1 DEF IsTrade

(* Who entered on the old last poll is a trade of the longer archive.      *)
LEMMA EnteredGrow ==
  ASSUME NEW b, NEW p, NEW b2, NEW p2, Grown(b, p, b2, p2), NEW i \in Entering(b, p)
  PROVE  Simulate(b2, p2, i, Len(b)) = Fated(b2, p2, PlanAt(b, i, Len(b)))
<1>0. Len(b) \in Nat /\ Len(b2) = Len(b) + 1 /\ IsArchive(b, p) /\ IsArchive(b2, p2)
  BY ArchivesAre DEF Grown
<1>1. PICK n : n = Len(b)
  OBVIOUS
<1>2. i \in Ids /\ n \in 1..Len(b) /\ n \in 1..Len(b2) /\ n < Len(b2) /\ IsChance(p, i, n) /\ IsAhead(i, b[n].close)
  BY <1>0, <1>1, EnteringAre
<1>3. IsChance(p2, i, n) /\ IsAhead(i, b2[n].close)
  BY <1>2 DEF Grown, IsChance
<1>p. PlanAt(b2, i, n) = PlanAt(b, i, n)
  BY <1>2 DEF Grown, PlanAt
<1>a. IsArchive(b2, p2) /\ i \in Ids /\ n \in 1..Len(b2) /\ IsChance(p2, i, n) /\ n < Len(b2) /\ IsAhead(i, b2[n].close)
  BY <1>0, <1>2, <1>3
<1>4. PICK t : t = Simulate(b2, p2, i, n)
  OBVIOUS
<1>b. IsTrade(b2, p2, t) /\ t.plan = PlanAt(b2, i, n) /\ t.outlook = i /\ t.plan.at = n
  BY <1>a, <1>4, ChancesAre
<1>t. t.plan = PlanAt(b2, i, n) /\ t.plan.at = n /\ t.plan.outlook = i
  BY <1>0, <1>b, TradesHave
<1>r. t.resolved = (Endings(b2, p2, t.plan) # {})
  BY <1>0, <1>b, TradesHave
<1>s. ~t.resolved => t = Running(t.plan, i, Len(b2))
  BY <1>0, <1>b, TradesHave
<1>u. t.resolved => t.closes \in Endings(b2, p2, t.plan) /\ t = Closing(t.plan, t.closes, Fate(b2, p2, t.plan, t.closes))
  BY <1>0, <1>b, TradesHave
<1>5. PICK x : x = t.plan
  OBVIOUS
<1>6. \A m : m \in Endings(b2, p2, x) <=> m = Len(b2) /\ Fate(b2, p2, x, m) # "held"
  <2>1. \A m : m \in n + 1..Len(b2) <=> m = Len(b2)
    BY <1>0, <1>1
  <2> QED BY <1>t, <1>5, <2>1 DEF Endings
<1>7. CASE Fate(b2, p2, x, Len(b2)) = "held"
  <2>1. Endings(b2, p2, x) = {}
    BY <1>6, <1>7
  <2>2. ~t.resolved
    BY <1>r, <1>5, <2>1
  <2> QED BY <1>1, <1>4, <1>p, <1>t, <1>s, <1>5, <1>7, <2>2 DEF Fated
<1>8. CASE Fate(b2, p2, x, Len(b2)) # "held"
  <2>1. Endings(b2, p2, x) # {}
    BY <1>6, <1>8
  <2>2. t.resolved
    BY <1>r, <1>5, <2>1
  <2>3. t.closes = Len(b2)
    BY <1>u, <1>5, <1>6, <2>2
  <2> QED BY <1>1, <1>4, <1>p, <1>t, <1>u, <1>5, <1>8, <2>2, <2>3 DEF Fated
<1> QED BY <1>7, <1>8

(* The book h holds what the walk has running and what it is about to let  *)
(* in, and nothing else.                                                   *)
HoldsTheWalk(b, p, h) ==
  /\ \A t \in Found(b, p) : ~t.resolved => h[CoinOf(t)] = t.plan
  /\ \A i \in Entering(b, p) : h[Outlooks[i].coin] = PlanAt(b, i, Len(b))
  /\ \A c \in Coins : h[c] # Nothing =>
       \/ \E t \in Found(b, p) : ~t.resolved /\ t.plan = h[c] /\ CoinOf(t) = c
       \/ \E i \in Entering(b, p) : Outlooks[i].coin = c
Held(h) == {c \in Coins : h[c] # Nothing}

(* What is found is a trade, and opened before the last bar.               *)
LEMMA FoundAre ==
  ASSUME NEW b, NEW p, IsArchive(b, p), NEW t \in Found(b, p)
  PROVE  IsTrade(b, p, t) /\ CoinOf(t) \in Coins /\ t.plan # Nothing /\ t.plan.at < Len(b)
<1>1. Len(b) \in 0..Len(b)
  BY ArchivesAre
<1>2. IsTrade(b, p, t)
  BY <1>1, WalkedAre DEF Found
<1>3. t.outlook \in Ids /\ t.outlook # 0 /\ t.plan.at < Len(b)
  BY <1>2, OutlooksAre DEF IsTrade
<1>4. t.plan.outlook = t.outlook
  BY <1>2, TradesHave
<1>5. t.plan # Nothing
  BY <1>3, <1>4 DEF Nothing
<1> QED BY <1>2, <1>3, <1>5, OutlooksAre DEF CoinOf

(* What is found after one bar more: the old trades and the old book.      *)
LEMMA FoundNext ==
  ASSUME NEW b, NEW p, NEW b2, NEW p2, Grown(b, p, b2, p2), NEW h, HoldsTheWalk(b, p, h)
  PROVE  Found(b2, p2) = {t \in Found(b, p) : t.resolved} \cup {Fated(b2, p2, h[c]) : c \in Held(h)}
<1>0. IsArchive(b, p) /\ IsArchive(b2, p2)
  BY DEF Grown
<1> DEFINE W == Found(b, p)
           over == {t \in W : t.resolved}
           fresh == {Fated(b2, p2, h[c]) : c \in Held(h)}
<1>1. ASSUME NEW t \in W, ~t.resolved
      PROVE  CoinOf(t) \in Held(h) /\ Again(b2, p2, t) = Fated(b2, p2, h[CoinOf(t)])
  <2>1. IsTrade(b, p, t) /\ CoinOf(t) \in Coins /\ t.plan # Nothing /\ t.plan.outlook = t.outlook
    BY <1>0, FoundAre, TradesHave
  <2>2. h[CoinOf(t)] = t.plan
    BY <1>1 DEF HoldsTheWalk
  <2>3. Again(b2, p2, t) = IF Fate(b2, p2, t.plan, Len(b2)) = "held" THEN Running(t.plan, t.outlook, Len(b2))
                           ELSE Closing(t.plan, Len(b2), Fate(b2, p2, t.plan, Len(b2)))
    BY <1>1, <2>1, TradesGrow
  <2> QED BY <2>1, <2>2, <2>3 DEF Held, Fated
<1>2. ASSUME NEW t \in W, t.resolved
      PROVE  Again(b2, p2, t) = t
  BY <1>0, <1>2, FoundAre, TradesGrow
<1>3. ASSUME NEW i \in Entering(b, p)
      PROVE  Outlooks[i].coin \in Held(h) /\ Simulate(b2, p2, i, Len(b)) = Fated(b2, p2, h[Outlooks[i].coin])
  <2>1. i \in Ids /\ PlanAt(b, i, Len(b)).outlook = i /\ i # 0
    BY <1>0, EnteringAre
  <2>2. h[Outlooks[i].coin] = PlanAt(b, i, Len(b))
    BY DEF HoldsTheWalk
  <2>3. PlanAt(b, i, Len(b)) # Nothing
    BY <2>1 DEF Nothing
  <2> QED BY <2>1, <2>2, <2>3, EnteredGrow, OutlooksAre DEF Held
<1>4. Found(b2, p2) = AllAgain(b2, p2, W) \cup {Simulate(b2, p2, i, Len(b)) : i \in Entering(b, p)}
  BY FoundThen
<1>5. ASSUME NEW u \in Found(b2, p2) PROVE u \in over \cup fresh
  <2>1. CASE u \in AllAgain(b2, p2, W)
    <3>1. PICK t \in W : u = Again(b2, p2, t)
      BY <2>1 DEF AllAgain
    <3> QED BY <1>1, <1>2, <3>1
  <2>2. CASE u \in {Simulate(b2, p2, i, Len(b)) : i \in Entering(b, p)}
    BY <1>3, <2>2
  <2> QED BY <1>4, <2>1, <2>2
<1>6. ASSUME NEW u \in over PROVE u \in Found(b2, p2)
  BY <1>2, <1>4, <1>6 DEF AllAgain
<1>7. ASSUME NEW c \in Held(h) PROVE Fated(b2, p2, h[c]) \in Found(b2, p2)
  <2>1. c \in Coins /\ h[c] # Nothing
    BY DEF Held
  <2>2. CASE \E t \in W : ~t.resolved /\ t.plan = h[c] /\ CoinOf(t) = c
    <3>1. PICK t \in W : ~t.resolved /\ CoinOf(t) = c
      BY <2>2
    <3>2. Again(b2, p2, t) = Fated(b2, p2, h[c])
      BY <1>1, <3>1
    <3> QED BY <1>4, <3>2 DEF AllAgain
  <2>3. CASE \E i \in Entering(b, p) : Outlooks[i].coin = c
    BY <1>3, <1>4, <2>3
  <2> QED BY <2>1, <2>2, <2>3 DEF HoldsTheWalk
<1> QED BY <1>5, <1>6, <1>7

(* The same of the next state.                                             *)
LEMMA FoundNow ==
  ASSUME start' = start, NEW CONSTANT b, NEW CONSTANT p, NEW CONSTANT h, IsArchive(b, p), b = bars', p = feed', h = book'
  PROVE  Found(bars, feed)' = Found(b, p) /\ (HoldsTheWalk(bars, feed, book)' <=> HoldsTheWalk(b, p, h))
<1>1. Len(b) \in Nat
  BY ArchivesAre
<1>2. PICK n \in Nat : n = Len(b)
  BY <1>1
<1>3. Walked(b, p, n)' = Walked(b, p, n)
  BY WalkedNext
<1>4. Found(bars, feed)' = Walked(b, p, n)'
  BY <1>2 DEF Found
<1>5. Found(bars, feed)' = Found(b, p)
  BY <1>2, <1>3, <1>4 DEF Found
<1>6. PICK W : W = Found(b, p)
  OBVIOUS
<1>7. \A i : Refused(W, i, n)' <=> Refused(W, i, n)
  BY DEF Refused, EndOfDay, DayOfBar
<1>8. Eligible(b, p, W, n)' = Eligible(b, p, W, n)
  BY <1>7 DEF Eligible
<1>9. Entering(bars, feed)' = IF n = 0 THEN {} ELSE Firsts(Eligible(b, p, W, n)')
  BY <1>2, <1>5, <1>6 DEF Entering
<1>10. Entering(b, p) = IF n = 0 THEN {} ELSE Firsts(Eligible(b, p, W, n))
  BY <1>2, <1>6 DEF Entering
<1>11. Entering(bars, feed)' = Entering(b, p)
  BY <1>8, <1>9, <1>10
<1>12. HoldsTheWalk(bars, feed, book)' <=>
         /\ \A t \in W : ~t.resolved => h[CoinOf(t)] = t.plan
         /\ \A i \in Entering(b, p) : h[Outlooks[i].coin] = PlanAt(b, i, Len(b))
         /\ \A c \in Coins : h[c] # Nothing =>
              \/ \E t \in W : ~t.resolved /\ t.plan = h[c] /\ CoinOf(t) = c
              \/ \E i \in Entering(b, p) : Outlooks[i].coin = c
  BY <1>5, <1>6, <1>11 DEF HoldsTheWalk
<1>13. HoldsTheWalk(b, p, h) <=>
         /\ \A t \in W : ~t.resolved => h[CoinOf(t)] = t.plan
         /\ \A i \in Entering(b, p) : h[Outlooks[i].coin] = PlanAt(b, i, Len(b))
         /\ \A c \in Coins : h[c] # Nothing =>
              \/ \E t \in W : ~t.resolved /\ t.plan = h[c] /\ CoinOf(t) = c
              \/ \E i \in Entering(b, p) : Outlooks[i].coin = c
  BY <1>6 DEF HoldsTheWalk
<1> QED BY <1>5, <1>6, <1>12, <1>13

(* The strongest of some outlooks is one of them, and goes before the rest. *)
LEMMA StrongestIs ==
  ASSUME NEW poll, NEW S \in SUBSET Ids, S # {}, \A i \in S : poll[i].sigma \in Nat
  PROVE  Strongest(poll, S) \in S /\ \A j \in S \ {Strongest(poll, S)} : GoesBefore(poll, Strongest(poll, S), j)
<1>1. S \in SUBSET Nat /\ IsFiniteSet(S)
  <2>1. Len(Outlooks) \in Nat /\ Ids = 1..Len(Outlooks)
    BY OutlooksAre
  <2>2. IsFiniteSet(Ids) /\ Ids \subseteq Nat
    BY <2>1, FS_Interval
  <2> QED BY <2>2, FS_Subset
<1> DEFINE strengths == {poll[i].sigma : i \in S}
<1>2. IsFiniteSet(strengths) /\ strengths \in SUBSET Int /\ strengths # {}
  <2> DEFINE f == [i \in S |-> poll[i].sigma]
  <2>1. f \in Surjection(S, strengths)
    BY DEF Surjection
  <2>2. strengths \in SUBSET Int /\ strengths # {}
    OBVIOUS
  <2> HIDE DEF f, strengths
  <2> QED BY <1>1, <2>1, <2>2, FS_Surjection
<1>3. PICK m \in strengths : \A x \in strengths : m >= x
  <2> HIDE DEF strengths
  <2> QED BY <1>2, GreatestOfFinite
<1> DEFINE best == {i \in S : poll[i].sigma = m}
<1>4. PICK e \in best : \A j \in best : e <= j
  <2>1. best \in SUBSET Nat /\ best # {}
    BY <1>1, <1>3
  <2> HIDE DEF best
  <2> QED BY <2>1, LeastNatural
<1>5. e \in S /\ \A j \in S \ {e} : GoesBefore(poll, e, j)
  <2>1. ASSUME NEW j \in S \ {e} PROVE GoesBefore(poll, e, j)
    <3>1. e \in Nat /\ j \in Nat /\ e # j /\ poll[e].sigma = m /\ poll[e].sigma \in Nat /\ poll[j].sigma \in Nat
      BY <1>1, <1>4
    <3>2. poll[e].sigma >= poll[j].sigma
      BY <1>3, <3>1
    <3>3. CASE poll[j].sigma = m
      <4>1. e <= j
        BY <1>4, <3>3
      <4> QED BY <3>1, <3>3, <4>1 DEF GoesBefore
    <3>4. CASE poll[j].sigma # m
      BY <3>1, <3>2, <3>4 DEF GoesBefore
    <3> QED BY <3>3, <3>4
  <2> QED BY <1>4, <2>1
<1> QED BY <1>5 DEF Strongest

(* Whom the desk lets in of a coin, on the poll being read.                *)
Chosen(c, k) == Strongest(feed'[k], Enters(c, k))

(* The bars and polls grow by one, and the book is settled on the new bar. *)
LEMMA BarClosesIs ==
  ASSUME BarCloses, IsArchive(bars, feed)
  PROVE  LET k == Len(bars) + 1
             ends(c) == book[c] # Nothing /\ Fate(bars', feed', book[c], k) # "held"
         IN  /\ start' = start /\ Len(bars') = k /\ Grown(bars, feed, bars', feed')
             /\ \A t : t \in did' <=> t \in did \/ \E c \in Coins : ends(c) /\ t = Closing(book[c], k, Fate(bars', feed', book[c], k))
             /\ \A x : x \in spent' <=>
                  x \in spent \/ \E c \in Coins : /\ ends(c) /\ Fate(bars', feed', book[c], k) = "stop"
                                                  /\ x = <<c, Outlooks[book[c].outlook].side, DayOfBar(k)>>
             /\ waited' = (waited \/ \E c \in Coins : \E i \in Wants(c, k) : PredatesClose(i, k))
             /\ ranked' = (ranked \/ \E c \in Coins : Enters(c, k) # {} /\ Chosen(c, k) # Earliest(Enters(c, k)))
             /\ book' = [c \in Coins |-> IF ends(c) THEN Nothing
                                         ELSE IF Enters(c, k) # {} THEN PlanAt(bars', Chosen(c, k), k) ELSE book[c]]
<1> DEFINE k == Len(bars) + 1
           fate(c) == Fate(bars', feed', book[c], k)
           ended == {c \in Coins : book[c] # Nothing /\ fate(c) # "held"}
<1>1. Len(bars) \in Nat /\ Len(feed) = Len(bars) /\ bars \in Seq([lo : Int, hi : Int, close : Int]) /\ feed \in Seq(Reports)
  BY ArchivesAre DEF IsArchive
<1>2. PICK shape \in Candles :
        bars' = Append(bars, [lo |-> OpenOf(bars, k) + shape.lo, hi |-> OpenOf(bars, k) + shape.hi, close |-> OpenOf(bars, k) + shape.close])
  BY DEF BarCloses
<1>3. PICK reading \in Reports : feed' = Append(feed, reading)
  BY DEF BarCloses
<1>4. OpenOf(bars, k) \in Int
  BY <1>1, ArchivesAre DEF OpenOf, Opening
<1>5. shape.lo \in Int /\ shape.hi \in Int /\ shape.close \in Int
  BY ArchiveAssumption
<1>6. PICK candle \in [lo : Int, hi : Int, close : Int] : bars' = Append(bars, candle)
  BY <1>2, <1>4, <1>5
<1>7. /\ bars' \in Seq([lo : Int, hi : Int, close : Int]) /\ Len(bars') = k
      /\ \A m \in 1..Len(bars) : bars'[m] = bars[m]
  BY <1>1, <1>6, AppendProperties
<1>8. feed' \in Seq(Reports) /\ Len(feed') = k /\ \A m \in 1..Len(bars) : feed'[m] = feed[m]
  BY <1>1, <1>3, AppendProperties
<1>9. Grown(bars, feed, bars', feed')
  BY <1>7, <1>8 DEF Grown, IsArchive
<1>10. /\ did' = did \cup {Closing(book[c], k, fate(c)) : c \in ended}
       /\ spent' = spent \cup {<<c, Outlooks[book[c].outlook].side, DayOfBar(k)>> : c \in {c \in ended : fate(c) = "stop"}}
       /\ waited' = (waited \/ \E c \in Coins : \E i \in Wants(c, k) : PredatesClose(i, k))
       /\ ranked' = (ranked \/ \E c \in Coins : Enters(c, k) # {} /\ Chosen(c, k) # Earliest(Enters(c, k)))
       /\ book' = [c \in Coins |->
            IF c \in ended THEN Nothing
            ELSE IF Enters(c, k) # {} THEN Plan(Chosen(c, k), k, bars'[k].close, bars'[k].close)
            ELSE book[c]]
       /\ start' = start
  BY DEF BarCloses, Fate, Chosen
<1> HIDE DEF fate
<1>11. \A t : t \in did' <=> t \in did \/ \E c \in Coins : (book[c] # Nothing /\ fate(c) # "held") /\ t = Closing(book[c], k, fate(c))
  BY <1>10
<1>12. \A x : x \in spent' <=>
         x \in spent \/ \E c \in Coins : /\ (book[c] # Nothing /\ fate(c) # "held") /\ fate(c) = "stop"
                                         /\ x = <<c, Outlooks[book[c].outlook].side, DayOfBar(k)>>
  BY <1>10
<1>13. book' = [c \in Coins |-> IF book[c] # Nothing /\ fate(c) # "held" THEN Nothing
                                ELSE IF Enters(c, k) # {} THEN PlanAt(bars', Chosen(c, k), k) ELSE book[c]]
  BY <1>10 DEF PlanAt
<1> QED BY <1>7, <1>9, <1>10, <1>11, <1>12, <1>13 DEF fate

(* The desk beside the walk: what a stop has spent is what the finished    *)
(* trades say, and where no forecast was refused for its age and no        *)
(* stronger outlook went before one the feed names first, the finished     *)
(* trades and the book are the walk's.                                     *)
ReplayIs ==
  /\ start \in Nat /\ IsArchive(bars, feed)
  /\ \A c \in Held(book) : book[c].outlook \in Ids /\ Outlooks[book[c].outlook].coin = c
SpentIs ==
  \A x : x \in spent <=> \E t \in did : t.reason = "stop" /\ x = <<CoinOf(t), Outlooks[t.outlook].side, DayOfBar(t.closes)>>
AsWalked == did = {t \in Found(bars, feed) : t.resolved} /\ HoldsTheWalk(bars, feed, book)
ReplayInv == ReplayIs /\ SpentIs /\ (~waited /\ ~ranked => AsWalked)

(* What one bar more makes of a plan has that plan and that outlook.       *)
LEMMA FatedAre ==
  ASSUME NEW b2, NEW p2, NEW t
  PROVE  /\ Fated(b2, p2, t).closes = Len(b2) /\ Fated(b2, p2, t).outlook = t.outlook /\ Fated(b2, p2, t).plan = t
         /\ Fate(b2, p2, t, Len(b2)) = "held" => ~Fated(b2, p2, t).resolved
         /\ Fate(b2, p2, t, Len(b2)) # "held" => Fated(b2, p2, t).resolved /\ Fated(b2, p2, t) = Closing(t, Len(b2), Fate(b2, p2, t, Len(b2)))
BY DEF Fated, Running, Closing

(* A chance on the next poll is refused if its coin is held or its side    *)
(* spent today.                                                            *)
LEMMA RefusedNext ==
  ASSUME ReplayIs, SpentIs, AsWalked, NEW b2, NEW p2, Grown(bars, feed, b2, p2), NEW i \in Ids
  PROVE  Refused(Found(b2, p2), i, Len(b2)) <=>
           \/ book[Outlooks[i].coin] # Nothing
           \/ <<Outlooks[i].coin, Outlooks[i].side, DayOfBar(Len(b2))>> \in spent
<1>0. Len(bars) \in Nat /\ Len(b2) = Len(bars) + 1 /\ IsArchive(bars, feed) /\ start \in Nat
  BY ArchivesAre DEF Grown, ReplayIs
<1>1. PICK k \in Nat : k = Len(b2)
  BY <1>0
<1>2. PICK W : W = Found(b2, p2)
  OBVIOUS
<1>3. W = did \cup {Fated(b2, p2, book[c]) : c \in Held(book)}
  BY <1>2, FoundNext DEF AsWalked
<1>4. ASSUME NEW t \in did PROVE t.closes \in Nat /\ t.closes < k /\ (k <= EndOfDay(t.closes) <=> DayOfBar(k) = DayOfBar(t.closes))
  <2>1. t \in Found(bars, feed)
    BY DEF AsWalked
  <2>2. t.closes \in Nat /\ t.closes <= Len(bars)
    BY <1>0, <2>1, FoundAre, TradesHave
  <2>3. t.closes <= k /\ t.closes < k
    BY <1>0, <1>1, <2>2
  <2> QED BY <1>0, <2>2, <2>3, DayEnds
<1>5. ASSUME NEW c \in Held(book), NEW t, t = Fated(b2, p2, book[c])
      PROVE  t.closes = k /\ Outlooks[t.outlook].coin = c
  BY <1>1, <1>5, FatedAre DEF ReplayIs
<1>6. ASSUME Refused(W, i, k)
      PROVE  \/ book[Outlooks[i].coin] # Nothing
             \/ <<Outlooks[i].coin, Outlooks[i].side, DayOfBar(k)>> \in spent
  <2>1. PICK t \in W : /\ Outlooks[t.outlook].coin = Outlooks[i].coin
                       /\ k <= t.closes \/ (t.reason = "stop" /\ k <= EndOfDay(t.closes) /\ Outlooks[t.outlook].side = Outlooks[i].side)
    BY <1>6 DEF Refused
  <2>2. CASE t \in did
    <3>1. t.reason = "stop" /\ DayOfBar(k) = DayOfBar(t.closes) /\ Outlooks[t.outlook].side = Outlooks[i].side
      BY <1>4, <2>1, <2>2
    <3> QED BY <2>1, <2>2, <3>1 DEF SpentIs, CoinOf
  <2>3. CASE t \in {Fated(b2, p2, book[c]) : c \in Held(book)}
    <3>1. PICK c \in Held(book) : t = Fated(b2, p2, book[c])
      BY <2>3
    <3> QED BY <1>5, <2>1, <3>1 DEF Held
  <2> QED BY <1>3, <2>2, <2>3
<1>7. ASSUME book[Outlooks[i].coin] # Nothing PROVE Refused(W, i, k)
  <2>1. Outlooks[i].coin \in Held(book)
    BY <1>7, OutlooksAre DEF Held
  <2>2. PICK t : t = Fated(b2, p2, book[Outlooks[i].coin])
    OBVIOUS
  <2>3. t \in W /\ t.closes = k /\ Outlooks[t.outlook].coin = Outlooks[i].coin
    BY <1>3, <1>5, <2>1, <2>2
  <2> QED BY <2>3 DEF Refused
<1>8. ASSUME <<Outlooks[i].coin, Outlooks[i].side, DayOfBar(k)>> \in spent PROVE Refused(W, i, k)
  <2>1. PICK t \in did : /\ t.reason = "stop"
                         /\ <<Outlooks[i].coin, Outlooks[i].side, DayOfBar(k)>> = <<CoinOf(t), Outlooks[t.outlook].side, DayOfBar(t.closes)>>
    BY <1>8 DEF SpentIs
  <2>2. CoinOf(t) = Outlooks[i].coin /\ Outlooks[t.outlook].side = Outlooks[i].side /\ DayOfBar(k) = DayOfBar(t.closes)
    BY <2>1
  <2>3. k <= EndOfDay(t.closes)
    BY <1>4, <2>2
  <2> QED BY <1>3, <2>1, <2>2, <2>3 DEF Refused, CoinOf
<1> QED BY <1>1, <1>2, <1>6, <1>7, <1>8

(* Before the first bar nothing is found and nothing is held.              *)
LEMMA ReplayStarts == ReplayInit => ReplayInv
<1> SUFFICES ASSUME ReplayInit PROVE ReplayInv
  OBVIOUS
<1>1. start \in Nat /\ bars = <<>> /\ feed = <<>> /\ did = {} /\ spent = {} /\ \A c \in Coins : book[c] = Nothing
  <2>1. \A x \in 0..BarsInDay - 1 : x \in Nat
    BY WalkAssumption
  <2> QED BY <2>1 DEF ReplayInit
<1>2. IsArchive(bars, feed) /\ Len(bars) = 0
  BY <1>1 DEF IsArchive
<1>3. Found(bars, feed) = {}
  BY <1>2, WalkIs DEF Found
<1>4. Entering(bars, feed) = {}
  BY <1>2 DEF Entering
<1>5. Held(book) = {}
  BY <1>1 DEF Held
<1>6. HoldsTheWalk(bars, feed, book)
  BY <1>1, <1>3, <1>4 DEF HoldsTheWalk
<1> QED BY <1>1, <1>2, <1>3, <1>5, <1>6 DEF ReplayInv, ReplayIs, SpentIs, AsWalked

(* A step that changes nothing keeps what is said of the desk.             *)
LEMMA ReplayStutters == ReplayInv /\ UNCHANGED replayVars => ReplayInv'
<1> SUFFICES ASSUME ReplayInv, UNCHANGED replayVars PROVE ReplayInv'
  OBVIOUS
<1>1. start' = start /\ bars' = bars /\ feed' = feed /\ book' = book /\ did' = did /\ spent' = spent /\ waited' = waited /\ ranked' = ranked
  BY DEF replayVars
<1>2. ReplayIs'
  BY <1>1 DEF ReplayInv, ReplayIs, Held
<1>3. SpentIs'
  <2>1. \A m : DayOfBar(m)' = DayOfBar(m)
    BY <1>1 DEF DayOfBar
  <2> QED BY <1>1, <2>1 DEF ReplayInv, SpentIs
<1>4. ASSUME AsWalked PROVE AsWalked'
  <2>1. PICK b, p, h : b = bars' /\ p = feed' /\ h = book'
    OBVIOUS
  <2>2. IsArchive(b, p)
    BY <1>1, <2>1 DEF ReplayInv, ReplayIs
  <2>3. Found(bars, feed)' = Found(b, p) /\ (HoldsTheWalk(bars, feed, book)' <=> HoldsTheWalk(b, p, h))
    BY <1>1, <2>1, <2>2, FoundNow
  <2>4. Found(b, p) = Found(bars, feed) /\ (HoldsTheWalk(b, p, h) <=> HoldsTheWalk(bars, feed, book))
    BY <1>1, <2>1
  <2> QED BY <1>1, <1>4, <2>3, <2>4 DEF AsWalked
<1> QED BY <1>1, <1>2, <1>3, <1>4 DEF ReplayInv

(* Whom the desk may let in is whom the walk does not refuse.              *)
LEMMA WantedAre ==
  ASSUME ReplayIs, NEW k \in Nat, NEW c, Enters(c, k) # {}
  PROVE  /\ Earliest(Enters(c, k)) \in Enters(c, k) /\ \A j \in Enters(c, k) : Earliest(Enters(c, k)) <= j
         /\ Earliest(Enters(c, k)) \in Ids /\ Outlooks[Earliest(Enters(c, k))].coin = c /\ book[c] = Nothing
<1>1. Enters(c, k) \in SUBSET Nat
  BY OutlooksAre DEF Enters, Wants
<1>2. PICK S : S = Enters(c, k)
  OBVIOUS
<1>3. Earliest(S) \in S /\ \A j \in S : Earliest(S) <= j
  BY <1>1, <1>2, EarliestIs
<1>4. \A i \in S : i \in Ids /\ Outlooks[i].coin = c /\ book[c] = Nothing
  BY <1>2 DEF Enters, Wants
<1> QED BY <1>2, <1>3, <1>4

(* And the one it lets in is the strongest of them.                        *)
LEMMA ChosenAre ==
  ASSUME IsArchive(bars', feed'), NEW k \in 1..Len(bars'), NEW c, Enters(c, k) # {}
  PROVE  /\ Chosen(c, k) \in Enters(c, k) /\ Chosen(c, k) \in Ids /\ Outlooks[Chosen(c, k)].coin = c
         /\ \A j \in Enters(c, k) \ {Chosen(c, k)} : GoesBefore(feed'[k], Chosen(c, k), j)
<1>1. PICK S, poll, b, p, n : S = Enters(c, k) /\ poll = feed'[k] /\ b = bars' /\ p = feed' /\ n = k
  OBVIOUS
<1>2. \A i \in S : i \in Ids /\ Outlooks[i].coin = c
  BY <1>1 DEF Enters, Wants
<1>3. \A i \in Ids : p[n][i].sigma \in Nat
  BY <1>1, ArchivesAre
<1>4. S # {} /\ S \in SUBSET Ids /\ \A i \in S : poll[i].sigma \in Nat
  BY <1>1, <1>2, <1>3
<1>5. Strongest(poll, S) \in S /\ \A j \in S \ {Strongest(poll, S)} : GoesBefore(poll, Strongest(poll, S), j)
  BY <1>4, StrongestIs
<1>6. Chosen(c, k) = Strongest(poll, S)
  BY <1>1 DEF Chosen
<1>7. PICK e : e = Strongest(poll, S)
  OBVIOUS
<1>8. \A j \in S \ {e} : GoesBefore(feed'[k], e, j)
  BY <1>1, <1>5, <1>7
<1> QED BY <1>1, <1>2, <1>5, <1>6, <1>7, <1>8

(* One bar keeps the form of the book and what the stops have spent.       *)
LEMMA BooksGrow ==
  ASSUME ReplayInv, BarCloses
  PROVE  ReplayIs' /\ SpentIs'
<1> DEFINE k == Len(bars) + 1
           fate(c) == Fate(bars', feed', book[c], k)
           ends(c) == book[c] # Nothing /\ fate(c) # "held"
<1>1. ReplayIs /\ SpentIs /\ IsArchive(bars, feed)
  BY DEF ReplayInv, ReplayIs
<1>2. /\ start' = start /\ Len(bars') = k /\ Grown(bars, feed, bars', feed')
      /\ \A t : t \in did' <=> t \in did \/ \E c \in Coins : ends(c) /\ t = Closing(book[c], k, fate(c))
      /\ \A x : x \in spent' <=>
           x \in spent \/ \E c \in Coins : /\ ends(c) /\ fate(c) = "stop"
                                           /\ x = <<c, Outlooks[book[c].outlook].side, DayOfBar(k)>>
      /\ book' = [c \in Coins |-> IF ends(c) THEN Nothing
                                  ELSE IF Enters(c, k) # {} THEN PlanAt(bars', Chosen(c, k), k) ELSE book[c]]
  BY <1>1, BarClosesIs
<1>3. Len(bars) \in Nat /\ k \in Nat /\ k \in 1..Len(bars') /\ IsArchive(bars', feed')
  BY <1>1, <1>2, ArchivesAre DEF Grown
<1> HIDE DEF k, fate
<1>4. ReplayIs'
  <2>1. ASSUME NEW c \in Coins, book'[c] # Nothing
        PROVE  book'[c].outlook \in Ids /\ Outlooks[book'[c].outlook].coin = c
    <3>1. CASE Enters(c, k) # {}
      <4>1. PICK i : i = Chosen(c, k)
        OBVIOUS
      <4>2. i \in Ids /\ Outlooks[i].coin = c
        BY <1>3, <3>1, <4>1, ChosenAre
      <4>3. book'[c] = PlanAt(bars', i, k)
        BY <1>2, <2>1, <3>1, <4>1
      <4> QED BY <4>2, <4>3 DEF PlanAt, Plan
    <3>2. CASE Enters(c, k) = {}
      <4>1. book'[c] = book[c]
        BY <1>2, <2>1, <3>2
      <4> QED BY <1>1, <2>1, <4>1 DEF ReplayIs, Held
    <3> QED BY <3>1, <3>2
  <2>2. IsArchive(bars', feed')
    BY <1>2 DEF Grown
  <2> QED BY <1>1, <1>2, <2>1, <2>2 DEF ReplayIs, Held
<1>5. \A m : DayOfBar(m)' = DayOfBar(m)
  BY <1>2 DEF DayOfBar
<1>6. \A c \in Coins : ends(c) => LET t == Closing(book[c], k, fate(c))
                                  IN  t.reason = fate(c) /\ CoinOf(t) = c /\ t.outlook = book[c].outlook /\ t.closes = k
  BY <1>1 DEF Closing, CoinOf, ReplayIs, Held
<1> HIDE DEF ends
<1>7. SpentIs'
  <2>1. SUFFICES ASSUME NEW CONSTANT x
                 PROVE x \in spent' <=> \E t \in did' : t.reason = "stop" /\ x = <<CoinOf(t), Outlooks[t.outlook].side, DayOfBar(t.closes)>>
    BY <1>5 DEF SpentIs
  <2>2. ASSUME x \in spent'
        PROVE  \E t \in did' : t.reason = "stop" /\ x = <<CoinOf(t), Outlooks[t.outlook].side, DayOfBar(t.closes)>>
    <3>1. CASE x \in spent
      BY <1>1, <1>2, <3>1 DEF SpentIs
    <3>2. CASE x \notin spent
      <4>1. PICK c \in Coins : ends(c) /\ fate(c) = "stop" /\ x = <<c, Outlooks[book[c].outlook].side, DayOfBar(k)>>
        BY <1>2, <2>2, <3>2
      <4>2. PICK t : t = Closing(book[c], k, fate(c))
        OBVIOUS
      <4>3. t \in did'
        BY <1>2, <4>1, <4>2
      <4> QED BY <1>6, <4>1, <4>2, <4>3
    <3> QED BY <3>1, <3>2
  <2>3. ASSUME NEW t \in did', t.reason = "stop", x = <<CoinOf(t), Outlooks[t.outlook].side, DayOfBar(t.closes)>>
        PROVE  x \in spent'
    <3>1. CASE t \in did
      BY <1>1, <1>2, <2>3, <3>1 DEF SpentIs
    <3>2. CASE t \notin did
      <4>1. PICK c \in Coins : ends(c) /\ t = Closing(book[c], k, fate(c))
        BY <1>2, <3>2
      <4> QED BY <1>2, <1>6, <2>3, <4>1
    <3> QED BY <3>1, <3>2
  <2> QED BY <2>2, <2>3
<1> QED BY <1>4, <1>7

(* One bar takes the walk and the desk to the same trades and the same     *)
(* book.                                                                   *)
LEMMA DesksGrow ==
  ASSUME ReplayInv, BarCloses, ~waited', ~ranked'
  PROVE  AsWalked'
<1> DEFINE k == Len(bars) + 1
           fate(c) == Fate(bars', feed', book[c], k)
           ends(c) == book[c] # Nothing /\ fate(c) # "held"
<1>1. ReplayIs /\ SpentIs /\ IsArchive(bars, feed)
  BY DEF ReplayInv, ReplayIs
<1>2. /\ start' = start /\ Len(bars') = k /\ Grown(bars, feed, bars', feed')
      /\ \A t : t \in did' <=> t \in did \/ \E c \in Coins : ends(c) /\ t = Closing(book[c], k, fate(c))
      /\ book' = [c \in Coins |-> IF ends(c) THEN Nothing
                                  ELSE IF Enters(c, k) # {} THEN PlanAt(bars', Chosen(c, k), k) ELSE book[c]]
  BY <1>1, BarClosesIs
<1>3. /\ ~waited /\ \A c \in Coins : \A i \in Wants(c, k) : ~PredatesClose(i, k)
      /\ ~ranked /\ \A c \in Coins : Enters(c, k) # {} => Chosen(c, k) = Earliest(Enters(c, k))
  <2>1. waited' = (waited \/ \E c \in Coins : \E i \in Wants(c, k) : PredatesClose(i, k))
    BY <1>1, BarClosesIs
  <2>2. ranked' = (ranked \/ \E c \in Coins : Enters(c, k) # {} /\ Chosen(c, k) # Earliest(Enters(c, k)))
    BY <1>1, BarClosesIs
  <2>3. ~waited /\ \A c \in Coins : \A i \in Wants(c, k) : ~PredatesClose(i, k)
    BY <2>1
  <2>4. ~ranked /\ \A c \in Coins : Enters(c, k) # {} => Chosen(c, k) = Earliest(Enters(c, k))
    BY <2>2
  <2> QED BY <2>3, <2>4
<1>4. AsWalked
  BY <1>3 DEF ReplayInv
<1>5. Len(bars) \in Nat /\ k \in Nat /\ k # 0
  BY <1>1, ArchivesAre
<1>6. PICK b2, p2, h2 : b2 = bars' /\ p2 = feed' /\ h2 = book'
  OBVIOUS
<1>7. Len(b2) = k /\ IsArchive(b2, p2) /\ Grown(bars, feed, b2, p2)
  BY <1>2, <1>6 DEF Grown
<1>8. PICK W : W = Found(b2, p2)
  OBVIOUS
<1>9. W = did \cup {Fated(b2, p2, book[c]) : c \in Held(book)}
  BY <1>4, <1>7, <1>8, FoundNext DEF AsWalked
<1>10. \A c : fate(c) = Fate(b2, p2, book[c], Len(b2))
  BY <1>6, <1>7
<1> HIDE DEF k, fate
<1>11. \A c \in Held(book) : /\ Fated(b2, p2, book[c]).plan = book[c] /\ CoinOf(Fated(b2, p2, book[c])) = c
                             /\ ends(c) => Fated(b2, p2, book[c]).resolved /\ Fated(b2, p2, book[c]) = Closing(book[c], k, fate(c))
                             /\ ~ends(c) => ~Fated(b2, p2, book[c]).resolved
  BY <1>1, <1>7, <1>10, FatedAre DEF Held, ReplayIs, CoinOf
<1>12. \A c \in Coins : c \in Held(book) <=> book[c] # Nothing
  BY DEF Held
<1>13. \A c : c \in Held(book) => c \in Coins
  BY DEF Held
<1>14. \A t \in did : t.resolved
  BY <1>4 DEF AsWalked
<1>15. \A c \in Coins : h2[c] = IF ends(c) THEN Nothing
                                ELSE IF Enters(c, k) # {} THEN PlanAt(b2, Earliest(Enters(c, k)), k) ELSE book[c]
  BY <1>2, <1>3, <1>6
<1>e. \A c : ends(c) => book[c] # Nothing
  OBVIOUS
<1> HIDE DEF ends
<1>16. \A c \in Coins : Enters(c, k) = Wants(c, k)
  BY <1>3 DEF Enters
<1>17. \A i \in Ids : i \in Wants(Outlooks[i].coin, k) <=> i \in Eligible(b2, p2, W, k)
  <2>1. SUFFICES ASSUME NEW i \in Ids PROVE i \in Wants(Outlooks[i].coin, k) <=> i \in Eligible(b2, p2, W, k)
    OBVIOUS
  <2>2. Refused(W, i, k) <=> book[Outlooks[i].coin] # Nothing \/ <<Outlooks[i].coin, Outlooks[i].side, DayOfBar(k)>> \in spent
    BY <1>1, <1>4, <1>7, <1>8, RefusedNext
  <2> QED BY <1>6, <2>2 DEF Wants, Eligible, IsChance
<1>18. Entering(b2, p2) = Firsts(Eligible(b2, p2, W, k))
  BY <1>5, <1>7, <1>8 DEF Entering
<1>19. ASSUME NEW CONSTANT t PROVE t \in did' <=> t \in W /\ t.resolved
  <2>1. t \in did' <=> t \in did \/ \E c \in Coins : ends(c) /\ t = Closing(book[c], k, fate(c))
    BY <1>2
  <2>2. ASSUME t \in did' PROVE t \in W /\ t.resolved
    <3>1. CASE t \in did
      BY <1>9, <1>14, <3>1
    <3>2. CASE t \notin did
      <4>1. PICK c \in Coins : ends(c) /\ t = Closing(book[c], k, fate(c))
        BY <2>1, <2>2, <3>2
      <4>2. c \in Held(book)
        BY <1>12, <1>e, <4>1
      <4> QED BY <1>9, <1>11, <4>1, <4>2
    <3> QED BY <3>1, <3>2
  <2>3. ASSUME t \in W, t.resolved PROVE t \in did'
    <3>1. CASE t \in did
      BY <2>1, <3>1
    <3>2. CASE t \notin did
      <4>1. PICK c \in Held(book) : t = Fated(b2, p2, book[c])
        BY <1>9, <2>3, <3>2
      <4>2. ends(c)
        BY <1>11, <2>3, <4>1
      <4> QED BY <1>11, <1>13, <2>1, <4>1, <4>2
    <3> QED BY <3>1, <3>2
  <2> QED BY <2>2, <2>3
<1>20. ASSUME NEW t \in W, ~t.resolved PROVE h2[CoinOf(t)] = t.plan
  <2>1. PICK c \in Held(book) : t = Fated(b2, p2, book[c])
    BY <1>9, <1>14, <1>20
  <2>2. ~ends(c) /\ c \in Coins /\ book[c] # Nothing /\ CoinOf(t) = c /\ t.plan = book[c]
    BY <1>11, <1>12, <1>13, <1>20, <2>1
  <2>3. Enters(c, k) = {}
    BY <2>2 DEF Enters, Wants
  <2> QED BY <1>15, <2>2, <2>3
<1>21. ASSUME NEW i \in Entering(b2, p2) PROVE h2[Outlooks[i].coin] = PlanAt(b2, i, Len(b2))
  <2>1. i \in Eligible(b2, p2, W, k) /\ i \in Ids /\ i \in Nat
    BY <1>18, OutlooksAre DEF Firsts, Eligible
  <2>2. PICK c \in Coins : c = Outlooks[i].coin
    BY <2>1, OutlooksAre
  <2>3. i \in Enters(c, k)
    BY <1>16, <1>17, <2>1, <2>2
  <2>4. \A j \in Enters(c, k) : j \in Ids /\ Outlooks[j].coin = c
    BY DEF Enters, Wants
  <2>5. \A j \in Enters(c, k) : j \in Eligible(b2, p2, W, k)
    BY <1>16, <1>17, <2>4
  <2>6. \A j \in Enters(c, k) : i <= j
    BY <1>18, <2>2, <2>4, <2>5 DEF Firsts
  <2>7. PICK e : e = Earliest(Enters(c, k))
    OBVIOUS
  <2>8. e \in Enters(c, k) /\ e <= i /\ e \in Ids /\ book[c] = Nothing
    BY <1>1, <1>5, <2>3, <2>7, WantedAre
  <2>9. e = i
    BY <2>1, <2>6, <2>8, OutlooksAre
  <2>10. ~ends(c)
    BY <1>e, <2>8
  <2> QED BY <1>7, <1>15, <2>2, <2>3, <2>7, <2>9, <2>10
<1>22. ASSUME NEW c \in Coins, h2[c] # Nothing
       PROVE  \/ \E t \in W : ~t.resolved /\ t.plan = h2[c] /\ CoinOf(t) = c
              \/ \E i \in Entering(b2, p2) : Outlooks[i].coin = c
  <2>1. ~ends(c)
    BY <1>15, <1>22
  <2>2. CASE Enters(c, k) # {}
    <3>1. PICK e : e = Earliest(Enters(c, k))
      OBVIOUS
    <3>2. e \in Enters(c, k) /\ e \in Ids /\ Outlooks[e].coin = c /\ \A j \in Enters(c, k) : e <= j
      BY <1>1, <1>5, <2>2, <3>1, WantedAre
    <3>3. e \in Eligible(b2, p2, W, k)
      BY <1>16, <1>17, <3>2
    <3>4. \A j \in Eligible(b2, p2, W, k) : j \in Ids
      BY DEF Eligible
    <3>5. \A j \in Eligible(b2, p2, W, k) : Outlooks[j].coin = c => j \in Enters(c, k)
      BY <1>16, <1>17, <3>4
    <3>6. e \in Entering(b2, p2)
      BY <1>18, <3>2, <3>3, <3>5 DEF Firsts
    <3> QED BY <3>2, <3>6
  <2>3. CASE Enters(c, k) = {}
    <3>1. h2[c] = book[c]
      BY <1>15, <2>1, <2>3
    <3>2. c \in Held(book)
      BY <1>12, <1>22, <3>1
    <3> QED BY <1>9, <1>11, <2>1, <3>1, <3>2
  <2> QED BY <2>2, <2>3
<1>23. HoldsTheWalk(b2, p2, h2)
  BY <1>8, <1>20, <1>21, <1>22 DEF HoldsTheWalk
<1>24. Found(bars, feed)' = W /\ HoldsTheWalk(bars, feed, book)'
  BY <1>2, <1>6, <1>7, <1>8, <1>23, FoundNow
<1>25. did' = {t \in W : t.resolved}
  BY <1>19
<1> QED BY <1>24, <1>25 DEF AsWalked

(* Whatever the archive, after every bar: what a stop spent is what the    *)
(* finished trades say, and where no forecast was refused for its age and  *)
(* no stronger outlook went before one the feed names first, the trades    *)
(* the two passes find are those the desk has finished and holds           *)
(* (scripts/backtest.ts beside exec/loop.ts).                              *)
THEOREM DeskWalksAlong == ReplaySpec => []ReplayInv
<1>1. ReplayInv /\ BarCloses => ReplayInv'
  BY BooksGrow, DesksGrow DEF ReplayInv
<1>2. ReplayInv /\ [ReplayNext]_replayVars => ReplayInv'
  BY <1>1, ReplayStutters DEF ReplayNext
<1> QED BY ReplayStarts, <1>2, PTL DEF ReplaySpec

(* So the trades found are the desk's: those it finished, and those it     *)
(* holds.                                                                  *)
LEMMA WalkIsDesk ==
  ASSUME ReplayInv
  PROVE  WalkIsTheDesk /\ Simulated = Found(bars, feed)
<1>1. ReplayIs /\ IsArchive(bars, feed)
  BY DEF ReplayInv, ReplayIs
<1>2. Simulated = Found(bars, feed)
  BY <1>1 DEF Simulated, Found, IsArchive
<1> DEFINE W == Found(bars, feed)
<1>3. ASSUME ~waited, ~ranked
      PROVE  /\ {t \in W : t.resolved} = did
             /\ {t.plan : t \in {t \in W : ~t.resolved}} = {book[c] : c \in {c \in Coins : book[c] # Nothing /\ book[c].at < Len(bars)}}
  <2>1. AsWalked
    BY <1>3 DEF ReplayInv
  <2>2. ASSUME NEW t \in W, ~t.resolved
        PROVE  \E c \in Coins : book[c] # Nothing /\ book[c].at < Len(bars) /\ t.plan = book[c]
    <3>1. book[CoinOf(t)] = t.plan
      BY <2>1, <2>2 DEF AsWalked, HoldsTheWalk
    <3>2. CoinOf(t) \in Coins /\ t.plan # Nothing /\ t.plan.at < Len(bars)
      BY <1>1, FoundAre
    <3> QED BY <3>1, <3>2
  <2>3. ASSUME NEW c \in Coins, book[c] # Nothing, book[c].at < Len(bars)
        PROVE  \E t \in W : ~t.resolved /\ t.plan = book[c]
    <3>1. CASE \E i \in Entering(bars, feed) : Outlooks[i].coin = c
      <4>1. PICK i \in Entering(bars, feed) : Outlooks[i].coin = c
        BY <3>1
      <4>2. book[c] = PlanAt(bars, i, Len(bars))
        BY <2>1, <4>1 DEF AsWalked, HoldsTheWalk
      <4>3. PlanAt(bars, i, Len(bars)).at = Len(bars) /\ Len(bars) \in Nat
        BY <1>1, EnteringAre
      <4> QED BY <2>3, <4>2, <4>3
    <3>2. CASE ~\E i \in Entering(bars, feed) : Outlooks[i].coin = c
      BY <2>1, <2>3, <3>2 DEF AsWalked, HoldsTheWalk
    <3> QED BY <3>1, <3>2
  <2>4. {t \in W : t.resolved} = did
    BY <2>1 DEF AsWalked
  <2> HIDE DEF W
  <2> QED BY <2>2, <2>3, <2>4
<1> QED BY <1>2, <1>3 DEF WalkIsTheDesk

(* A feed that names a coin's strongest outlook first: "the order the feed *)
(* ranked them" is then the order considerSignals reads them in.           *)
StrongestIsNamedFirst ==
  \A poll \in Reports : \A i, j \in Ids :
    i < j /\ Outlooks[i].coin = Outlooks[j].coin => poll[i].sigma >= poll[j].sigma

(* The trades found are those the desk finished and those it holds.        *)
SameTrades ==
  /\ {t \in Simulated : t.resolved} = did
  /\ {t.plan : t \in {t \in Simulated : ~t.resolved}} = {book[c] : c \in {c \in Coins : book[c] # Nothing /\ book[c].at < Len(bars)}}

(* On such a feed the desk's ranking never decides, so only a forecast     *)
(* older than an exit can part the desk from the simulator: what the       *)
(* comment at scripts/backtest.ts 1032-1035 needs of the vendor.           *)
THEOREM OrderedFeedsAgree ==
  ASSUME StrongestIsNamedFirst
  PROVE  ReplaySpec => [](~waited => SameTrades)
<1> DEFINE Inv == IsArchive(bars, feed) /\ ~ranked
<1>1. ReplayInit => Inv
  BY ReplayStarts DEF ReplayInit, ReplayInv, ReplayIs
<1>2. ASSUME Inv, BarCloses PROVE Inv'
  <2> DEFINE k == Len(bars) + 1
  <2>1. /\ Len(bars') = k /\ Grown(bars, feed, bars', feed')
        /\ ranked' = (ranked \/ \E c \in Coins : Enters(c, k) # {} /\ Chosen(c, k) # Earliest(Enters(c, k)))
    BY <1>2, BarClosesIs
  <2>2. IsArchive(bars', feed') /\ Len(bars) \in Nat /\ k \in 1..Len(bars')
    BY <1>2, <2>1, ArchivesAre DEF Grown
  <2> HIDE DEF k
  <2>3. ASSUME NEW c \in Coins, Enters(c, k) # {} PROVE Chosen(c, k) = Earliest(Enters(c, k))
    <3>1. PICK S, e, poll : S = Enters(c, k) /\ e = Chosen(c, k) /\ poll = feed'[k]
      OBVIOUS
    <3>2. e \in S /\ \A j \in S \ {e} : GoesBefore(poll, e, j)
      BY <2>2, <2>3, <3>1, ChosenAre
    <3>3. \A i \in S : i \in Ids /\ i \in Nat /\ Outlooks[i].coin = c
      BY <3>1, OutlooksAre DEF Enters, Wants
    <3>4. poll \in Reports /\ \A i \in Ids : poll[i].sigma \in Nat
      <4>1. PICK b, p, n : b = bars' /\ p = feed' /\ n = k
        OBVIOUS
      <4>2. p[n] \in Reports /\ \A i \in Ids : p[n][i].sigma \in Nat
        BY <2>2, <4>1, ArchivesAre
      <4> QED BY <3>1, <4>1, <4>2
    <3>5. ASSUME NEW j \in S, j < e PROVE FALSE
      <4>1. GoesBefore(poll, e, j) /\ j \in Nat /\ e \in Nat
        BY <3>2, <3>3, <3>5
      <4>2. poll[e].sigma > poll[j].sigma /\ poll[e].sigma \in Nat /\ poll[j].sigma \in Nat
        BY <3>2, <3>3, <3>4, <3>5, <4>1 DEF GoesBefore
      <4>3. poll[j].sigma >= poll[e].sigma
        BY <3>2, <3>3, <3>4, <3>5 DEF StrongestIsNamedFirst
      <4> QED BY <4>2, <4>3
    <3>6. Earliest(S) \in S /\ \A j \in S : Earliest(S) <= j
      BY <3>2, <3>3, EarliestIs
    <3>7. e = Earliest(S)
      BY <3>2, <3>3, <3>5, <3>6
    <3> QED BY <3>1, <3>7
  <2>4. ~ranked'
    BY <1>2, <2>1, <2>3
  <2> QED BY <2>2, <2>4
<1>3. Inv /\ [ReplayNext]_replayVars => Inv'
  BY <1>2 DEF ReplayNext, replayVars
<1>4. Inv /\ ReplayInv => (~waited => SameTrades)
  BY WalkIsDesk DEF WalkIsTheDesk, SameTrades
<1> QED BY <1>1, <1>3, <1>4, DeskWalksAlong, PTL DEF ReplaySpec

-----------------------------------------------------------------------------
(* The stored summary. *)

(* The stored summary of a path.                                           *)
IsMae(g, i, path, n) == g = [k \in 1..n |-> IF k = 1 THEN Adverse(i, path[1]) ELSE Worse(i, g[k - 1], Adverse(i, path[k]))]

(* The running extreme of a path is a function.                            *)
LEMMA MaeExists ==
  ASSUME NEW i, NEW path, NEW n \in Nat \ {0}
  PROVE  \E g : IsMae(g, i, path, n)
<1> DEFINE Fine(m) == \E g : \A k \in 1..m : g[k] = IF k = 1 THEN Adverse(i, path[1]) ELSE Worse(i, g[k - 1], Adverse(i, path[k]))
           Bad == {m \in Nat \ {0} : ~Fine(m)}
<1>1. Fine(1)
  <2> DEFINE g == [k \in 1..1 |-> Adverse(i, path[1])]
  <2>1. \A k \in 1..1 : k = 1 /\ g[k] = Adverse(i, path[1])
    OBVIOUS
  <2> HIDE DEF g
  <2> QED BY <2>1
<1>2. ASSUME NEW m \in Nat \ {0}, Fine(m) PROVE Fine(m + 1)
  <2>1. PICK g : \A k \in 1..m : g[k] = IF k = 1 THEN Adverse(i, path[1]) ELSE Worse(i, g[k - 1], Adverse(i, path[k]))
    BY <1>2
  <2> DEFINE h == [k \in 1..m + 1 |-> IF k = m + 1 THEN Worse(i, g[m], Adverse(i, path[m + 1])) ELSE g[k]]
  <2>2. (\A k \in 1..m : h[k] = g[k]) /\ h[m + 1] = Worse(i, g[m], Adverse(i, path[m + 1]))
    OBVIOUS
  <2> HIDE DEF h
  <2>3. ASSUME NEW k \in 1..m + 1 PROVE h[k] = IF k = 1 THEN Adverse(i, path[1]) ELSE Worse(i, h[k - 1], Adverse(i, path[k]))
    <3>1. CASE k = 1
      <4>1. k \in 1..m
        BY <3>1
      <4> QED BY <2>1, <2>2, <3>1, <4>1
    <3>2. CASE k \in 2..m
      <4>1. k - 1 \in 1..m /\ k \in 1..m /\ k # 1
        BY <3>2
      <4> QED BY <2>1, <2>2, <4>1
    <3>3. CASE k = m + 1
      <4>1. k - 1 = m /\ m \in 1..m /\ k # 1
        BY <3>3
      <4> QED BY <2>2, <3>3, <4>1
    <3> QED BY <3>1, <3>2, <3>3
  <2> QED BY <2>3
<1> HIDE DEF Fine
<1>3. ASSUME Bad # {} PROVE FALSE
  <2>1. PICK m \in Bad : \A l \in Bad : m <= l
    <3>1. Bad \in SUBSET Nat
      OBVIOUS
    <3> HIDE DEF Bad
    <3> QED BY <1>3, <3>1, LeastNatural
  <2>2. m # 1 /\ m - 1 \in Nat \ {0}
    BY <1>1, <2>1
  <2>3. Fine(m - 1)
    BY <2>1, <2>2
  <2>4. Fine(m - 1 + 1)
    BY <1>2, <2>2, <2>3
  <2> QED BY <2>1, <2>4
<1>4. Fine(n)
  BY <1>3
<1>5. PICK g : \A k \in 1..n : g[k] = IF k = 1 THEN Adverse(i, path[1]) ELSE Worse(i, g[k - 1], Adverse(i, path[k]))
  BY <1>4 DEF Fine
<1> DEFINE h == [k \in 1..n |-> g[k]]
<1>6. \A k \in 1..n : h[k] = g[k]
  OBVIOUS
<1>7. h = [k \in 1..n |-> h[k]]
  OBVIOUS
<1> HIDE DEF h
<1>8. ASSUME NEW k \in 1..n PROVE h[k] = IF k = 1 THEN Adverse(i, path[1]) ELSE Worse(i, h[k - 1], Adverse(i, path[k]))
  <2>1. CASE k = 1
    BY <1>5, <1>6, <2>1
  <2>2. CASE k # 1
    <3>1. k - 1 \in 1..n
      BY <2>2
    <3> QED BY <1>5, <1>6, <2>2, <3>1
  <2> QED BY <2>1, <2>2
<1>9. h = [k \in 1..n |-> IF k = 1 THEN Adverse(i, path[1]) ELSE Worse(i, h[k - 1], Adverse(i, path[k]))]
  BY <1>7, <1>8
<1> QED BY <1>9 DEF IsMae

(* A stop fires on it exactly when a bar so far touched the stop.          *)
LEMMA MaeFires ==
  ASSUME NEW i \in Ids, NEW stop \in Int, NEW n \in Nat \ {0}, NEW path,
         \A k \in 1..n : path[k] \in [lo : Int, hi : Int, close : Int],
         NEW g, IsMae(g, i, path, n), NEW last \in 1..n
  PROVE  StopWouldFire(i, stop, g[last]) <=> \E m \in 1..last : HitsStop(i, stop, path[m])
<1> DEFINE Right(k) == g[k] \in Int /\ (StopWouldFire(i, stop, g[k]) <=> \E m \in 1..k : HitsStop(i, stop, path[m]))
           Bad == {k \in 1..n : ~Right(k)}
<1>1. \A k \in 1..n : g[k] = IF k = 1 THEN Adverse(i, path[1]) ELSE Worse(i, g[k - 1], Adverse(i, path[k]))
  <2>1. g = [k \in 1..n |-> IF k = 1 THEN Adverse(i, path[1]) ELSE Worse(i, g[k - 1], Adverse(i, path[k]))]
    BY DEF IsMae
  <2> QED BY <2>1
<1>2. \A k \in 1..n : /\ Adverse(i, path[k]) \in Int
                      /\ StopWouldFire(i, stop, Adverse(i, path[k])) <=> HitsStop(i, stop, path[k])
  BY DEF Adverse, StopWouldFire, HitsStop
<1>3. \A a, c \in Int : /\ Worse(i, a, c) \in Int
                        /\ StopWouldFire(i, stop, Worse(i, a, c)) <=> StopWouldFire(i, stop, a) \/ StopWouldFire(i, stop, c)
  BY DEF Worse, StopWouldFire
<1>4. ASSUME Bad # {} PROVE FALSE
  <2>1. PICK k \in Bad : \A l \in Bad : k <= l
    <3>1. Bad \in SUBSET Nat
      OBVIOUS
    <3> HIDE DEF Bad
    <3> QED BY <1>4, <3>1, LeastNatural
  <2>2. CASE k = 1
    <3>1. \A m : m \in 1..1 <=> m = 1
      OBVIOUS
    <3>2. g[1] = Adverse(i, path[1])
      BY <1>1, <2>2
    <3> QED BY <1>2, <2>1, <2>2, <3>1, <3>2
  <2>3. CASE k # 1
    <3>1. k - 1 \in 1..n /\ k \in 1..n /\ ~(k <= k - 1)
      BY <2>1, <2>3
    <3>2. Right(k - 1)
      BY <2>1, <3>1
    <3>3. g[k] = Worse(i, g[k - 1], Adverse(i, path[k]))
      BY <1>1, <2>3, <3>1
    <3>4. \A m : m \in 1..k <=> m \in 1..k - 1 \/ m = k
      BY <3>1
    <3> DEFINE a == g[k - 1]
               c == Adverse(i, path[k])
    <3>w. a \in Int /\ c \in Int /\ g[k] = Worse(i, a, c)
      BY <1>2, <3>1, <3>2, <3>3
    <3>x. StopWouldFire(i, stop, c) <=> HitsStop(i, stop, path[k])
      BY <1>2, <3>1
    <3>y. (StopWouldFire(i, stop, a) <=> \E m \in 1..k - 1 : HitsStop(i, stop, path[m]))
      BY <3>2
    <3> HIDE DEF a, c
    <3>z. Worse(i, a, c) \in Int /\ (StopWouldFire(i, stop, Worse(i, a, c)) <=> StopWouldFire(i, stop, a) \/ StopWouldFire(i, stop, c))
      BY <1>3, <3>w
    <3>5. g[k] \in Int
      BY <3>w, <3>z
    <3>6. StopWouldFire(i, stop, g[k]) <=> (\E m \in 1..k - 1 : HitsStop(i, stop, path[m])) \/ HitsStop(i, stop, path[k])
      BY <3>w, <3>x, <3>y, <3>z
    <3>7. (\E m \in 1..k : HitsStop(i, stop, path[m])) <=> (\E m \in 1..k - 1 : HitsStop(i, stop, path[m])) \/ HitsStop(i, stop, path[k])
      BY <3>4
    <3> QED BY <2>1, <3>5, <3>6, <3>7
  <2> QED BY <2>2, <2>3
<1> QED BY <1>4

(* So the extreme up to the target answers for any stop                    *)
(* (counterfactual.ts).                                                    *)
LEMMA SummaryAnswers ==
  ASSUME NEW i \in Ids, NEW stop \in Int, NEW path \in Seq([lo : Int, hi : Int, close : Int]), Len(path) # 0
  PROVE  StopWouldFire(i, stop, MaeToTarget(i, path)) <=> ReplayPath(i, stop, path).reason = "stop"
<1>1. /\ Len(path) \in Nat \ {0} /\ DOMAIN path = 1..Len(path)
      /\ \A k \in 1..Len(path) : path[k] \in [lo : Int, hi : Int, close : Int]
  BY LenProperties, ElementOfSeq
<1>2. PICK n \in Nat \ {0} : n = Len(path)
  BY <1>1
<1> DEFINE g == CHOOSE g : IsMae(g, i, path, n)
           T == ToTarget(i, path)
           last == Max(T)
<1>3. IsMae(g, i, path, n)
  BY MaeExists
<1>4. MaeToTarget(i, path) = g[last]
  BY <1>1, <1>2 DEF MaeToTarget, IsMae
<1> HIDE DEF g
<1>5. \A k : k \in T <=> k \in 1..n /\ \A m \in 1..n : HitsTarget(i, path[m]) => k <= m
  BY <1>1, <1>2 DEF ToTarget
<1>6. last \in T /\ \A k \in T : last >= k
  <2>1. 1 \in T
    BY <1>5
  <2>2. PICK S : S = T
    OBVIOUS
  <2>3. S \in SUBSET Int /\ S # {} /\ n \in Int /\ \A k \in S : k <= n
    BY <1>5, <2>1, <2>2
  <2>4. Max(S) \in S /\ \A k \in S : Max(S) >= k
    BY <2>3, MaxOfBounded
  <2> QED BY <2>2, <2>4
<1> HIDE DEF last, T
<1>7. last \in 1..n
  BY <1>5, <1>6
<1>p. \A k \in 1..n : path[k] \in [lo : Int, hi : Int, close : Int]
  BY <1>1, <1>2
<1>q. StopWouldFire(i, stop, g[last]) <=> \E m \in 1..last : HitsStop(i, stop, path[m])
  BY <1>p, <1>3, <1>7, MaeFires
<1>8. StopWouldFire(i, stop, MaeToTarget(i, path)) <=> \E m \in 1..last : HitsStop(i, stop, path[m])
  BY <1>4, <1>q
<1> DEFINE touched == {k \in DOMAIN path : Touch(i, stop, path[k]) # "none"}
           first == CHOOSE k \in touched : \A m \in touched : k <= m
<1>9. \A k : k \in touched <=> k \in 1..n /\ (HitsStop(i, stop, path[k]) \/ HitsTarget(i, path[k]))
  BY <1>1, <1>2 DEF Touch
<1>10. ReplayPath(i, stop, path).reason = IF touched = {} THEN "horizon" ELSE Touch(i, stop, path[first])
  BY DEF ReplayPath
<1>11. \A k : Touch(i, stop, path[k]) = "stop" <=> HitsStop(i, stop, path[k])
  BY DEF Touch
<1>12. CASE touched = {}
  <2>1. ~\E m \in 1..last : HitsStop(i, stop, path[m])
    <3>1. \A m \in 1..last : m \in 1..n
      BY <1>7
    <3> QED BY <1>9, <1>12, <3>1
  <2> QED BY <1>8, <1>10, <1>12, <2>1
<1>13. CASE touched # {}
  <2>1. first \in touched /\ \A m \in touched : first <= m
    <3>1. touched \in SUBSET Nat
      BY <1>9
    <3> HIDE DEF touched
    <3>2. \E k \in touched : \A m \in touched : k <= m
      BY <1>13, <3>1, LeastNatural
    <3> QED BY <3>2
  <2> HIDE DEF touched, first
  <2>2. ReplayPath(i, stop, path).reason = "stop" <=> HitsStop(i, stop, path[first])
    BY <1>10, <1>11, <1>13
  <2>3. first \in 1..n
    BY <1>9, <2>1
  <2>4. ASSUME HitsStop(i, stop, path[first]) PROVE \E m \in 1..last : HitsStop(i, stop, path[m])
    <3>1. first \in T
      BY <1>5, <1>9, <2>1, <2>3
    <3>2. first \in 1..last
      BY <1>6, <1>7, <2>3, <3>1
    <3> QED BY <2>4, <3>2
  <2>5. ASSUME NEW m \in 1..last, HitsStop(i, stop, path[m]) PROVE HitsStop(i, stop, path[first])
    <3>1. m \in 1..n
      BY <1>7
    <3>2. first <= m
      BY <1>9, <2>1, <2>5, <3>1
    <3>3. ASSUME ~HitsStop(i, stop, path[first]) PROVE FALSE
      <4>1. HitsTarget(i, path[first])
        BY <1>9, <2>1, <3>3
      <4>2. last <= first
        BY <1>5, <1>6, <2>3, <4>1
      <4>3. first = m
        BY <1>7, <2>3, <3>2, <4>2
      <4> QED BY <2>5, <3>3, <4>3
    <3> QED BY <3>3
  <2> QED BY <1>8, <2>2, <2>4, <2>5
<1> QED BY <1>12, <1>13

-----------------------------------------------------------------------------
(* What the trades made. *)

(* What trades made, and what is open of them, as sums.                     *)
LEMMA PriceIsTotal ==
  ASSUME NEW S, IsFiniteSet(S)
  PROVE  PriceOf(S) = Total([r \in S |-> PriceRet(r)], S)
<1> DEFINE w == [r \in S |-> PriceRet(r)]
           g(f, s) == IF s = {} THEN 0 ELSE PriceRet((CHOOSE x \in s : TRUE)) + f[s \ {CHOOSE x \in s : TRUE}]
           Iter(f) == f = [s \in SUBSET S |-> g(f, s)]
           i == CHOOSE f : Iter(f)
<1>1. ASSUME NEW f, NEW s \in SUBSET S PROVE Adding(f, w, s) = g(f, s)
  <2>1. CASE s = {}
    BY <2>1 DEF Adding
  <2>2. CASE s # {}
    <3>1. (CHOOSE x \in s : TRUE) \in S
      BY <2>2
    <3> QED BY <2>2, <3>1 DEF Adding, AnyOf
  <2> QED BY <2>1, <2>2
<1>2. \A f : SumsUp(f, w, S) <=> Iter(f)
  <2> HIDE DEF g, w
  <2> QED BY <1>1 DEF SumsUp
<1>3. PICK h : SumsUp(h, w, S)
  BY SumsExist
<1>4. Iter(i)
  <2>1. Iter(h)
    BY <1>2, <1>3
  <2> HIDE DEF Iter
  <2> QED BY <2>1
<1>5. Total(w, S) = i[S]
  <2>1. SumsUp(i, w, S)
    BY <1>2, <1>4
  <2> HIDE DEF w, i
  <2> QED BY <2>1, TotalIs
<1>6. PriceOf(S) = (CHOOSE f : f = [s \in SUBSET S |-> IF s = {} THEN 0 ELSE PriceRet((CHOOSE x \in s : TRUE)) + f[s \ {CHOOSE x \in s : TRUE}]])[S]
  BY DEF PriceOf, MapThenSumSet, MapThenFoldSet
<1> QED BY <1>5, <1>6

LEMMA MarksAreTotal ==
  ASSUME NEW k, NEW S, IsFiniteSet(S)
  PROVE  MarksOf(S, k) = Total([r \in S |-> MarkAt(r, k)], S)
<1> DEFINE w == [r \in S |-> MarkAt(r, k)]
           g(f, s) == IF s = {} THEN 0 ELSE MarkAt((CHOOSE x \in s : TRUE), k) + f[s \ {CHOOSE x \in s : TRUE}]
           Iter(f) == f = [s \in SUBSET S |-> g(f, s)]
           i == CHOOSE f : Iter(f)
<1>1. ASSUME NEW f, NEW s \in SUBSET S PROVE Adding(f, w, s) = g(f, s)
  <2>1. CASE s = {}
    BY <2>1 DEF Adding
  <2>2. CASE s # {}
    <3>1. (CHOOSE x \in s : TRUE) \in S
      BY <2>2
    <3> QED BY <2>2, <3>1 DEF Adding, AnyOf
  <2> QED BY <2>1, <2>2
<1>2. \A f : SumsUp(f, w, S) <=> Iter(f)
  <2> HIDE DEF g, w
  <2> QED BY <1>1 DEF SumsUp
<1>3. PICK h : SumsUp(h, w, S)
  BY SumsExist
<1>4. Iter(i)
  <2>1. Iter(h)
    BY <1>2, <1>3
  <2> HIDE DEF Iter
  <2> QED BY <2>1
<1>5. Total(w, S) = i[S]
  <2>1. SumsUp(i, w, S)
    BY <1>2, <1>4
  <2> HIDE DEF w, i
  <2> QED BY <2>1, TotalIs
<1>6. MarksOf(S, k) = (CHOOSE f : f = [s \in SUBSET S |-> IF s = {} THEN 0 ELSE MarkAt((CHOOSE x \in s : TRUE), k) + f[s \ {CHOOSE x \in s : TRUE}]])[S]
  BY DEF MarksOf, MapThenSumSet, MapThenFoldSet
<1> QED BY <1>5, <1>6

LEMMA EventsAreTotal ==
  ASSUME NEW S, IsFiniteSet(S)
  PROVE  MapThenSumSet(LAMBDA e : e.price, S) = Total([r \in S |-> r.price], S)
<1> DEFINE w == [r \in S |-> r.price]
           g(f, s) == IF s = {} THEN 0 ELSE (CHOOSE x \in s : TRUE).price + f[s \ {CHOOSE x \in s : TRUE}]
           Iter(f) == f = [s \in SUBSET S |-> g(f, s)]
           i == CHOOSE f : Iter(f)
<1>1. ASSUME NEW f, NEW s \in SUBSET S PROVE Adding(f, w, s) = g(f, s)
  <2>1. CASE s = {}
    BY <2>1 DEF Adding
  <2>2. CASE s # {}
    <3>1. (CHOOSE x \in s : TRUE) \in S
      BY <2>2
    <3> QED BY <2>2, <3>1 DEF Adding, AnyOf
  <2> QED BY <2>1, <2>2
<1>2. \A f : SumsUp(f, w, S) <=> Iter(f)
  <2> HIDE DEF g, w
  <2> QED BY <1>1 DEF SumsUp
<1>3. PICK h : SumsUp(h, w, S)
  BY SumsExist
<1>4. Iter(i)
  <2>1. Iter(h)
    BY <1>2, <1>3
  <2> HIDE DEF Iter
  <2> QED BY <2>1
<1>5. Total(w, S) = i[S]
  <2>1. SumsUp(i, w, S)
    BY <1>2, <1>4
  <2> HIDE DEF w, i
  <2> QED BY <2>1, TotalIs
<1>6. MapThenSumSet(LAMBDA e : e.price, S) = (CHOOSE f : f = [s \in SUBSET S |-> IF s = {} THEN 0 ELSE (CHOOSE x \in s : TRUE).price + f[s \ {CHOOSE x \in s : TRUE}]])[S]
  BY DEF MapThenSumSet, MapThenFoldSet
<1> QED BY <1>5, <1>6

(* An archive has finitely many trades.                                    *)
LEMMA FoundAreFinite ==
  ASSUME NEW b, NEW p, IsArchive(b, p)
  PROVE  IsFiniteSet(Found(b, p))
<1> DEFINE W == Found(b, p)
           T == Ids \X (1..Len(b))
           f == [t \in W |-> <<t.outlook, t.plan.at>>]
<1>1. IsFiniteSet(T)
  <2>1. Len(b) \in Int /\ Len(Outlooks) \in Int /\ Ids = 1..Len(Outlooks)
    BY ArchivesAre, OutlooksAre
  <2>2. IsFiniteSet(1..Len(b)) /\ IsFiniteSet(Ids)
    BY <2>1, FS_Interval
  <2> QED BY <2>2, FS_Product
<1>2. \A t \in W : t.outlook \in Ids /\ t.plan.at \in 1..Len(b) /\ t = Simulate(b, p, t.outlook, t.plan.at)
  BY FoundAre DEF IsTrade
<1>3. f \in [W -> T]
  BY <1>2
<1>4. ASSUME NEW t \in W, NEW u \in W, f[t] = f[u] PROVE t = u
  <2>1. t.outlook = u.outlook /\ t.plan.at = u.plan.at
    BY <1>4
  <2> QED BY <1>2, <2>1
<1> HIDE DEF f, W, T
<1>5. f \in Injection(W, T)
  BY <1>3, <1>4 DEF Injection, IsInjective
<1> QED BY <1>1, <1>5, FS_Injection DEF W

(* What a trade found made, and its mark, are numbers.                     *)
LEMMA FoundInNumbers ==
  ASSUME NEW p, IsArchive(bars, p), NEW t \in Found(bars, p)
  PROVE  /\ PriceRet(t) \in Int /\ t.plan.at \in Nat /\ t.closes \in Nat /\ t.plan.at < t.closes /\ t.closes <= Len(bars)
         /\ \A k \in DOMAIN bars : MarkAt(t, k) \in Int
<1>1. IsTrade(bars, p, t)
  BY FoundAre
<1>2. t.outlook \in Ids /\ t.plan.at \in 1..Len(bars)
  BY <1>1 DEF IsTrade
<1>3. t.plan = PlanAt(bars, t.outlook, t.plan.at) /\ t.closes \in Nat /\ t.plan.at < t.closes /\ t.closes <= Len(bars)
  BY <1>1, TradesHave
<1>4. PICK i \in Ids, k \in 1..Len(bars) : i = t.outlook /\ k = t.plan.at
  BY <1>2
<1>5. /\ Len(bars) \in Nat /\ DOMAIN bars = 1..Len(bars)
      /\ \A m \in 1..Len(bars) : bars[m] \in [lo : Int, hi : Int, close : Int] /\ bars[m].close \in Int
  BY ArchivesAre
<1>6. t.plan.fill \in Int /\ t.plan.stop \in Int
  <2>1. t.plan = PlanAt(bars, i, k) /\ bars[k].close \in Int
    BY <1>3, <1>4, <1>5
  <2> QED BY <2>1, WalkAssumption DEF PlanAt, Plan, StopFrom
<1>7. bars[t.closes].close \in Int /\ Outlooks[t.outlook].target \in Int
  <2>1. t.closes \in 1..Len(bars)
    BY <1>2, <1>3, <1>5
  <2> QED BY <1>2, <1>5, <2>1, OutlooksAre
<1>8. ExitPx(t) \in Int
  <2>1. CASE t.reason = "stop"
    BY <1>6, <2>1 DEF ExitPx
  <2>2. CASE t.reason = "target"
    BY <1>7, <2>2 DEF ExitPx
  <2>3. CASE t.reason # "stop" /\ t.reason # "target"
    BY <1>7, <2>3 DEF ExitPx
  <2> QED BY <2>1, <2>2, <2>3
<1>9. PriceRet(t) \in Int
  BY <1>6, <1>8 DEF PriceRet
<1>10. ASSUME NEW m \in DOMAIN bars PROVE MarkAt(t, m) \in Int
  <2>1. bars[m].lo \in Int /\ bars[m].hi \in Int
    BY <1>5
  <2> QED BY <1>6, <2>1 DEF MarkAt
<1> QED BY <1>2, <1>3, <1>5, <1>9, <1>10

(* An outlook's trades summed and the sums added make what all made.       *)
OfOutlook(trades, i) == {t \in trades : t.outlook = i}
EventOf(trades, i) == [ref |-> i, price |-> PriceOf(OfOutlook(trades, i))]

LEMMA LedgerSideIs ==
  ASSUME NEW trades, IsFiniteSet(trades), \A t \in trades : PriceRet(t) \in Int, trades # {}
  PROVE  /\ LedgerSide(trades).n = Cardinality({t.outlook : t \in trades})
         /\ LedgerSide(trades).n \in Nat \ {0}
         /\ LedgerSide(trades).sum = PriceOf(trades) /\ PriceOf(trades) \in Int
<1> DEFINE O == {t.outlook : t \in trades}
           E == {EventOf(trades, i) : i \in O}
           w == [t \in trades |-> PriceRet(t)]
           v == [e \in E |-> e.price]
           part == [e \in E |-> OfOutlook(trades, e.ref)]
<1>1. IsFiniteSet(O)
  <2> DEFINE f == [t \in trades |-> t.outlook]
  <2>1. f \in Surjection(trades, O)
    BY DEF Surjection
  <2> HIDE DEF f, O
  <2> QED BY <2>1, FS_Surjection
<1>2. ExistsBijection(O, E)
  <2> DEFINE f == [i \in O |-> EventOf(trades, i)]
  <2> HIDE DEF O
  <2>1. f \in [O -> E] /\ \A e \in E : \E i \in O : f[i] = e
    OBVIOUS
  <2>2. ASSUME NEW i \in O, NEW j \in O, f[i] = f[j] PROVE i = j
    <3>1. EventOf(trades, i) = EventOf(trades, j)
      BY <2>2
    <3>2. EventOf(trades, i).ref = i /\ EventOf(trades, j).ref = j
      BY DEF EventOf
    <3> QED BY <3>1, <3>2
  <2> HIDE DEF f, E
  <2>3. f \in Bijection(O, E)
    BY <2>1, <2>2 DEF Bijection, Injection, Surjection, IsInjective
  <2> QED BY <2>3 DEF ExistsBijection
<1>3. IsFiniteSet(E) /\ Cardinality(E) = Cardinality(O)
  <2> HIDE DEF O, E
  <2> QED BY <1>1, <1>2, FS_Bijection
<1>4. Collapse(trades) = E
  BY DEF Collapse, EventOf, OfOutlook
<1> HIDE DEF E
<1>5. LedgerSide(trades) = [n |-> Cardinality(E), sum |-> MapThenSumSet(LAMBDA e : e.price, E)]
  BY <1>4 DEF LedgerSide
<1>6. MapThenSumSet(LAMBDA e : e.price, E) = Total(v, E)
  BY <1>3, EventsAreTotal
<1>7. PriceOf(trades) = Total(w, trades)
  BY PriceIsTotal
<1>8. \A e \in E : e.ref \in O /\ e = EventOf(trades, e.ref) /\ e.price = PriceOf(OfOutlook(trades, e.ref))
  BY DEF E, EventOf
<1>9. ASSUME NEW e \in E PROVE part[e] \subseteq trades /\ v[e] = Total(w, part[e])
  <2>1. PICK S \in SUBSET trades : S = OfOutlook(trades, e.ref)
    BY DEF OfOutlook
  <2>2. IsFiniteSet(S)
    BY FS_Subset
  <2>3. PriceOf(S) = Total([t \in S |-> PriceRet(t)], S)
    BY <2>2, PriceIsTotal
  <2> DEFINE u == [t \in S |-> PriceRet(t)]
  <2>4. \A t \in S : u[t] = w[t]
    OBVIOUS
  <2> HIDE DEF w
  <2>5. Total(u, S) = Total(w, S)
    <3> HIDE DEF u
    <3> QED BY <2>2, <2>4, TotalOfSame
  <2> QED BY <1>8, <2>1, <2>3, <2>5
<1>10. ASSUME NEW e \in E, NEW d \in E, e # d PROVE part[e] \cap part[d] = {}
  <2>1. e.ref # d.ref
    BY <1>8, <1>10
  <2> QED BY <2>1 DEF OfOutlook
<1>11. ASSUME NEW t \in trades PROVE \E e \in E : t \in part[e]
  <2>1. EventOf(trades, t.outlook) \in E
    BY DEF E
  <2>2. EventOf(trades, t.outlook).ref = t.outlook
    BY DEF EventOf
  <2> QED BY <2>1, <2>2 DEF OfOutlook
<1>12. \A t \in trades : w[t] \in Int
  OBVIOUS
<1> HIDE DEF w, v, part
<1>13. Total(w, trades) = Total(v, E)
  BY <1>3, <1>9, <1>10, <1>11, <1>12, TotalOfParts
<1>14. Total(w, trades) \in Int
  BY <1>12, TotalIsNumber
<1>15. Cardinality(O) \in Nat \ {0}
  <2>1. O # {}
    OBVIOUS
  <2> HIDE DEF O
  <2> QED BY <1>1, <2>1, FS_EmptySet, FS_CardinalityType
<1> QED BY <1>3, <1>5, <1>6, <1>7, <1>13, <1>14, <1>15

(* Graded against the desk's own trips, the simulator reads no gap.        *)
LEMMA ReplicationIsZero ==
  ASSUME ReplayInv
  PROVE  ReplicationReadsZero
<1> SUFFICES ASSUME did # {}, ~waited, ~ranked PROVE Replicates(ModelledSide(Simulated), LedgerSide(Trips))
  BY DEF ReplicationReadsZero
<1>1. IsArchive(bars, feed) /\ Simulated = Found(bars, feed)
  BY WalkIsDesk DEF ReplayInv, ReplayIs
<1>2. {t \in Simulated : t.resolved} = did
  BY WalkIsDesk DEF WalkIsTheDesk
<1>3. ModelledSide(Simulated) = [n |-> Cardinality({t.outlook : t \in did}), sum |-> PriceOf(did)]
  BY <1>2 DEF ModelledSide
<1>4. did \in SUBSET Found(bars, feed)
  BY <1>1, <1>2
<1>5. IsFiniteSet(did)
  BY <1>1, <1>4, FoundAreFinite, FS_Subset
<1>6. \A t \in did : PriceRet(t) \in Int
  BY <1>1, <1>4, FoundInNumbers
<1>7. PICK n, s : n = Cardinality({t.outlook : t \in did}) /\ s = PriceOf(did)
  OBVIOUS
<1>8. LedgerSide(did).n = n /\ n \in Nat \ {0} /\ LedgerSide(did).sum = s /\ s \in Int
  BY <1>5, <1>6, <1>7, LedgerSideIs
<1>9. ModelledSide(Simulated).n = n /\ ModelledSide(Simulated).sum = s
  BY <1>3, <1>7
<1> QED BY <1>8, <1>9 DEF Replicates, Gap, Trips

-----------------------------------------------------------------------------
(* The budget. *)

(* Trades whose order is the walk's: by poll, and within one by the feed.  *)
InOrder(trades) ==
  /\ IsFiniteSet(trades)
  /\ \A t \in trades : /\ t.plan.at \in Nat \ {0} /\ t.outlook \in Nat /\ t.closes \in Nat
                       /\ t.plan.at < t.closes /\ t.closes <= Len(bars)
  /\ \A t, u \in trades : t.plan.at = u.plan.at /\ t.outlook = u.outlook => t = u

(* Of some of them one was opened last.                                    *)
LEMMA LastIsOne ==
  ASSUME NEW S, InOrder(S), NEW s \in SUBSET S, s # {}
  PROVE  /\ LastOpened(s) \in s /\ \A u \in s \ {LastOpened(s)} : Earlier(u, LastOpened(s))
         /\ IsFiniteSet(s \ {LastOpened(s)}) /\ Cardinality(s) \in Nat
         /\ Cardinality(s \ {LastOpened(s)}) \in Nat /\ Cardinality(s \ {LastOpened(s)}) < Cardinality(s)
<1>1. IsFiniteSet(s)
  BY FS_Subset DEF InOrder
<1>2. \A t \in s : t.plan.at \in Nat /\ t.outlook \in Nat
  BY DEF InOrder
<1> DEFINE A == {t.plan.at : t \in s}
<1>3. IsFiniteSet(A) /\ A \in SUBSET Int /\ A # {}
  <2> DEFINE f == [t \in s |-> t.plan.at]
  <2>1. f \in Surjection(s, A)
    BY DEF Surjection
  <2>2. A \in SUBSET Int /\ A # {}
    BY <1>2
  <2> HIDE DEF f, A
  <2> QED BY <1>1, <2>1, <2>2, FS_Surjection
<1>4. PICK m \in A : \A x \in A : m >= x
  <2> HIDE DEF A
  <2> QED BY <1>3, GreatestOfFinite
<1> DEFINE L == {t \in s : t.plan.at = m}
           B == {t.outlook : t \in L}
<1>5. IsFiniteSet(B) /\ B \in SUBSET Int /\ B # {}
  <2> DEFINE f == [t \in L |-> t.outlook]
  <2>1. f \in Surjection(L, B)
    BY DEF Surjection
  <2>2. B \in SUBSET Int /\ B # {}
    BY <1>2, <1>4
  <2>3. IsFiniteSet(L)
    BY <1>1, FS_Subset
  <2> HIDE DEF f, B, L
  <2> QED BY <2>1, <2>2, <2>3, FS_Surjection
<1>6. PICK o \in B : \A x \in B : o >= x
  <2> HIDE DEF B
  <2> QED BY <1>5, GreatestOfFinite
<1>7. PICK t \in L : t.outlook = o
  BY <1>6
<1>8. t \in s /\ \A u \in s \ {t} : Earlier(u, t)
  <2>1. t \in s /\ t.plan.at = m /\ t.plan.at \in Nat /\ t.outlook \in Nat
    BY <1>2, <1>7
  <2>2. ASSUME NEW u \in s \ {t} PROVE Earlier(u, t)
    <3>1. u.plan.at <= t.plan.at /\ u.plan.at \in Nat /\ u.outlook \in Nat
      BY <1>2, <1>4, <2>1
    <3>2. CASE u.plan.at = t.plan.at
      <4>1. u.outlook \in B
        BY <2>1, <3>2
      <4>2. u.outlook <= t.outlook
        BY <1>6, <1>7, <2>1, <3>1, <4>1
      <4>3. u.outlook # t.outlook
        BY <2>1, <3>2 DEF InOrder
      <4> QED BY <2>1, <3>1, <3>2, <4>2, <4>3 DEF Earlier
    <3> QED BY <2>1, <3>1, <3>2 DEF Earlier
  <2> QED BY <2>1, <2>2
<1>9. LastOpened(s) \in s /\ \A u \in s \ {LastOpened(s)} : Earlier(u, LastOpened(s))
  BY <1>8 DEF LastOpened
<1>10. PICK l : l = LastOpened(s)
  OBVIOUS
<1>11. l \in s /\ IsFiniteSet(s \ {l}) /\ Cardinality(s) \in Nat /\ Cardinality(s \ {l}) = Cardinality(s) - 1 /\ Cardinality(s \ {l}) \in Nat
  BY <1>1, <1>9, <1>10, FS_RemoveElement, FS_CardinalityType
<1> QED BY <1>9, <1>10, <1>11

(* The budget's run, over the trades taken so far.                         *)
Letting(f, maxOpen, s) == IF s = {} THEN [kept |-> {}, refused |-> 0]
                          ELSE TakesRoom(maxOpen, f[s \ {LastOpened(s)}], LastOpened(s))
Caps(f, maxOpen, S) == f = [s \in SUBSET S |-> Letting(f, maxOpen, s)]

(* The run over the subsets of the trades is a function.                   *)
LEMMA CappingExists ==
  ASSUME NEW w, NEW S, InOrder(S)
  PROVE  \E f : Caps(f, w, S)
<1> DEFINE Fine(n) == \E g : \A s \in SUBSET S : Cardinality(s) <= n => g[s] = Letting(g, w, s)
           Bad == {n \in Nat : ~Fine(n)}
<1>0. \A s \in SUBSET S : IsFiniteSet(s) /\ Cardinality(s) \in Nat /\ Cardinality(s) <= Cardinality(S)
  BY FS_Subset, FS_CardinalityType DEF InOrder
<1>1. ASSUME NEW n \in Nat, NEW g, \A s \in SUBSET S : Cardinality(s) < n => g[s] = Letting(g, w, s)
      PROVE  LET h == [s \in SUBSET S |-> Letting(g, w, s)]
             IN  \A s \in SUBSET S : Cardinality(s) <= n => h[s] = Letting(h, w, s)
  <2> DEFINE h == [s \in SUBSET S |-> Letting(g, w, s)]
  <2>1. \A s \in SUBSET S : h[s] = Letting(g, w, s)
    OBVIOUS
  <2> HIDE DEF h
  <2>2. ASSUME NEW s \in SUBSET S, Cardinality(s) <= n
        PROVE  h[s] = Letting(h, w, s)
    <3>1. CASE s = {}
      BY <2>1, <3>1 DEF Letting
    <3>2. CASE s # {}
      <4> DEFINE r == s \ {LastOpened(s)}
      <4>1. r \in SUBSET S /\ Cardinality(r) < Cardinality(s) /\ Cardinality(r) \in Nat /\ Cardinality(s) \in Nat
        BY <1>0, <3>2, LastIsOne
      <4>2. Cardinality(r) < n
        BY <2>2, <4>1
      <4>3. h[r] = g[r]
        BY <1>1, <2>1, <4>1, <4>2
      <4>4. Letting(h, w, s) = Letting(g, w, s)
        BY <3>2, <4>3 DEF Letting
      <4> QED BY <2>1, <4>4
    <3> QED BY <3>1, <3>2
  <2> QED BY <2>2 DEF h
<1>2. Bad = {}
  <2> SUFFICES ASSUME Bad # {} PROVE FALSE
    OBVIOUS
  <2>1. PICK n \in Bad : \A m \in Bad : n <= m
    <3> HIDE DEF Fine
    <3>1. Bad \in SUBSET Nat
      OBVIOUS
    <3> QED BY <3>1, LeastNatural
  <2>2. PICK g : \A s \in SUBSET S : Cardinality(s) < n => g[s] = Letting(g, w, s)
    <3>1. CASE n = 0
      <4>1. \A s \in SUBSET S : ~(Cardinality(s) < n)
        BY <1>0, <3>1
      <4> QED BY <4>1
    <3>2. CASE n # 0
      <4>1. n - 1 \in Nat /\ Fine(n - 1)
        <5> HIDE DEF Fine
        <5> QED BY <2>1, <3>2
      <4>2. PICK g : \A s \in SUBSET S : Cardinality(s) <= n - 1 => g[s] = Letting(g, w, s)
        BY <4>1
      <4>3. \A s \in SUBSET S : Cardinality(s) < n => Cardinality(s) <= n - 1
        BY <1>0, <4>1
      <4> QED BY <4>2, <4>3
    <3> QED BY <3>1, <3>2
  <2> DEFINE h == [s \in SUBSET S |-> Letting(g, w, s)]
  <2>3. \A s \in SUBSET S : Cardinality(s) <= n => h[s] = Letting(h, w, s)
    <3>1. n \in Nat
      <4> HIDE DEF Fine
      <4> QED BY <2>1
    <3> QED BY <3>1, <2>2, <1>1
  <2>4. Fine(n)
    <3> HIDE DEF h
    <3> QED BY <2>3
  <2> QED BY <2>1, <2>4
<1>3. PICK g : \A s \in SUBSET S : Cardinality(s) <= Cardinality(S) => g[s] = Letting(g, w, s)
  <2>1. Cardinality(S) \in Nat
    BY FS_CardinalityType DEF InOrder
  <2>2. Fine(Cardinality(S))
    <3> HIDE DEF Fine
    <3> QED BY <1>2, <2>1
  <2> QED BY <2>2
<1> DEFINE f == [s \in SUBSET S |-> g[s]]
<1>4. \A s \in SUBSET S : f[s] = g[s] /\ g[s] = Letting(g, w, s)
  BY <1>0, <1>3
<1>5. f = [s \in SUBSET S |-> f[s]]
  OBVIOUS
<1> HIDE DEF f
<1>6. \A s \in SUBSET S : f[s] = Letting(f, w, s)
  <2> SUFFICES ASSUME NEW s \in SUBSET S PROVE f[s] = Letting(f, w, s)
    OBVIOUS
  <2>1. s \ {LastOpened(s)} \in SUBSET S
    OBVIOUS
  <2> QED BY <2>1, <1>4 DEF Letting
<1>7. Caps(f, w, S)
  BY <1>5, <1>6 DEF Caps
<1> QED BY <1>7

(* A book is never fuller than n when it is not on any bar.                *)
LEMMA OpenAreFew ==
  ASSUME NEW S, InOrder(S), NEW s \in SUBSET S, NEW n \in Nat
  PROVE  Occupancy(s) <= n <=> \A k \in DOMAIN bars : Cardinality(OpenAt(s, k)) <= n
<1>1. IsFiniteSet(s) /\ Cardinality(s) \in Nat
  BY FS_Subset, FS_CardinalityType DEF InOrder
<1>2. \A k : Cardinality(OpenAt(s, k)) \in Nat /\ Cardinality(OpenAt(s, k)) <= Cardinality(s)
  <2> SUFFICES ASSUME NEW k PROVE Cardinality(OpenAt(s, k)) \in Nat /\ Cardinality(OpenAt(s, k)) <= Cardinality(s)
    OBVIOUS
  <2>1. PICK V \in SUBSET s : V = OpenAt(s, k)
    BY DEF OpenAt
  <2>2. IsFiniteSet(V) /\ Cardinality(V) <= Cardinality(s)
    BY <1>1, FS_Subset
  <2> QED BY <2>1, <2>2, FS_CardinalityType
<1> DEFINE C == {0} \cup {Cardinality(OpenAt(s, k)) : k \in DOMAIN bars}
<1>3. C \in SUBSET Int /\ C # {} /\ \A x \in C : x <= Cardinality(s) /\ x \in Nat
  BY <1>1, <1>2
<1>4. Max(C) \in C /\ \A y \in C : Max(C) >= y
  <2>0. PICK q \in Int : q = Cardinality(s)
    BY <1>1
  <2>1. PICK V : V = C
    OBVIOUS
  <2>2. V \in SUBSET Int /\ V # {} /\ \A x \in V : x <= q
    BY <1>3, <2>0, <2>1
  <2>3. Max(V) \in V /\ \A y \in V : Max(V) >= y
    BY <2>2, MaxOfBounded
  <2> QED BY <2>1, <2>3
<1>5. Occupancy(s) = Max(C)
  BY DEF Occupancy
<1>6. PICK m \in C : m = Max(C)
  BY <1>4
<1>7. Occupancy(s) = m /\ m \in Nat /\ \A y \in C : m >= y
  BY <1>3, <1>4, <1>5, <1>6
<1>8. m = 0 \/ \E k \in DOMAIN bars : m = Cardinality(OpenAt(s, k))
  BY <1>6
<1>9. \A k \in DOMAIN bars : m >= Cardinality(OpenAt(s, k))
  BY <1>7
<1> QED BY <1>2, <1>7, <1>8, <1>9

LEMMA OpenAreFinite ==
  ASSUME NEW S, InOrder(S), NEW s \in SUBSET S
  PROVE  \A k : IsFiniteSet(OpenAt(s, k)) /\ Cardinality(OpenAt(s, k)) \in Nat
<1>1. IsFiniteSet(s)
  BY FS_Subset DEF InOrder
<1> SUFFICES ASSUME NEW k PROVE IsFiniteSet(OpenAt(s, k)) /\ Cardinality(OpenAt(s, k)) \in Nat
  OBVIOUS
<1>2. PICK V \in SUBSET s : V = OpenAt(s, k)
  BY DEF OpenAt
<1> QED BY <1>1, <1>2, FS_Subset, FS_CardinalityType

(* One trade more, the last of those taken so far.                         *)
KeepsRoom(n, s, run) ==
  /\ run \in [kept : SUBSET s, refused : Nat]
  /\ \A k \in Nat : Cardinality(OpenAt(run.kept, k)) <= n
  /\ run.refused = 0 => run.kept = s
  /\ run.refused > 0 => \E k \in DOMAIN bars : Cardinality(OpenAt(s, k)) > n

LEMMA RoomIsKept ==
  ASSUME DOMAIN bars = 1..Len(bars), Len(bars) \in Nat,
         NEW S, InOrder(S), NEW s \in SUBSET S, NEW t \in s, \A u \in s \ {t} : Earlier(u, t), NEW n \in Nat \ {0},
         NEW run, KeepsRoom(n, s \ {t}, run)
  PROVE  KeepsRoom(n, s, TakesRoom(n, run, t))
<1> DEFINE r == s \ {t}
           running == {c \in run.kept : c.closes > t.plan.at}
<1>1. run \in [kept : SUBSET r, refused : Nat]
  BY DEF KeepsRoom
<1>2. PICK K \in SUBSET r, q \in Nat : run = [kept |-> K, refused |-> q]
  BY <1>1
<1>3. /\ \A k \in Nat : Cardinality(OpenAt(K, k)) <= n
      /\ q = 0 => K = r
      /\ q > 0 => \E k \in DOMAIN bars : Cardinality(OpenAt(r, k)) > n
  BY <1>2 DEF KeepsRoom
<1>4. /\ t.plan.at \in Nat /\ t.closes \in Nat /\ t.plan.at \in DOMAIN bars /\ t.plan.at < t.closes
      /\ \A u \in r : u.plan.at \in Nat /\ u.closes \in Nat /\ u.plan.at <= t.plan.at
  <2>1. \A u \in s : u.plan.at \in Nat \ {0} /\ u.outlook \in Nat /\ u.closes \in Nat /\ u.plan.at < u.closes /\ u.closes <= Len(bars)
    BY DEF InOrder
  <2>2. \A u \in r : u.plan.at <= t.plan.at
    BY <2>1 DEF Earlier
  <2> QED BY <2>1, <2>2
<1>5. PICK R : R = running
  OBVIOUS
<1>6. \A c : c \in R <=> c \in K /\ c.closes > t.plan.at
  BY <1>2, <1>5
<1>7. R \in SUBSET s /\ IsFiniteSet(R) /\ Cardinality(R) \in Nat /\ t \notin R /\ K \in SUBSET S /\ r \in SUBSET S
  <2>1. R \in SUBSET s /\ t \notin R /\ K \in SUBSET S /\ r \in SUBSET S /\ R \in SUBSET S
    BY <1>2, <1>6
  <2>2. IsFiniteSet(R)
    BY <2>1, FS_Subset DEF InOrder
  <2> QED BY <2>1, <2>2, FS_CardinalityType
<1>8. PICK U : U = R \cup {t}
  OBVIOUS
<1>9. IsFiniteSet(U) /\ Cardinality(U) = Cardinality(R) + 1 /\ U \in SUBSET s
  BY <1>7, <1>8, FS_AddElement
<1>10. \A k : /\ IsFiniteSet(OpenAt(s, k)) /\ Cardinality(OpenAt(s, k)) \in Nat
              /\ IsFiniteSet(OpenAt(r, k)) /\ Cardinality(OpenAt(r, k)) \in Nat
              /\ Cardinality(OpenAt(r, k)) <= Cardinality(OpenAt(s, k))
  <2>1. \A k : /\ IsFiniteSet(OpenAt(s, k)) /\ Cardinality(OpenAt(s, k)) \in Nat
    BY OpenAreFinite
  <2>2. \A k : /\ IsFiniteSet(OpenAt(r, k)) /\ Cardinality(OpenAt(r, k)) \in Nat
    BY <1>7, OpenAreFinite
  <2>3. \A k : OpenAt(r, k) \in SUBSET OpenAt(s, k)
    BY DEF OpenAt
  <2> QED BY <2>1, <2>2, <2>3, FS_Subset
<1>11. CASE Cardinality(R) >= n
  <2>1. TakesRoom(n, run, t) = [kept |-> K, refused |-> q + 1]
    BY <1>2, <1>5, <1>11 DEF TakesRoom
  <2>2. U \in SUBSET OpenAt(s, t.plan.at)
    BY <1>2, <1>4, <1>6, <1>8, <1>9 DEF OpenAt
  <2>3. PICK O : O = OpenAt(s, t.plan.at)
    OBVIOUS
  <2>4. Cardinality(U) <= Cardinality(O) /\ Cardinality(O) \in Nat
    BY <1>10, <2>2, <2>3, FS_Subset
  <2>5. Cardinality(O) > n
    BY <1>7, <1>9, <1>11, <2>4
  <2>6. \E k \in DOMAIN bars : Cardinality(OpenAt(s, k)) > n
    BY <1>4, <2>3, <2>5
  <2>7. K \in SUBSET s /\ q + 1 \in Nat /\ q + 1 # 0
    BY <1>2
  <2> QED BY <1>3, <2>1, <2>6, <2>7 DEF KeepsRoom
<1>12. CASE ~(Cardinality(R) >= n)
  <2>1. TakesRoom(n, run, t) = [kept |-> K \cup {t}, refused |-> q]
    BY <1>2, <1>5, <1>12 DEF TakesRoom
  <2>2. ASSUME NEW k \in Nat PROVE Cardinality(OpenAt(K \cup {t}, k)) <= n
    <3>1. CASE t.plan.at <= k /\ k < t.closes
      <4>1. OpenAt(K \cup {t}, k) \in SUBSET U
        BY <1>2, <1>4, <1>6, <1>8, <3>1 DEF OpenAt
      <4>2. PICK O : O = OpenAt(K \cup {t}, k)
        OBVIOUS
      <4>3. Cardinality(O) <= Cardinality(U) /\ Cardinality(O) \in Nat
        BY <1>9, <4>1, <4>2, FS_Subset, FS_CardinalityType
      <4> QED BY <1>7, <1>9, <1>12, <4>2, <4>3
    <3>2. CASE ~(t.plan.at <= k /\ k < t.closes)
      <4>1. OpenAt(K \cup {t}, k) = OpenAt(K, k)
        BY <3>2 DEF OpenAt
      <4> QED BY <1>3, <4>1
    <3> QED BY <3>1, <3>2
  <2>3. q = 0 => K \cup {t} = s
    BY <1>3
  <2>4. ASSUME q > 0 PROVE \E k \in DOMAIN bars : Cardinality(OpenAt(s, k)) > n
    <3>1. PICK k \in DOMAIN bars : Cardinality(OpenAt(r, k)) > n
      BY <1>3, <2>4
    <3>2. Cardinality(OpenAt(r, k)) <= Cardinality(OpenAt(s, k)) /\ Cardinality(OpenAt(r, k)) \in Nat /\ Cardinality(OpenAt(s, k)) \in Nat
      BY <1>10
    <3> QED BY <3>1, <3>2
  <2>5. K \cup {t} \in SUBSET s
    BY <1>2
  <2>6. PICK L \in SUBSET s : L = K \cup {t}
    BY <2>5
  <2>7. PICK next : next = [kept |-> L, refused |-> q]
    OBVIOUS
  <2>8. next \in [kept : SUBSET s, refused : Nat] /\ next.kept = L /\ next.refused = q
    BY <2>7
  <2>9. KeepsRoom(n, s, next)
    BY <2>2, <2>3, <2>4, <2>6, <2>8 DEF KeepsRoom
  <2> QED BY <2>1, <2>6, <2>7, <2>9
<1> QED BY <1>11, <1>12

(* So the run keeps room, whatever the trades.                             *)
LEMMA CappingIs ==
  ASSUME DOMAIN bars = 1..Len(bars), Len(bars) \in Nat,
         NEW S, InOrder(S), NEW n \in Nat \ {0}
  PROVE  KeepsRoom(n, S, CapConcurrency(S, n))
<1>1. PICK f : Caps(f, n, S)
  BY CappingExists
<1> DEFINE g == CHOOSE g : Caps(g, n, S)
<1>2. Caps(g, n, S)
  BY <1>1
<1>3. CapConcurrency(S, n) = g[S]
  BY DEF CapConcurrency, Caps, Letting
<1> HIDE DEF g
<1>4. \A s \in SUBSET S : g[s] = Letting(g, n, s)
  <2>1. g = [s \in SUBSET S |-> Letting(g, n, s)]
    BY <1>2 DEF Caps
  <2> QED BY <2>1
<1>5. \A s \in SUBSET S : Cardinality(s) \in Nat
  BY FS_Subset, FS_CardinalityType DEF InOrder
<1> DEFINE Bad == {m \in Nat : \E s \in SUBSET S : Cardinality(s) = m /\ ~KeepsRoom(n, s, g[s])}
<1>6. ASSUME Bad # {} PROVE FALSE
  <2>1. PICK m \in Bad : \A l \in Bad : m <= l
    <3>1. Bad \in SUBSET Nat
      OBVIOUS
    <3> HIDE DEF Bad
    <3> QED BY <1>6, <3>1, LeastNatural
  <2>2. PICK s \in SUBSET S : Cardinality(s) = m /\ ~KeepsRoom(n, s, g[s])
    BY <2>1
  <2>3. CASE s = {}
    <3>1. g[s] = [kept |-> {}, refused |-> 0]
      BY <1>4, <2>3 DEF Letting
    <3>2. \A k : OpenAt({}, k) = {}
      BY DEF OpenAt
    <3>e. Cardinality({}) = 0 /\ 0 <= n
      BY FS_EmptySet
    <3>3. \A k : Cardinality(OpenAt({}, k)) <= n
      BY <3>2, <3>e
    <3>4. g[s] \in [kept : SUBSET s, refused : Nat] /\ g[s].kept = {} /\ g[s].refused = 0
      BY <3>1
    <3> QED BY <2>2, <2>3, <3>3, <3>4 DEF KeepsRoom
  <2>4. CASE s # {}
    <3>1. PICK t : t = LastOpened(s)
      OBVIOUS
    <3>2. /\ t \in s /\ \A u \in s \ {t} : Earlier(u, t)
          /\ Cardinality(s \ {t}) \in Nat /\ Cardinality(s \ {t}) < Cardinality(s)
      BY <2>4, <3>1, LastIsOne
    <3>3. PICK r \in SUBSET S : r = s \ {t}
      OBVIOUS
    <3>4. KeepsRoom(n, r, g[r])
      <4> SUFFICES ASSUME ~KeepsRoom(n, r, g[r]) PROVE FALSE
        OBVIOUS
      <4>1. Cardinality(r) \in Bad
        BY <3>2, <3>3
      <4> QED BY <1>5, <2>1, <2>2, <3>2, <3>3, <4>1
    <3>5. g[s] = TakesRoom(n, g[r], t)
      BY <1>4, <2>4, <3>1, <3>3 DEF Letting
    <3>6. KeepsRoom(n, s, TakesRoom(n, g[r], t))
      BY <3>2, <3>3, <3>4, RoomIsKept
    <3> QED BY <2>2, <3>5, <3>6
  <2> QED BY <2>3, <2>4
<1>7. KeepsRoom(n, S, g[S])
  BY <1>5, <1>6
<1> QED BY <1>3, <1>7

(* And a budget refuses somebody exactly when the book was once fuller     *)
(* than it.                                                                *)
LEMMA BudgetsAddUp ==
  ASSUME DOMAIN bars = 1..Len(bars), Len(bars) \in Nat, NEW S, InOrder(S), NEW n \in Nat \ {0}
  PROVE  LET capped == CapConcurrency(S, n)
         IN  /\ Occupancy(capped.kept) <= n
             /\ capped.refused > 0 <=> Occupancy(S) > n
<1>1. PICK run : run = CapConcurrency(S, n)
  OBVIOUS
<1>2. KeepsRoom(n, S, run)
  BY <1>1, CappingIs
<1>3. PICK K \in SUBSET S, q \in Nat : run = [kept |-> K, refused |-> q]
  BY <1>2 DEF KeepsRoom
<1>4. /\ \A k \in Nat : Cardinality(OpenAt(K, k)) <= n
      /\ q = 0 => K = S
      /\ q > 0 => \E k \in DOMAIN bars : Cardinality(OpenAt(S, k)) > n
  BY <1>2, <1>3 DEF KeepsRoom
<1>5. Occupancy(K) <= n
  BY <1>4, OpenAreFew
<1>6. Occupancy(S) <= n <=> \A k \in DOMAIN bars : Cardinality(OpenAt(S, k)) <= n
  BY OpenAreFew
<1>7. \A k : Cardinality(OpenAt(S, k)) \in Nat
  BY OpenAreFinite
<1>8. Occupancy(S) \in Nat
  <2> DEFINE C == {0} \cup {Cardinality(OpenAt(S, k)) : k \in DOMAIN bars}
  <2>1. Max(C) \in C
    <3>1. IsFiniteSet(S) /\ Cardinality(S) \in Nat
      BY FS_CardinalityType DEF InOrder
    <3>2. \A k : Cardinality(OpenAt(S, k)) <= Cardinality(S)
      <4> SUFFICES ASSUME NEW k PROVE Cardinality(OpenAt(S, k)) <= Cardinality(S)
        OBVIOUS
      <4>1. PICK V \in SUBSET S : V = OpenAt(S, k)
        BY DEF OpenAt
      <4> QED BY <3>1, <4>1, FS_Subset
    <3>3. PICK m \in Int : m = Cardinality(S)
      BY <3>1
    <3>4. PICK V : V = C
      OBVIOUS
    <3>5. V \in SUBSET Int /\ V # {} /\ \A x \in V : x <= m
      BY <1>7, <3>1, <3>2, <3>3, <3>4
    <3>6. Max(V) \in V
      BY <3>5, MaxOfBounded
    <3> QED BY <3>4, <3>6
  <2>2. \A x \in C : x \in Nat
    BY <1>7
  <2> QED BY <2>1, <2>2 DEF Occupancy
<1>9. q > 0 <=> Occupancy(S) > n
  <2>1. CASE q = 0
    BY <1>4, <1>5, <1>8, <2>1
  <2>2. CASE q > 0
    <3>1. PICK k \in DOMAIN bars : Cardinality(OpenAt(S, k)) > n
      BY <1>4, <2>2
    <3>2. ~(Occupancy(S) <= n)
      BY <1>6, <1>7, <3>1
    <3> QED BY <1>8, <2>2, <3>2
  <2> QED BY <2>1, <2>2
<1> QED BY <1>1, <1>3, <1>5, <1>9

-----------------------------------------------------------------------------
(* The daily loss cap. *)

(* The walk over the bars that stops a day's entries at its loss cap.      *)
AtTheStart == [equity |-> Stake, closed |-> 0, openEquity |-> Stake, kept |-> {}, halted |-> FALSE]
IsHaltWalk(g, trades, n) == g = [k \in 0..n |-> IF k = 0 THEN AtTheStart ELSE HaltStep(trades, g[k - 1], k)]

(* It is a function.                                                       *)
LEMMA HaltWalkExists ==
  ASSUME NEW trades, NEW n \in Nat
  PROVE  \E g : IsHaltWalk(g, trades, n)
<1> DEFINE Fine(m) == \E g : \A k \in 0..m : g[k] = IF k = 0 THEN AtTheStart ELSE HaltStep(trades, g[k - 1], k)
           Bad == {m \in Nat : ~Fine(m)}
<1>1. Fine(0)
  <2> DEFINE g == [k \in 0..0 |-> AtTheStart]
  <2>1. \A k \in 0..0 : k = 0 /\ g[k] = AtTheStart
    OBVIOUS
  <2> HIDE DEF g
  <2>2. \A k \in 0..0 : g[k] = IF k = 0 THEN AtTheStart ELSE HaltStep(trades, g[k - 1], k)
    BY <2>1
  <2> QED BY <2>2
<1>2. ASSUME NEW m \in Nat, Fine(m) PROVE Fine(m + 1)
  <2>1. PICK g : \A k \in 0..m : g[k] = IF k = 0 THEN AtTheStart ELSE HaltStep(trades, g[k - 1], k)
    BY <1>2
  <2> DEFINE h == [k \in 0..m + 1 |-> IF k = m + 1 THEN HaltStep(trades, g[m], m + 1) ELSE g[k]]
  <2>2. /\ \A k \in 0..m : h[k] = g[k]
        /\ h[m + 1] = HaltStep(trades, g[m], m + 1)
    OBVIOUS
  <2> HIDE DEF h
  <2>3. ASSUME NEW k \in 0..m + 1 PROVE h[k] = IF k = 0 THEN AtTheStart ELSE HaltStep(trades, h[k - 1], k)
    <3>1. CASE k = 0
      BY <2>1, <2>2, <3>1
    <3>2. CASE k \in 1..m
      <4>1. k - 1 \in 0..m /\ k \in 0..m /\ k # 0
        BY <3>2
      <4> QED BY <2>1, <2>2, <4>1
    <3>3. CASE k = m + 1
      <4>1. k - 1 = m /\ m \in 0..m /\ k # 0
        BY <3>3
      <4> QED BY <2>2, <3>3, <4>1
    <3> QED BY <3>1, <3>2, <3>3
  <2> QED BY <2>3
<1> HIDE DEF Fine
<1>3. ASSUME Bad # {} PROVE FALSE
  <2>1. PICK m \in Bad : \A l \in Bad : m <= l
    <3>1. Bad \in SUBSET Nat
      OBVIOUS
    <3> HIDE DEF Bad
    <3> QED BY <1>3, <3>1, LeastNatural
  <2>2. m # 0 /\ m - 1 \in Nat
    BY <1>1, <2>1
  <2>3. Fine(m - 1)
    BY <2>1, <2>2
  <2>4. Fine(m - 1 + 1)
    BY <1>2, <2>2, <2>3
  <2> QED BY <2>1, <2>4
<1>4. Fine(n)
  BY <1>3
<1>5. PICK g : \A k \in 0..n : g[k] = IF k = 0 THEN AtTheStart ELSE HaltStep(trades, g[k - 1], k)
  BY <1>4 DEF Fine
<1> DEFINE h == [k \in 0..n |-> g[k]]
<1>6. \A k \in 0..n : h[k] = g[k]
  OBVIOUS
<1>7. h = [k \in 0..n |-> h[k]]
  OBVIOUS
<1> HIDE DEF h
<1>8. \A k \in 0..n : h[k] = IF k = 0 THEN AtTheStart ELSE HaltStep(trades, h[k - 1], k)
  <2> SUFFICES ASSUME NEW k \in 0..n PROVE h[k] = IF k = 0 THEN AtTheStart ELSE HaltStep(trades, h[k - 1], k)
    OBVIOUS
  <2>1. CASE k = 0
    BY <1>5, <1>6, <2>1
  <2>2. CASE k # 0
    <3>1. k - 1 \in 0..n
      BY <2>2
    <3> QED BY <1>5, <1>6, <2>2, <3>1
  <2> QED BY <2>1, <2>2
<1>9. h = [k \in 0..n |-> IF k = 0 THEN AtTheStart ELSE HaltStep(trades, h[k - 1], k)]
  BY <1>7, <1>8
<1> QED BY <1>9 DEF IsHaltWalk

(* And each bar takes it one step further.                                 *)
LEMMA HaltWalkIs ==
  ASSUME NEW trades, Len(bars) \in Nat
  PROVE  \E g : /\ HaltWalk(trades) = g[Len(bars)] /\ g[0] = AtTheStart
                /\ \A k \in 1..Len(bars) : g[k] = HaltStep(trades, g[k - 1], k)
<1> DEFINE g == CHOOSE g : IsHaltWalk(g, trades, Len(bars))
<1>1. IsHaltWalk(g, trades, Len(bars))
  BY HaltWalkExists
<1>2. HaltWalk(trades) = g[Len(bars)]
  BY DEF HaltWalk, IsHaltWalk, AtTheStart
<1> HIDE DEF g
<1>3. \A k \in 0..Len(bars) : g[k] = IF k = 0 THEN AtTheStart ELSE HaltStep(trades, g[k - 1], k)
  <2>1. g = [k \in 0..Len(bars) |-> IF k = 0 THEN AtTheStart ELSE HaltStep(trades, g[k - 1], k)]
    BY <1>1 DEF IsHaltWalk
  <2> QED BY <2>1
<1>4. g[0] = AtTheStart
  BY <1>3
<1>5. \A k \in 1..Len(bars) : g[k] = HaltStep(trades, g[k - 1], k)
  <2>1. \A k \in 1..Len(bars) : k \in 0..Len(bars) /\ k # 0
    OBVIOUS
  <2> QED BY <1>3, <2>1
<1> QED BY <1>2, <1>4, <1>5

Arriving(trades, k) == {t \in trades : t.plan.at = k}
Rolls(k) == k = 1 \/ DayOfBar(k) # DayOfBar(k - 1)

(* What one bar does to the walk.                                          *)
LEMMA HaltStepIs ==
  ASSUME NEW trades, NEW run, NEW k, NEW next, next = HaltStep(trades, run, k)
  PROVE  /\ next.kept = IF ~Rolls(k) /\ run.halted THEN run.kept ELSE run.kept \cup Arriving(trades, k)
         /\ next.openEquity = IF Rolls(k) THEN run.equity ELSE run.openEquity
         /\ next.halted <=> (~Rolls(k) /\ run.halted) \/ OverTheCap(next.equity, next.openEquity)
<1> DEFINE halted == ~Rolls(k) /\ run.halted
           opened == IF Rolls(k) THEN run.equity ELSE run.openEquity
           kept == IF halted THEN run.kept ELSE run.kept \cup Arriving(trades, k)
           closed == run.closed + PriceOf({t \in kept : t.closes = k})
           marked == closed + MarksOf(OpenAt(kept, k), k)
<1>1. next = [equity |-> Stake + marked, closed |-> closed, openEquity |-> opened, kept |-> kept,
              halted |-> halted \/ OverTheCap(Stake + marked, opened)]
  BY DEF HaltStep, Rolls, Arriving
<1>2. next.kept = kept
  BY <1>1
<1>4. next.equity = Stake + marked
  BY <1>1
<1>5. next.openEquity = opened
  BY <1>1
<1>6. next.halted = (halted \/ OverTheCap(Stake + marked, opened))
  <2> HIDE DEF halted, opened, kept, closed, marked
  <2> QED BY <1>1
<1>7. next.halted <=> halted \/ OverTheCap(next.equity, next.openEquity)
  <2> HIDE DEF halted, opened, kept, closed, marked
  <2> QED BY <1>4, <1>5, <1>6
<1> HIDE DEF halted, opened
<1> QED BY <1>2, <1>5, <1>7 DEF halted, opened

(* And to the money of those it kept.                                      *)
LEMMA HaltClosed ==
  ASSUME NEW trades, NEW run, NEW k, NEW next, next = HaltStep(trades, run, k),
         NEW X, X = {t \in next.kept : t.closes = k}
  PROVE  next.closed = run.closed + PriceOf(X)
<1> DEFINE halted == ~Rolls(k) /\ run.halted
           opened == IF Rolls(k) THEN run.equity ELSE run.openEquity
           kept == IF halted THEN run.kept ELSE run.kept \cup Arriving(trades, k)
           closed == run.closed + PriceOf({t \in kept : t.closes = k})
           marked == closed + MarksOf(OpenAt(kept, k), k)
<1>1. next = [equity |-> Stake + marked, closed |-> closed, openEquity |-> opened, kept |-> kept,
              halted |-> halted \/ OverTheCap(Stake + marked, opened)]
  BY DEF HaltStep, Rolls, Arriving
<1>2. next.kept = kept
  BY <1>1
<1>3. next.closed = closed
  BY <1>1
<1>4. X = {t \in kept : t.closes = k}
  BY <1>2
<1> HIDE DEF halted, opened, kept
<1> QED BY <1>3, <1>4

LEMMA HaltEquity ==
  ASSUME NEW trades, NEW run, NEW k, NEW next, next = HaltStep(trades, run, k),
         NEW O, O = OpenAt(next.kept, k)
  PROVE  next.equity = Stake + (next.closed + MarksOf(O, k))
<1> DEFINE halted == ~Rolls(k) /\ run.halted
           opened == IF Rolls(k) THEN run.equity ELSE run.openEquity
           kept == IF halted THEN run.kept ELSE run.kept \cup Arriving(trades, k)
           closed == run.closed + PriceOf({t \in kept : t.closes = k})
           marked == closed + MarksOf(OpenAt(kept, k), k)
<1>1. next = [equity |-> Stake + marked, closed |-> closed, openEquity |-> opened, kept |-> kept,
              halted |-> halted \/ OverTheCap(Stake + marked, opened)]
  BY DEF HaltStep, Rolls, Arriving
<1>2. next.kept = kept
  BY <1>1
<1>3. next.closed = closed
  BY <1>1
<1>4. next.equity = Stake + marked
  BY <1>1
<1>5. O = OpenAt(kept, k)
  BY <1>2
<1> HIDE DEF halted, opened, kept, closed
<1> QED BY <1>3, <1>4, <1>5

(* Days do not run backwards.                                              *)
LEMMA DaysRunOn ==
  ASSUME start \in Nat, NEW m \in Nat, NEW k \in Nat, m <= k
  PROVE  DayOfBar(m) \in Int /\ DayOfBar(k) \in Int /\ DayOfBar(m) <= DayOfBar(k)
<1>1. DayOfBar(m) \in Int /\ DayOfBar(k) \in Int
  BY DayIs
<1>2. PICK d \in Int, e \in Int : d = DayOfBar(m) /\ e = DayOfBar(k)
  BY <1>1
<1>3. d * BarsInDay <= m + start /\ k + start < (e + 1) * BarsInDay
  BY <1>2, DayIs
<1>4. ASSUME e < d PROVE FALSE
  <2>1. BarsInDay \in Nat
    BY WalkAssumption
  <2>2. (e + 1) * BarsInDay <= d * BarsInDay
    <3>1. PICK x \in Nat : d = (e + 1) + x
      BY <1>4
    <3>2. d * BarsInDay = (e + 1) * BarsInDay + x * BarsInDay /\ x * BarsInDay >= 0
      BY <2>1, <3>1
    <3>3. (e + 1) * BarsInDay \in Int /\ x * BarsInDay \in Int
      BY <2>1
    <3> QED BY <3>2, <3>3
  <2>3. PICK low \in Int, high \in Int : low = (e + 1) * BarsInDay /\ high = d * BarsInDay
    BY <2>1
  <2> QED BY <1>3, <2>2, <2>3
<1> QED BY <1>1, <1>2, <1>4

(* What trades made adds up.                                               *)
LEMMA PriceOfBoth ==
  ASSUME NEW A, NEW B, IsFiniteSet(A), IsFiniteSet(B), A \cap B = {}, \A t \in A \cup B : PriceRet(t) \in Int
  PROVE  PriceOf(A \cup B) = PriceOf(A) + PriceOf(B) /\ PriceOf(A) \in Int /\ PriceOf(B) \in Int
<1> DEFINE C == A \cup B
           w == [t \in C |-> PriceRet(t)]
           u == [t \in A |-> PriceRet(t)]
           v == [t \in B |-> PriceRet(t)]
<1>1. IsFiniteSet(C)
  BY FS_Union
<1>2. (\A t \in C : w[t] \in Int) /\ (\A t \in A : u[t] = w[t] /\ u[t] \in Int) /\ (\A t \in B : v[t] = w[t] /\ v[t] \in Int)
  OBVIOUS
<1>3. PriceOf(C) = Total(w, C)
  <2> HIDE DEF C
  <2> QED BY <1>1, PriceIsTotal
<1>4. PriceOf(A) = Total(u, A)
  BY PriceIsTotal
<1>5. PriceOf(B) = Total(v, B)
  BY PriceIsTotal
<1> HIDE DEF w, u, v
<1>6. Total(u, A) = Total(w, A) /\ Total(u, A) \in Int
  BY <1>2, TotalOfSame, TotalIsNumber
<1>7. Total(v, B) = Total(w, B) /\ Total(v, B) \in Int
  BY <1>2, TotalOfSame, TotalIsNumber
<1>8. Total(w, A \cup B) = Total(w, A) + Total(w, B)
  <2>1. \A t \in A \cup B : w[t] \in Int
    BY <1>2
  <2> QED BY <2>1, TotalOfTwo
<1> QED BY <1>3, <1>4, <1>5, <1>6, <1>7, <1>8

LEMMA NothingSums == PriceOf({}) = 0 /\ \A k : MarksOf({}, k) = 0
<1>1. PriceOf({}) = Total([t \in {} |-> PriceRet(t)], {})
  BY PriceIsTotal, FS_EmptySet
<1>2. \A k : MarksOf({}, k) = Total([t \in {} |-> MarkAt(t, k)], {})
  BY MarksAreTotal, FS_EmptySet
<1>3. PriceOf({}) = 0
  BY <1>1, TotalOfNone
<1>4. \A k : Total([t \in {} |-> MarkAt(t, k)], {}) = 0
  BY TotalOfNone
<1> QED BY <1>2, <1>3, <1>4

LEMMA MarksAreNumbers ==
  ASSUME NEW A, IsFiniteSet(A), NEW k, \A t \in A : MarkAt(t, k) \in Int
  PROVE  MarksOf(A, k) \in Int
<1> DEFINE w == [t \in A |-> MarkAt(t, k)]
<1>1. \A t \in A : w[t] \in Int
  OBVIOUS
<1>2. MarksOf(A, k) = Total(w, A)
  BY MarksAreTotal
<1> HIDE DEF w
<1> QED BY <1>1, <1>2, TotalIsNumber

(* The book of the trades K: what it was worth after a bar, when its day   *)
(* opened, and whether the day was barred before one.                      *)
ClosedBy(K, k) == {t \in K : t.closes <= k}
EquityOf(K, k) == Stake + PriceOf(ClosedBy(K, k)) + MarksOf(OpenAt(K, k), k)
DaysBefore(k) == {b \in DOMAIN bars : DayOfBar(b) < DayOfBar(k)}
OpenedAt(K, k) == IF DaysBefore(k) = {} THEN Stake ELSE EquityOf(K, Max(DaysBefore(k)))
Breaks(K, k) == OverTheCap(EquityOf(K, k), OpenedAt(K, k))
IsBarred(K, k) == \E b \in DOMAIN bars : b < k /\ DayOfBar(b) = DayOfBar(k) /\ Breaks(K, b)

(* A day opens on the bar after the last of the day before.                *)
LEMMA DaysBeforeAre ==
  ASSUME start \in Nat, Len(bars) \in Nat, DOMAIN bars = 1..Len(bars), NEW k \in 1..Len(bars)
  PROVE  /\ k = 1 => DaysBefore(k) = {}
         /\ k # 1 /\ DayOfBar(k) = DayOfBar(k - 1) => DaysBefore(k) = DaysBefore(k - 1)
         /\ k # 1 /\ DayOfBar(k) # DayOfBar(k - 1) => DaysBefore(k) # {} /\ Max(DaysBefore(k)) = k - 1
<1>1. \A b \in DOMAIN bars : b \in Nat /\ DayOfBar(b) \in Int /\ DayOfBar(k) \in Int /\ k \in Nat
  BY DaysRunOn
<1>2. \A b \in DOMAIN bars : k <= b => ~(DayOfBar(b) < DayOfBar(k))
  <2>1. \A b \in DOMAIN bars : k <= b => DayOfBar(k) <= DayOfBar(b)
    BY <1>1, DaysRunOn
  <2> QED BY <1>1, <2>1
<1>3. ASSUME k = 1 PROVE DaysBefore(k) = {}
  <2>1. \A b \in DOMAIN bars : k <= b
    BY <1>3
  <2> QED BY <1>2, <2>1 DEF DaysBefore
<1>4. ASSUME k # 1, DayOfBar(k) = DayOfBar(k - 1) PROVE DaysBefore(k) = DaysBefore(k - 1)
  BY <1>4 DEF DaysBefore
<1>5. ASSUME k # 1, DayOfBar(k) # DayOfBar(k - 1) PROVE DaysBefore(k) # {} /\ Max(DaysBefore(k)) = k - 1
  <2>1. k - 1 \in DOMAIN bars /\ k - 1 <= k /\ k - 1 \in Nat /\ k \in Nat
    BY <1>5
  <2>2. DayOfBar(k - 1) < DayOfBar(k)
    BY <1>1, <1>5, <2>1, DaysRunOn
  <2>3. \A b \in DaysBefore(k) : b \in DOMAIN bars /\ b \in Nat /\ ~(k <= b)
    BY <1>1, <1>2 DEF DaysBefore
  <2>4. k - 1 \in DaysBefore(k) /\ \A b \in DaysBefore(k) : b \in Int /\ b <= k - 1
    BY <2>1, <2>2, <2>3 DEF DaysBefore
  <2>5. PICK S : S = DaysBefore(k)
    OBVIOUS
  <2>6. PICK m \in Int : m = k - 1
    BY <2>1
  <2>7. S \in SUBSET Int /\ S # {} /\ \A x \in S : x <= m
    BY <2>4, <2>5, <2>6
  <2>8. Max(S) \in S /\ \A x \in S : Max(S) >= x
    BY <2>7, MaxOfBounded
  <2> QED BY <2>4, <2>5, <2>6, <2>7, <2>8
<1> QED BY <1>3, <1>4, <1>5

InNumbers(S) == \A t \in S : PriceRet(t) \in Int /\ \A k \in DOMAIN bars : MarkAt(t, k) \in Int

(* A bar is barred by those of its day before it, up to the one before it. *)
LEMMA BarredAre ==
  ASSUME start \in Nat, Len(bars) \in Nat, DOMAIN bars = 1..Len(bars), NEW K, NEW k \in 1..Len(bars)
  PROVE  /\ Rolls(k) => ~IsBarred(K, k)
         /\ ~Rolls(k) => (IsBarred(K, k) <=> IsBarred(K, k - 1) \/ Breaks(K, k - 1))
<1>1. \A b \in DOMAIN bars : b \in Nat /\ DayOfBar(b) \in Int /\ DayOfBar(k) \in Int /\ k \in Nat
  BY DaysRunOn
<1>2. CASE k = 1
  <2>1. \A b \in DOMAIN bars : ~(b < k)
    BY <1>2
  <2> QED BY <1>2, <2>1 DEF Rolls, IsBarred
<1>3. CASE k # 1
  <2>1. k - 1 \in DOMAIN bars /\ k - 1 \in Nat /\ k - 1 < k
    BY <1>1, <1>3
  <2>2. \A b \in DOMAIN bars : b < k <=> b < k - 1 \/ b = k - 1
    BY <1>1
  <2>3. ASSUME Rolls(k) PROVE ~IsBarred(K, k)
    <3>1. DayOfBar(k - 1) < DayOfBar(k)
      BY <1>1, <1>3, <2>1, <2>3, DaysRunOn DEF Rolls
    <3>2. ASSUME NEW b \in DOMAIN bars, b < k PROVE DayOfBar(b) # DayOfBar(k)
      <4>1. b <= k - 1 /\ b \in Nat
        BY <1>1, <2>2, <3>2
      <4>2. DayOfBar(b) <= DayOfBar(k - 1) /\ DayOfBar(b) \in Int /\ DayOfBar(k - 1) \in Int
        BY <2>1, <4>1, DaysRunOn
      <4> QED BY <1>1, <3>1, <4>2
    <3> QED BY <3>2 DEF IsBarred
  <2>4. ASSUME ~Rolls(k) PROVE IsBarred(K, k) <=> IsBarred(K, k - 1) \/ Breaks(K, k - 1)
    <3>1. DayOfBar(k) = DayOfBar(k - 1)
      BY <2>4 DEF Rolls
    <3> QED BY <2>1, <2>2, <3>1 DEF IsBarred
  <2> QED BY <2>3, <2>4
<1> QED BY <1>2, <1>3

(* The walk's running totals, bar by bar.                                  *)
IsHalting(g, S, N) ==
  g[0] = AtTheStart /\ \A k \in 1..N : g[k] = HaltStep(S, g[k - 1], k)

LEMMA HaltStepsAre ==
  ASSUME NEW g, NEW S, NEW N \in Nat, IsHalting(g, S, N), NEW k \in 1..N
  PROVE  /\ k - 1 \in 0..N /\ k \in 0..N /\ k \in Nat /\ ~(k <= k - 1)
         /\ g[k].kept = IF ~Rolls(k) /\ g[k - 1].halted THEN g[k - 1].kept ELSE g[k - 1].kept \cup Arriving(S, k)
         /\ g[k].openEquity = IF Rolls(k) THEN g[k - 1].equity ELSE g[k - 1].openEquity
         /\ g[k].halted <=> (~Rolls(k) /\ g[k - 1].halted) \/ OverTheCap(g[k].equity, g[k].openEquity)
<1>1. PICK run, next : run = g[k - 1] /\ next = g[k]
  OBVIOUS
<1>2. next = HaltStep(S, run, k)
  BY <1>1 DEF IsHalting
<1>3. k - 1 \in 0..N /\ k \in 0..N /\ k \in Nat /\ ~(k <= k - 1)
  OBVIOUS
<1>4. next.kept = IF ~Rolls(k) /\ run.halted THEN run.kept ELSE run.kept \cup Arriving(S, k)
  BY <1>2, HaltStepIs
<1>7. next.openEquity = IF Rolls(k) THEN run.equity ELSE run.openEquity
  BY <1>2, HaltStepIs
<1>8. next.halted <=> (~Rolls(k) /\ run.halted) \/ OverTheCap(next.equity, next.openEquity)
  BY <1>2, HaltStepIs
<1>9. g[k].kept = IF ~Rolls(k) /\ g[k - 1].halted THEN g[k - 1].kept ELSE g[k - 1].kept \cup Arriving(S, k)
  BY <1>1, <1>4
<1>10. g[k].halted <=> (~Rolls(k) /\ g[k - 1].halted) \/ OverTheCap(g[k].equity, g[k].openEquity)
  BY <1>1, <1>8
<1>11. g[k].openEquity = IF Rolls(k) THEN g[k - 1].equity ELSE g[k - 1].openEquity
  BY <1>1, <1>7
<1> QED BY <1>3, <1>9, <1>10, <1>11

LEMMA HaltSumsAre ==
  ASSUME NEW g, NEW S, NEW N \in Nat, IsHalting(g, S, N), NEW k \in 1..N,
         NEW kept, kept = g[k].kept, NEW X, X = {t \in kept : t.closes = k}, NEW O, O = OpenAt(kept, k)
  PROVE  /\ g[k].closed = g[k - 1].closed + PriceOf(X)
         /\ g[k].equity = Stake + (g[k].closed + MarksOf(O, k))
<1>1. PICK run, next : run = g[k - 1] /\ next = g[k]
  OBVIOUS
<1>2. next = HaltStep(S, run, k)
  BY <1>1 DEF IsHalting
<1>3. X = {t \in next.kept : t.closes = k} /\ O = OpenAt(next.kept, k)
  BY <1>1
<1>4. next.closed = run.closed + PriceOf(X)
  BY <1>2, <1>3, HaltClosed
<1>5. next.equity = Stake + (next.closed + MarksOf(O, k))
  BY <1>2, <1>3, HaltEquity
<1>6. g[k].closed = g[k - 1].closed + PriceOf(X)
  BY <1>1, <1>4
<1>7. g[k].equity = Stake + (g[k].closed + MarksOf(O, k))
  BY <1>1, <1>5
<1> QED BY <1>6, <1>7

(* What the walk has kept by a bar is what it keeps in the end, opened by  *)
(* then.                                                                   *)
LEMMA KeptAre ==
  ASSUME NEW g, NEW S, InOrder(S), NEW N \in Nat, IsHalting(g, S, N), NEW k \in 0..N
  PROVE  /\ g[k].kept \subseteq S /\ \A t \in g[k].kept : t.plan.at <= k
         /\ \A l \in 0..k : \A t : t \in g[l].kept <=> t \in g[k].kept /\ t.plan.at <= l
<1> DEFINE Fine(m) == /\ g[m].kept \subseteq S /\ \A t \in g[m].kept : t.plan.at <= m
                      /\ \A l \in 0..m : \A t : t \in g[l].kept <=> t \in g[m].kept /\ t.plan.at <= l
           Bad == {m \in 0..N : ~Fine(m)}
<1>1. ASSUME Bad # {} PROVE FALSE
  <2>1. PICK m \in Bad : \A l \in Bad : m <= l
    <3>1. Bad \in SUBSET Nat
      OBVIOUS
    <3> HIDE DEF Bad
    <3> QED BY <1>1, <3>1, LeastNatural
  <2>2. m \in 0..N /\ ~Fine(m)
    BY <2>1
  <2>3. CASE m = 0
    <3>1. g[0].kept = {}
      BY DEF IsHalting, AtTheStart
    <3>2. \A l \in 0..0 : l = 0
      OBVIOUS
    <3> QED BY <2>2, <2>3, <3>1, <3>2
  <2>4. CASE m # 0
    <3>0. m \in 1..N
      BY <2>2, <2>4
    <3>1. m - 1 \in 0..N /\ m \in Nat /\ ~(m <= m - 1)
      BY <3>0
    <3>2. Fine(m - 1)
      BY <2>1, <3>1
    <3>3. PICK X \in SUBSET Arriving(S, m) : g[m].kept = g[m - 1].kept \cup X
      <4>1. g[m].kept = IF ~Rolls(m) /\ g[m - 1].halted THEN g[m - 1].kept ELSE g[m - 1].kept \cup Arriving(S, m)
        BY <3>0, HaltStepsAre
      <4>2. CASE ~Rolls(m) /\ g[m - 1].halted
        <5>1. g[m].kept = g[m - 1].kept \cup {}
          BY <4>1, <4>2
        <5> QED BY <5>1
      <4>3. CASE ~(~Rolls(m) /\ g[m - 1].halted)
        <5>1. g[m].kept = g[m - 1].kept \cup Arriving(S, m)
          BY <4>1, <4>3
        <5> QED BY <5>1
      <4> QED BY <4>2, <4>3
    <3>4. \A t \in S : t.plan.at \in Nat
      BY DEF InOrder
    <3>5. \A t \in X : t \in S /\ t.plan.at = m
      BY DEF Arriving
    <3>6. g[m].kept \subseteq S
      BY <3>2, <3>3, <3>5
    <3>7. \A t \in g[m].kept : t.plan.at <= m
      BY <3>1, <3>2, <3>3, <3>4, <3>5
    <3>8. ASSUME NEW l \in 0..m, NEW t PROVE t \in g[l].kept <=> t \in g[m].kept /\ t.plan.at <= l
      <4>1. CASE l = m
        BY <3>7, <4>1
      <4>2. CASE l # m
        <5>1. l \in 0..m - 1 /\ ~(m <= l)
          BY <3>1, <4>2
        <5>2. t \in g[l].kept <=> t \in g[m - 1].kept /\ t.plan.at <= l
          BY <3>2, <5>1
        <5> QED BY <3>3, <3>5, <5>1, <5>2
      <4> QED BY <4>1, <4>2
    <3> QED BY <2>2, <3>6, <3>7, <3>8
  <2> QED BY <2>3, <2>4
<1>2. Fine(k)
  BY <1>1
<1> QED BY <1>2

LEMMA HaltEquityIs ==
  ASSUME NEW g, NEW S, NEW N \in Nat, IsHalting(g, S, N), NEW k \in 1..N,
         NEW O, O = OpenAt(g[k].kept, k)
  PROVE  g[k].equity = Stake + (g[k].closed + MarksOf(O, k))
<1>1. PICK run, next : run = g[k - 1] /\ next = g[k]
  OBVIOUS
<1>2. next = HaltStep(S, run, k)
  BY <1>1 DEF IsHalting
<1>3. O = OpenAt(next.kept, k)
  BY <1>1
<1>4. next.equity = Stake + (next.closed + MarksOf(O, k))
  BY <1>2, <1>3, HaltEquity
<1> QED BY <1>1, <1>4

(* A walk over all the bars, and the trades K it kept.                      *)
IsTheWalk(g, S, N, K) ==
  /\ start \in Nat /\ N \in Nat /\ N = Len(bars) /\ DOMAIN bars = 1..N
  /\ InOrder(S) /\ InNumbers(S) /\ IsHalting(g, S, N) /\ K = g[N].kept

LEMMA KeptByThen ==
  ASSUME NEW g, NEW S, NEW N, NEW K, IsTheWalk(g, S, N, K)
  PROVE  K \subseteq S /\ \A l \in 0..N : \A t : t \in g[l].kept <=> t \in K /\ t.plan.at <= l
<1>1. N \in Nat /\ N \in 0..N /\ InOrder(S) /\ IsHalting(g, S, N) /\ K = g[N].kept
  BY DEF IsTheWalk
<1> QED BY <1>1, KeptAre

(* The walk's running equity is that of the trades it keeps.               *)
LEMMA TotalsAre ==
  ASSUME NEW g, NEW S, NEW N, NEW K, IsTheWalk(g, S, N, K), NEW k \in 0..N
  PROVE  g[k].equity = EquityOf(K, k)
<1>w. N \in Nat /\ N = Len(bars) /\ DOMAIN bars = 1..N /\ InOrder(S) /\ InNumbers(S) /\ IsHalting(g, S, N)
  BY DEF IsTheWalk
<1>1. K \subseteq S /\ \A l \in 0..N : \A t : t \in g[l].kept <=> t \in K /\ t.plan.at <= l
  BY KeptByThen
<1>2. /\ \A t \in K : /\ t.plan.at \in Nat /\ t.plan.at # 0 /\ t.closes \in Nat /\ t.plan.at < t.closes
                      /\ PriceRet(t) \in Int /\ \A l \in 1..N : MarkAt(t, l) \in Int
      /\ IsFiniteSet(K)
  <2>1. \A t \in S : /\ t.plan.at \in Nat \ {0} /\ t.closes \in Nat /\ t.plan.at < t.closes
    BY <1>w DEF InOrder
  <2>2. \A t \in S : PriceRet(t) \in Int /\ \A l \in 1..N : MarkAt(t, l) \in Int
    BY <1>w DEF InNumbers
  <2>3. IsFiniteSet(K)
    BY <1>1, <1>w, FS_Subset DEF InOrder
  <2> QED BY <1>1, <2>1, <2>2, <2>3
<1>3. \A A \in SUBSET K : IsFiniteSet(A) /\ \A t \in A : PriceRet(t) \in Int
  BY <1>2, FS_Subset
<1>4. \A l : ClosedBy(K, l) \in SUBSET K /\ OpenAt(K, l) \in SUBSET K
  BY DEF ClosedBy, OpenAt
<1>5. ClosedBy(K, 0) = {} /\ OpenAt(K, 0) = {}
  BY <1>2 DEF ClosedBy, OpenAt
<1> DEFINE Bad == {m \in 0..N : g[m].closed # PriceOf(ClosedBy(K, m))}
<1>6. ASSUME Bad # {} PROVE FALSE
  <2>1. PICK m \in Bad : \A l \in Bad : m <= l
    <3>1. Bad \in SUBSET Nat
      OBVIOUS
    <3> HIDE DEF Bad
    <3> QED BY <1>6, <3>1, LeastNatural
  <2>2. m \in 0..N /\ g[m].closed # PriceOf(ClosedBy(K, m))
    BY <2>1
  <2>3. CASE m = 0
    <3>1. g[0].closed = 0
      BY <1>w DEF IsHalting, AtTheStart
    <3> QED BY <1>5, <2>2, <2>3, <3>1, NothingSums
  <2>4. CASE m # 0
    <3>0. m \in 1..N
      BY <2>2, <2>4
    <3>1. m - 1 \in 0..N /\ m \in Nat /\ ~(m <= m - 1)
      BY <1>w, <3>0
    <3>2. g[m - 1].closed = PriceOf(ClosedBy(K, m - 1))
      BY <2>1, <3>1
    <3>k. PICK kept : kept = g[m].kept
      OBVIOUS
    <3>3. PICK X, Y : X = {t \in kept : t.closes = m} /\ Y = ClosedBy(K, m - 1)
      OBVIOUS
    <3>o. PICK O : O = OpenAt(kept, m)
      OBVIOUS
    <3>4. g[m].closed = g[m - 1].closed + PriceOf(X)
      BY <3>0, <3>3, <3>k, <3>o, HaltSumsAre, <1>w
    <3>5. \A t : t \in X <=> t \in K /\ t.closes = m
      BY <1>1, <1>2, <3>0, <3>1, <3>3, <3>k
    <3>6. \A t : t \in Y <=> t \in K /\ t.closes <= m - 1
      BY <3>3 DEF ClosedBy
    <3>7. X \in SUBSET K /\ Y \in SUBSET K /\ X \cap Y = {}
      BY <3>1, <3>5, <3>6
    <3>8. ClosedBy(K, m) = Y \cup X
      <4>1. \A t \in K : t.closes <= m <=> t.closes <= m - 1 \/ t.closes = m
        BY <1>2, <3>1
      <4>2. \A t : t \in ClosedBy(K, m) <=> t \in K /\ t.closes <= m
        BY DEF ClosedBy
      <4> QED BY <3>5, <3>6, <4>1, <4>2
    <3>9. IsFiniteSet(X) /\ IsFiniteSet(Y) /\ Y \cap X = {} /\ \A t \in Y \cup X : PriceRet(t) \in Int
      BY <1>3, <3>7
    <3>10. PriceOf(Y \cup X) = PriceOf(Y) + PriceOf(X)
      BY <3>9, PriceOfBoth
    <3> QED BY <2>2, <3>2, <3>3, <3>4, <3>8, <3>10
  <2> QED BY <2>3, <2>4
<1>7. g[k].closed = PriceOf(ClosedBy(K, k))
  BY <1>6
<1>8. g[k].equity = EquityOf(K, k)
  <2>1. CASE k = 0
    <3>1. g[0].equity = Stake
      BY <1>w DEF IsHalting, AtTheStart
    <3>2. EquityOf(K, 0) = Stake + 0 + 0
      BY <1>5, NothingSums DEF EquityOf
    <3> QED BY <2>1, <3>1, <3>2 DEF Stake
  <2>2. CASE k # 0
    <3>0. k \in 1..N
      BY <2>2
    <3>o. PICK O : O = OpenAt(g[k].kept, k)
      OBVIOUS
    <3>1. g[k].equity = Stake + (g[k].closed + MarksOf(O, k))
      BY <1>w, <3>0, <3>o, HaltEquityIs
    <3>2. O = OpenAt(K, k)
      BY <1>1, <3>0, <3>o DEF OpenAt
    <3>3. PICK x \in Int : x = PriceOf(ClosedBy(K, k))
      <4>1. PICK A \in SUBSET K : A = ClosedBy(K, k)
        BY <1>4
      <4>2. IsFiniteSet(A) /\ \A t \in A : PriceRet(t) \in Int
        BY <1>3
      <4>3. IsFiniteSet({}) /\ A \cap {} = {} /\ \A t \in A \cup {} : PriceRet(t) \in Int
        BY <4>2, FS_EmptySet
      <4>4. PriceOf(A) \in Int
        BY <4>2, <4>3, PriceOfBoth
      <4> QED BY <4>1, <4>4
    <3>4. PICK y \in Int : y = MarksOf(OpenAt(K, k), k)
      <4>1. PICK A \in SUBSET K : A = OpenAt(K, k)
        BY <1>4
      <4>2. IsFiniteSet(A) /\ \A t \in A : MarkAt(t, k) \in Int
        BY <1>2, <1>3, <3>0
      <4>3. MarksOf(A, k) \in Int
        BY <4>2, MarksAreNumbers
      <4> QED BY <4>1, <4>3
    <3> QED BY <1>7, <3>1, <3>2, <3>3, <3>4 DEF EquityOf, Stake
  <2> QED BY <2>1, <2>2
<1> QED BY <1>8

LEMMA HaltOpens ==
  ASSUME NEW g, NEW S, NEW N, IsHalting(g, S, N), NEW k \in 1..N
  PROVE  g[k].openEquity = IF Rolls(k) THEN g[k - 1].equity ELSE g[k - 1].openEquity
<1>1. PICK run, next : run = g[k - 1] /\ next = g[k]
  OBVIOUS
<1>2. next = HaltStep(S, run, k)
  BY <1>1 DEF IsHalting
<1>3. next.openEquity = IF Rolls(k) THEN run.equity ELSE run.openEquity
  BY <1>2, HaltStepIs
<1> QED BY <1>1, <1>3

(* And the equity a day opened on is that of the last bar before it.       *)
LEMMA OpeningsAre ==
  ASSUME NEW g, NEW S, NEW N, NEW K, IsTheWalk(g, S, N, K), NEW k \in 1..N
  PROVE  g[k].openEquity = OpenedAt(K, k)
<1>w. /\ N \in Nat /\ N = Len(bars) /\ Len(bars) \in Nat /\ DOMAIN bars = 1..Len(bars) /\ start \in Nat
      /\ IsHalting(g, S, N)
  BY DEF IsTheWalk
<1>1. \A m \in 0..N : g[m].equity = EquityOf(K, m)
  BY TotalsAre
<1>2. g[0].equity = Stake
  BY <1>w DEF IsHalting, AtTheStart
<1> DEFINE Bad == {m \in 1..N : g[m].openEquity # OpenedAt(K, m)}
<1>3. ASSUME Bad # {} PROVE FALSE
  <2>1. PICK m \in Bad : \A l \in Bad : m <= l
    <3>1. Bad \in SUBSET Nat
      BY <1>w
    <3> HIDE DEF Bad
    <3> QED BY <1>3, <3>1, LeastNatural
  <2>2. m \in 1..N /\ g[m].openEquity # OpenedAt(K, m)
    BY <2>1
  <2>3. g[m].openEquity = IF Rolls(m) THEN g[m - 1].equity ELSE g[m - 1].openEquity
    BY <1>w, <2>2, HaltOpens
  <2>4. CASE m = 1
    <3>1. g[1].openEquity = Stake
      BY <1>2, <2>3, <2>4 DEF Rolls
    <3>2. OpenedAt(K, 1) = Stake
      <4>1. DaysBefore(1) = {}
        BY <2>2, <2>4, DaysBeforeAre, <1>w
      <4> QED BY <4>1 DEF OpenedAt
    <3> QED BY <2>2, <2>4, <3>1, <3>2
  <2>5. CASE m # 1 /\ DayOfBar(m) # DayOfBar(m - 1)
    <3>1. DaysBefore(m) # {} /\ Max(DaysBefore(m)) = m - 1
      BY <2>2, <2>5, DaysBeforeAre, <1>w
    <3>2. OpenedAt(K, m) = EquityOf(K, m - 1)
      BY <3>1 DEF OpenedAt
    <3>3. g[m].openEquity = g[m - 1].equity
      BY <2>3, <2>5 DEF Rolls
    <3>4. m - 1 \in 0..N
      BY <1>w, <2>2
    <3> QED BY <1>1, <2>2, <3>2, <3>3, <3>4
  <2>6. CASE m # 1 /\ DayOfBar(m) = DayOfBar(m - 1)
    <3>1. DaysBefore(m) = DaysBefore(m - 1)
      BY <2>2, <2>6, DaysBeforeAre, <1>w
    <3>2. OpenedAt(K, m) = OpenedAt(K, m - 1)
      BY <3>1 DEF OpenedAt
    <3>3. g[m].openEquity = g[m - 1].openEquity
      BY <2>3, <2>6 DEF Rolls
    <3>4. m - 1 \in 1..N /\ ~(m <= m - 1)
      BY <1>w, <2>2, <2>6
    <3>5. g[m - 1].openEquity = OpenedAt(K, m - 1)
      BY <2>1, <3>4
    <3> QED BY <2>2, <3>2, <3>3, <3>5
  <2> QED BY <2>4, <2>5, <2>6
<1> QED BY <1>3

(* So the walk is halted on a bar exactly when an earlier one of its day   *)
(* barred it.                                                              *)
LEMMA HaltsAre ==
  ASSUME NEW g, NEW S, NEW N, NEW K, IsTheWalk(g, S, N, K), NEW k \in 1..N
  PROVE  ~Rolls(k) /\ g[k - 1].halted <=> IsBarred(K, k)
<1>w. /\ N \in Nat /\ N = Len(bars) /\ Len(bars) \in Nat /\ DOMAIN bars = 1..Len(bars) /\ start \in Nat
      /\ IsHalting(g, S, N)
  BY DEF IsTheWalk
<1>1. \A m \in 1..N : g[m].equity = EquityOf(K, m) /\ g[m].openEquity = OpenedAt(K, m)
  <2> SUFFICES ASSUME NEW m \in 1..N PROVE g[m].equity = EquityOf(K, m) /\ g[m].openEquity = OpenedAt(K, m)
    OBVIOUS
  <2>1. m \in 0..N
    BY <1>w
  <2>2. g[m].equity = EquityOf(K, m)
    BY <2>1, TotalsAre
  <2>3. g[m].openEquity = OpenedAt(K, m)
    BY OpeningsAre
  <2> QED BY <2>2, <2>3
<1>2. \A m \in 1..N : OverTheCap(g[m].equity, g[m].openEquity) <=> Breaks(K, m)
  BY <1>1 DEF Breaks
<1> DEFINE Bad == {m \in 1..N : ~(~Rolls(m) /\ g[m - 1].halted <=> IsBarred(K, m))}
<1>3. ASSUME Bad # {} PROVE FALSE
  <2>1. PICK m \in Bad : \A l \in Bad : m <= l
    <3>1. Bad \in SUBSET Nat
      BY <1>w
    <3> HIDE DEF Bad
    <3> QED BY <1>3, <3>1, LeastNatural
  <2>2. m \in 1..N /\ ~(~Rolls(m) /\ g[m - 1].halted <=> IsBarred(K, m))
    BY <2>1
  <2>3. CASE Rolls(m)
    <3>1. ~IsBarred(K, m)
      BY <2>2, <2>3, BarredAre, <1>w
    <3> QED BY <2>2, <2>3, <3>1
  <2>4. CASE ~Rolls(m)
    <3>1. m - 1 \in 1..N /\ ~(m <= m - 1)
      BY <1>w, <2>2, <2>4 DEF Rolls
    <3>2. ~Rolls(m - 1) /\ g[m - 1 - 1].halted <=> IsBarred(K, m - 1)
      BY <2>1, <3>1
    <3>3. g[m - 1].halted <=> (~Rolls(m - 1) /\ g[m - 1 - 1].halted) \/ OverTheCap(g[m - 1].equity, g[m - 1].openEquity)
      <4>1. PICK l \in 1..N : l = m - 1
        BY <3>1
      <4>2. g[l].halted <=> (~Rolls(l) /\ g[l - 1].halted) \/ OverTheCap(g[l].equity, g[l].openEquity)
        BY <1>w, HaltStepsAre
      <4> QED BY <4>1, <4>2
    <3>4. OverTheCap(g[m - 1].equity, g[m - 1].openEquity) <=> Breaks(K, m - 1)
      BY <1>2, <3>1
    <3>5. IsBarred(K, m) <=> IsBarred(K, m - 1) \/ Breaks(K, m - 1)
      BY <2>2, <2>4, BarredAre, <1>w
    <3> QED BY <2>2, <2>4, <3>2, <3>3, <3>4, <3>5
  <2> QED BY <2>3, <2>4
<1> QED BY <1>3

(* The walk takes every trade that no earlier bar of its day barred.       *)
LEMMA HaltsAddUp ==
  ASSUME start \in Nat, Len(bars) \in Nat, DOMAIN bars = 1..Len(bars), NEW S, InOrder(S), InNumbers(S)
  PROVE  HaltWalk(S).kept = {t \in S : ~IsBarred(HaltWalk(S).kept, t.plan.at)}
<1>1. PICK g : /\ HaltWalk(S) = g[Len(bars)] /\ g[0] = AtTheStart
               /\ \A k \in 1..Len(bars) : g[k] = HaltStep(S, g[k - 1], k)
  BY HaltWalkIs
<1>2. PICK N \in Nat : N = Len(bars)
  OBVIOUS
<1>i. IsHalting(g, S, N)
  BY <1>1, <1>2 DEF IsHalting
<1>4. PICK K : K = g[N].kept
  OBVIOUS
<1>3. IsTheWalk(g, S, N, K)
  BY <1>2, <1>4, <1>i DEF IsTheWalk
<1>5. HaltWalk(S).kept = K
  BY <1>1, <1>2, <1>4
<1>6. N \in 0..N
  OBVIOUS
<1>7. K \subseteq S
  BY <1>3, KeptByThen
<1>8. ASSUME NEW t \in S PROVE t \in K <=> ~IsBarred(K, t.plan.at)
  <2>1. PICK k \in 1..N : k = t.plan.at
    <3>1. t.plan.at \in Nat \ {0} /\ t.closes \in Nat /\ t.plan.at < t.closes /\ t.closes <= Len(bars)
      BY DEF InOrder
    <3> QED BY <1>2, <3>1
  <2>2. k \in 0..N /\ k - 1 \in 0..N /\ ~(k <= k - 1)
    BY <2>1
  <2>3. t \in g[k].kept <=> t \in K /\ t.plan.at <= k
    BY <1>3, <2>2, KeptByThen
  <2>4. t \in g[k - 1].kept <=> t \in K /\ t.plan.at <= k - 1
    <3>1. PICK l \in 0..N : l = k - 1
      BY <2>2
    <3>2. t \in g[l].kept <=> t \in K /\ t.plan.at <= l
      BY <1>3, KeptByThen
    <3> QED BY <3>1, <3>2
  <2>5. g[k].kept = IF ~Rolls(k) /\ g[k - 1].halted THEN g[k - 1].kept ELSE g[k - 1].kept \cup Arriving(S, k)
    BY <1>i, HaltStepsAre
  <2>6. ~Rolls(k) /\ g[k - 1].halted <=> IsBarred(K, k)
    BY <1>3, HaltsAre
  <2>7. t \in Arriving(S, k)
    BY <2>1 DEF Arriving
  <2>8. CASE IsBarred(K, k)
    <3>1. g[k].kept = g[k - 1].kept
      BY <2>5, <2>6, <2>8
    <3>2. k <= k
      OBVIOUS
    <3> QED BY <2>1, <2>2, <2>3, <2>4, <2>8, <3>1
  <2>9. CASE ~IsBarred(K, k)
    <3>1. t \in g[k].kept
      BY <2>5, <2>6, <2>7, <2>9
    <3> QED BY <2>1, <2>3, <2>9, <3>1
  <2> QED BY <2>8, <2>9
<1>9. K = {t \in S : ~IsBarred(K, t.plan.at)}
  BY <1>7, <1>8
<1> QED BY <1>5, <1>9

-----------------------------------------------------------------------------
(* The simulator is the desk. *)

(* The trades found are of the form all of this is said of.                *)
LEMMA FoundInOrder ==
  ASSUME NEW p, IsArchive(bars, p), NEW W, W = Found(bars, p)
  PROVE  InOrder(W) /\ InNumbers(W)
<1>1. IsFiniteSet(W)
  BY FoundAreFinite
<1>2. \A t \in W : /\ PriceRet(t) \in Int /\ t.plan.at \in Nat /\ t.closes \in Nat /\ t.plan.at < t.closes /\ t.closes <= Len(bars)
                   /\ \A k \in DOMAIN bars : MarkAt(t, k) \in Int
  BY FoundInNumbers
<1>3. \A t \in W : IsTrade(bars, p, t)
  BY FoundAre
<1>4. \A t \in W : t.outlook \in Nat /\ t.plan.at # 0
  <2>1. \A t \in W : t.outlook \in Ids /\ t.plan.at \in 1..Len(bars)
    BY <1>3 DEF IsTrade
  <2>2. \A i \in Ids : i \in Nat
    BY OutlooksAre DEF Ids
  <2> QED BY <2>1, <2>2, ArchivesAre
<1>5. \A t, u \in W : t.plan.at = u.plan.at /\ t.outlook = u.outlook => t = u
  BY <1>3 DEF IsTrade
<1>6. InOrder(W)
  BY <1>1, <1>2, <1>4, <1>5 DEF InOrder
<1> QED BY <1>2, <1>6 DEF InNumbers

(* So budgets and halts add up on what the simulator finds.                *)
LEMMA BudgetAndHalts ==
  ASSUME ReplayInv
  PROVE  BudgetAndHaltsAddUp
<1>1. IsArchive(bars, feed) /\ Simulated = Found(bars, feed) /\ start \in Nat
  BY WalkIsDesk DEF ReplayInv, ReplayIs
<1>2. PICK W : W = Found(bars, feed)
  OBVIOUS
<1>3. InOrder(W) /\ InNumbers(W)
  BY <1>1, <1>2, FoundInOrder
<1>4. Len(bars) \in Nat /\ DOMAIN bars = 1..Len(bars)
  BY <1>1, ArchivesAre
<1>5. Cardinality(Coins) \in Nat
  <2>1. IsFiniteSet(Ids)
    <3>1. Len(Outlooks) \in Int /\ Ids = 1..Len(Outlooks)
      BY OutlooksAre DEF Ids
    <3> QED BY <3>1, FS_Interval
  <2> DEFINE f == [i \in Ids |-> Outlooks[i].coin]
  <2>2. f \in Surjection(Ids, Coins)
    BY DEF Surjection, Coins
  <2> QED BY <2>1, <2>2, FS_Surjection, FS_CardinalityType
<1>6. \A n \in 1..Cardinality(Coins) :
        LET capped == CapConcurrency(W, n)
        IN  /\ Occupancy(capped.kept) <= n
            /\ capped.refused > 0 <=> Occupancy(W) > n
  <2> SUFFICES ASSUME NEW n \in 1..Cardinality(Coins)
               PROVE  LET capped == CapConcurrency(W, n)
                      IN  /\ Occupancy(capped.kept) <= n
                          /\ capped.refused > 0 <=> Occupancy(W) > n
    OBVIOUS
  <2>1. n \in Nat \ {0}
    BY <1>5
  <2> QED BY <1>3, <1>4, <2>1, BudgetsAddUp
<1>7. HaltWalk(W).kept = {t \in W : ~IsBarred(HaltWalk(W).kept, t.plan.at)}
  BY <1>1, <1>3, <1>4, HaltsAddUp
<1>8. PICK kept : kept = HaltWalk(W).kept
  OBVIOUS
<1>9. kept = {t \in W : ~IsBarred(kept, t.plan.at)}
  BY <1>7, <1>8
<1>10. BudgetAndHaltsAddUp <=>
         /\ \A n \in 1..Cardinality(Coins) :
              LET capped == CapConcurrency(W, n)
              IN  /\ Occupancy(capped.kept) <= n
                  /\ capped.refused > 0 <=> Occupancy(W) > n
         /\ kept = {t \in W : ~IsBarred(kept, t.plan.at)}
  <2>1. Simulated = W
    BY <1>1, <1>2
  <2> QED BY <2>1, <1>8 DEF BudgetAndHaltsAddUp, IsBarred, Breaks, OpenedAt, EquityOf, ClosedBy, DaysBefore
<1> QED BY <1>6, <1>9, <1>10

(* And stored summaries answer for every stop.                             *)
LEMMA SummariesAnswer ==
  ASSUME ReplayInv
  PROVE  SummaryAnswersEveryStop
<1>1. bars \in Seq([lo : Int, hi : Int, close : Int])
  BY DEF ReplayInv, ReplayIs, IsArchive
<1>2. \A level \in Opening - 2..Opening + 2 : level \in Int
  BY DEF Opening
<1>3. bars # <<>> => Len(bars) # 0
  BY <1>1, EmptySeq
<1> QED BY <1>1, <1>2, <1>3, SummaryAnswers DEF SummaryAnswersEveryStop

(* The simulator's walk is the desk's, the check that grades it reads no   *)
(* gap, a budget refuses somebody exactly when the book was once fuller    *)
(* than it, the halt walk takes what no earlier bar of the day barred, and *)
(* a stored summary answers for every stop (scripts/backtest.ts,           *)
(* exec/counterfactual.ts).                                                *)
THEOREM SimulatorAlwaysIsTheDesk == ReplaySpec => []SimulatorIsTheDesk
<1>1. ReplayInv => SimulatorIsTheDesk
  BY WalkIsDesk, ReplicationIsZero, BudgetAndHalts, SummariesAnswer DEF SimulatorIsTheDesk
<1> QED BY <1>1, DeskWalksAlong, PTL

=============================================================================
