-------------------------------- MODULE Feed --------------------------------
(***************************************************************************)
(* The signal recorder: one process polls each endpoint of the signal      *)
(* vendor when it is due, counts the call against the month's cap in a     *)
(* file, and appends a line to the endpoint's archive, with the payload    *)
(* only when its hash differs from the last one it remembers.  The         *)
(* executor reads the archive's newest daily file.  The process may die    *)
(* anywhere and is started again; a call may fail, be refused, be billed   *)
(* and its answer lost, and a line may not reach the disk.                 *)
(*                                                                         *)
(* A line keeps in "said" what the vendor answered.  The file holds it     *)
(* only where "changed" is TRUE, and the readers below look at no other.   *)
(***************************************************************************)
EXTENDS Naturals, Sequences, FiniteSets, FiniteSetsExt

CONSTANTS
  Endpoints,     \* the endpoints in the order CONFIG.endpoints lists them
  PollTicks,     \* the polling interval of each
  MaxBackoff,    \* CONFIG.maxBackoffSec
  Payloads,      \* what the vendor may answer
  Cap,           \* calls a month the spending cap allows
  DayLength, MonthLength,
  DiskFills,     \* whether an append to the archive may fail
  MaxNow, MaxMishaps   \* bounds: the clock, and what goes wrong

ASSUME FeedConstants ==
  /\ Cap \in Nat \ {0} /\ DayLength \in Nat \ {0} /\ MonthLength \in Nat \ {0}
  /\ Endpoints \in Seq({Endpoints[i] : i \in DOMAIN Endpoints})
  /\ \A i \in DOMAIN Endpoints : PollTicks[Endpoints[i]] \in Nat \ {0}
  /\ "none" \notin Payloads   \* what stands for no hash is no hash

VARIABLES
  clock,      \* the time
  billed,     \* calls the vendor has charged for, by month
  unmetered,  \* of those, the ones whose answer the recorder never counted
  meter,      \* credit-meter.json
  archive,    \* each endpoint's lines, all daily files in order
  beat,       \* heartbeat.json, or NoBeat
  recorder,   \* the process's memory
  mishaps

feedVars == <<clock, billed, unmetered, meter, archive, beat, recorder, mishaps>>

Names == {Endpoints[i] : i \in DOMAIN Endpoints}
Day(t) == t \div DayLength
Month(t) == t \div MonthLength
NoBeat == [at |-> 0, ok |-> FALSE, known |-> FALSE]

\* A process that has just started: nothing due later, no hash remembered.
Memory == [up |-> TRUE, turn |-> 0, wake |-> clock,
           due |-> [e \in Names |-> 0], failures |-> [e \in Names |-> 0],
           lastHash |-> [e \in Names |-> "none"]]

FeedInit ==
  /\ clock = 0
  /\ billed = [m \in 0..Month(MaxNow) |-> 0] /\ unmetered = 0
  /\ meter = [month |-> 0, calls |-> 0]
  /\ archive = [e \in Names |-> <<>>] /\ beat = NoBeat
  /\ recorder = [Memory EXCEPT !.wake = 0]
  /\ mishaps = 0

-----------------------------------------------------------------------------
(* The meter and the archive. *)

Exhausted == meter.month = Month(clock) /\ meter.calls >= Cap

ApplyCall(m) ==
  IF m.month # Month(clock) THEN [month |-> Month(clock), calls |-> 1]
  ELSE [m EXCEPT !.calls = @ + 1]

BuildLine_OneHash(e, payload) ==
  [at |-> clock, changed |-> \A n \in Names : payload # recorder.lastHash[n], said |-> payload]
BuildLine(e, payload) ==
  [at |-> clock, changed |-> payload # recorder.lastHash[e], said |-> payload]

\* Where the last line at or before i that carries a payload stands; 0 if none.
BodyAt(lines, i) == Max({0} \cup {j \in 1..i : lines[j].changed})

\* readArchive, readPmArchive: every poll of every day's file, an unchanged
\* one under the last payload read.
ReadArchive(e) ==
  LET lines == archive[e]
      polls == {i \in DOMAIN lines : BodyAt(lines, i) # 0}
  IN  [i \in polls |-> [t |-> lines[i].at, series |-> lines[BodyAt(lines, i)].said]]

\* ArchiveSource.fetch: the newest daily file alone; a file without a payload throws.
NewestDay(lines) == {i \in DOMAIN lines : Day(lines[i].at) = Day(lines[Len(lines)].at)}
Readable(lines) == lines # <<>> /\ \E i \in NewestDay(lines) : lines[i].changed
Fetched(lines) ==
  LET i == BodyAt(lines, Len(lines))
  IN  [at |-> lines[i].at, polledAt |-> lines[Len(lines)].at, series |-> lines[i].said]

-----------------------------------------------------------------------------
(* One pass of the recorder: the cap, each endpoint in turn, the sleep. *)

Backoff(e, n) ==
  LET cap == Max({MaxBackoff, PollTicks[e]})
  IN  Min({cap, PollTicks[e] * 2 ^ Min({n, 5})})

Turn == Endpoints[recorder.turn]
Polling == recorder.up /\ recorder.turn \in DOMAIN Endpoints
Due == Polling /\ recorder.due[Turn] <= clock
Bill == billed' = [billed EXCEPT ![Month(clock)] = @ + 1]

\* while: the cap is looked at here and nowhere else in the pass.
BeginsPass ==
  /\ recorder.up /\ recorder.turn = 0 /\ recorder.wake <= clock
  /\ recorder' = IF Exhausted THEN [recorder EXCEPT !.up = FALSE] ELSE [recorder EXCEPT !.turn = 1]
  /\ UNCHANGED <<clock, billed, unmetered, meter, archive, beat, mishaps>>

NotDue ==
  /\ Polling /\ ~Due
  /\ recorder' = [recorder EXCEPT !.turn = @ + 1]
  /\ UNCHANGED <<clock, billed, unmetered, meter, archive, beat, mishaps>>

\* The whole success path; a balance under the floor stops the process after it.
PollSucceeds ==
  /\ Due /\ Bill
  /\ \E payload \in Payloads, fine \in BOOLEAN :
       /\ archive' = [archive EXCEPT ![Turn] = Append(@, BuildLine(Turn, payload))]
       /\ recorder' = [recorder EXCEPT !.lastHash[Turn] = payload, !.failures[Turn] = 0,
                                       !.due[Turn] = clock + PollTicks[Turn], !.turn = @ + 1, !.up = fine]
  /\ meter' = ApplyCall(meter)
  /\ beat' = [at |-> clock, ok |-> TRUE, known |-> TRUE]
  /\ UNCHANGED <<clock, unmetered, mishaps>>

\* The catch: the endpoint backs off, the heartbeat says it failed, and a
\* refusal that is not a 429 stops the process.
Backs(r, fatal) ==
  [r EXCEPT !.failures[Turn] = @ + 1, !.turn = @ + 1, !.up = ~fatal,
            !.due[Turn] = clock + Backoff(Turn, r.failures[Turn] + 1)]
Caught == beat' = [at |-> clock, ok |-> FALSE, known |-> TRUE]

PollFails ==
  /\ Due /\ mishaps < MaxMishaps /\ mishaps' = mishaps + 1 /\ Caught
  /\ \E fatal \in BOOLEAN : recorder' = Backs(recorder, fatal)
  /\ UNCHANGED <<clock, billed, unmetered, meter, archive>>

\* A timeout or an unreadable body: the vendor has charged for the call.
AnswerIsLost ==
  /\ Due /\ mishaps < MaxMishaps /\ mishaps' = mishaps + 1 /\ Caught
  /\ Bill /\ unmetered' = unmetered + 1
  /\ recorder' = Backs(recorder, FALSE)
  /\ UNCHANGED <<clock, meter, archive>>

\* Journal.write remembers the hash before the append that fails.
AppendFails ==
  /\ DiskFills /\ Due /\ mishaps < MaxMishaps /\ mishaps' = mishaps + 1 /\ Caught
  /\ Bill /\ meter' = ApplyCall(meter)
  /\ \E payload \in Payloads : recorder' = Backs([recorder EXCEPT !.lastHash[Turn] = payload], FALSE)
  /\ UNCHANGED <<clock, unmetered, archive>>

\* The process is killed: between two steps, or with a call answered and not
\* yet counted, counted and not yet journaled, or journaled.
Dies ==
  /\ recorder.up /\ mishaps < MaxMishaps /\ mishaps' = mishaps + 1
  /\ recorder' = [recorder EXCEPT !.up = FALSE]
  /\ \/ UNCHANGED <<billed, unmetered, meter, archive>>
     \/ /\ Due /\ Bill
        /\ \/ /\ unmetered' = unmetered + 1 /\ UNCHANGED <<meter, archive>>
           \/ /\ meter' = ApplyCall(meter) /\ UNCHANGED <<unmetered, archive>>
           \/ /\ meter' = ApplyCall(meter) /\ UNCHANGED unmetered
              /\ \E payload \in Payloads : archive' = [archive EXCEPT ![Turn] = Append(@, BuildLine(Turn, payload))]
  /\ UNCHANGED <<clock, beat>>

Sleeps ==
  /\ recorder.up /\ recorder.turn = Len(Endpoints) + 1
  /\ LET soonest == Min({recorder.due[e] : e \in Names})
         wait == IF soonest <= clock THEN 1 ELSE Min({MaxBackoff, soonest - clock})
     IN  recorder' = [recorder EXCEPT !.turn = 0, !.wake = clock + wait]
  /\ UNCHANGED <<clock, billed, unmetered, meter, archive, beat, mishaps>>

\* The unit starts it again, whatever it stopped for.
Restarts ==
  /\ ~recorder.up /\ recorder' = Memory
  /\ UNCHANGED <<clock, billed, unmetered, meter, archive, beat, mishaps>>

-----------------------------------------------------------------------------
(* Around it. *)

\* Time passes in a call and in the sleep.
ClockTicks ==
  /\ ~recorder.up \/ recorder.turn = 0 \/ Due
  /\ clock < MaxNow /\ clock' = clock + 1
  /\ UNCHANGED <<billed, unmetered, meter, archive, beat, recorder, mishaps>>

FeedNext ==
  \/ BeginsPass \/ NotDue \/ PollSucceeds \/ PollFails \/ AnswerIsLost \/ AppendFails
  \/ Dies \/ Sleeps \/ Restarts
  \/ ClockTicks

FeedSpec == FeedInit /\ [][FeedNext]_feedVars

-----------------------------------------------------------------------------
(* The series the executor reads is the one the vendor answered at the poll it
   is dated by, and so is every poll the analysis reads out of the archive:
   what is left out of an unchanged line can always be put back (the journal's
   hash against the two readers, over restarts and day rolls). *)
SeriesAreThoseOfTheirPoll ==
  \A e \in Names :
    LET lines == archive[e]  polls == ReadArchive(e)
    IN  /\ Readable(lines) => Fetched(lines).series = lines[Len(lines)].said
        /\ \A i \in DOMAIN polls : polls[i].series = lines[i].said

(* What the vendor bills in a month stays under the cap by all but the last
   pass and the calls whose answer never came back: a restart does not forget
   the month's spending (the meter's file against the process's deaths). *)
SpendStaysUnderTheCap ==
  \A m \in DOMAIN billed : billed[m] < Cap + Len(Endpoints) + unmetered

(* The recorder is the one process nobody watches (signals/recorder.ts): what
   it keeps can be read back as it was said, at a price under the cap. *)
RecorderKeepsFaith == SeriesAreThoseOfTheirPoll /\ SpendStaysUnderTheCap
=============================================================================
