-------------------------------- MODULE Screen --------------------------------
(***************************************************************************)
(* One tab of the signed-in site (design/src/desk.ts, session.ts): whose   *)
(* figures it paints, and the pages of closed trades it strings together,  *)
(* while the session behind its cookie ends, changes hands in this tab or  *)
(* in another, and the answers to its calls come back in any order.  The   *)
(* server answers a call for the account the cookie names when it is read. *)
(***************************************************************************)
EXTENDS Naturals, Sequences, FiniteSets

CONSTANTS
  Readers, TradeIds,   \* accounts, and the ids of their trades, in order
  PageSize,
  MaxCalls, MaxInstant, MaxTurns \* bounds

ASSUME NobodyIsAReader == "nobody" \notin Readers
ASSUME PagesAssumption == Readers # {} /\ TradeIds \subseteq Nat /\ PageSize \in Nat \ {0} /\ MaxInstant \in Nat \ {0}

VARIABLES
  cookie,     \* the account of the browser's session, or NoReader
  closed,     \* closed[w]: closed trades of the ledger, as <<closed_at, id>>
  clock,
  me,         \* the tab's reader, or NoReader
  outstanding, \* calls in flight
  cached,     \* deskCache and the account it is for
  awaited,    \* deskInflight: the call a second reader of the desk shares
  desk,       \* whose desk is painted: NoReader stands for the demo or a blank
  chart,      \* whose history is drawn, and for whom it was fetched
  signals,    \* the list of decisions: whether it was loaded, and whose it is
  trades,     \* the list of closed trades
  off,        \* the buttons of that list that are disabled
  crossed,    \* a call was answered for another account than asked for (history)
  made, turns

screenVars == <<cookie, closed, clock, me, outstanding, cached, awaited, desk, chart, signals, trades, off,
                crossed, made, turns>>
serverVars == <<cookie, closed, clock, crossed, turns>>
listVars   == <<signals, trades, off>>

NoReader == "nobody"
Start == <<0, 0>>      \* no cursor
NoCall == 0
NoCache == [of |-> NoReader, for |-> NoReader]
NoSignals == [loaded |-> FALSE, of |-> NoReader]
\* had: what had closed when the first page was read; tangled: two calls for
\* the list overlapped, or the reader changed under it (history both).
NoTrades == [loaded |-> FALSE, cursor |-> Start, more |-> FALSE, box |-> "empty", rows |-> <<>>,
             had |-> {}, tangled |-> FALSE]

Quiescent == outstanding = {} /\ awaited = NoCall /\ signals = NoSignals /\ trades = NoTrades /\ off = {}
FreshTab == cookie = NoReader /\ me = NoReader /\ cached = NoCache /\ desk = NoReader /\ chart = NoCache
\* A desk that has been read and painted.
SettledTab(w) == cookie = w /\ me = w /\ cached = [of |-> w, for |-> w] /\ desk = w /\ chart = cached

\* Sessions change hands in a fresh tab, trades close under a settled one.
ScreenInit ==
  /\ \/ FreshTab /\ clock = MaxInstant /\ turns = 0 /\ made = 0
     \/ SettledTab(CHOOSE w \in Readers : TRUE) /\ clock = 1 /\ turns = MaxTurns /\ made = 1
  /\ Quiescent /\ closed = [w \in Readers |-> {}]
  /\ crossed = FALSE

-----------------------------------------------------------------------------
(* The ledger and the routes. *)

Earlier(a, b) == a[1] < b[1] \/ (a[1] = b[1] /\ a[2] < b[2])
Later(a, b) == Earlier(b, a)

\* Mutant: trades of the cursor's own instant are left out of the next page.
Past_ByInstant(t, cursor) == cursor = Start \/ t[1] < cursor[1]
Past(t, cursor) == cursor = Start \/ Earlier(t, cursor)

NewestFirst(S) ==
  CHOOSE s \in [1..Cardinality(S) -> S] : \A i, j \in DOMAIN s : i < j => Later(s[i], s[j])

\* One row more than a page says whether another follows.
ClosedTradesPage(w, cursor) == LET all == NewestFirst({t \in closed[w] : Past(t, cursor)})
                               IN SubSeq(all, 1, IF Len(all) > PageSize THEN PageSize + 1 ELSE Len(all))
TradeHistory(w, cursor) ==
  LET page == ClosedTradesPage(w, cursor)
      rows == SubSeq(page, 1, IF Len(page) > PageSize THEN PageSize ELSE Len(page))
  IN [rows |-> rows, next |-> IF Len(page) > PageSize THEN rows[Len(rows)] ELSE Start]

\* Only the reader's own trades are told apart.
TradeCloses ==
  /\ clock < MaxInstant
  /\ \E w \in Readers \cap {me}, id \in TradeIds, t \in {clock, clock + 1} :
       /\ \A c \in UNION {closed[v] : v \in Readers} : c[2] # id
       /\ closed' = [closed EXCEPT ![w] = @ \cup {<<t, id>>}]
       /\ clock' = t
  /\ UNCHANGED <<cookie, me, outstanding, cached, awaited, desk, chart, listVars, crossed, made, turns>>

\* The route reads the session first: without one the answer is 401.
ServerAnswers ==
  /\ \E c \in {c \in outstanding : ~c.answered} :
       /\ outstanding' = (outstanding \ {c}) \cup {[c EXCEPT !.answered = TRUE, !.of = cookie,
                                     !.page = IF cookie = NoReader \/ c.kind \notin {"first", "more"} THEN @
                                              ELSE TradeHistory(cookie, c.cursor),
                                     !.had = IF cookie = NoReader \/ c.kind # "first" THEN {} ELSE closed[cookie]]}
       /\ crossed' = (crossed \/ cookie \notin {NoReader, c.who})
  /\ UNCHANGED <<cookie, closed, clock, turns, me, cached, awaited, desk, chart, listVars, made>>

SessionEnds ==
  /\ turns < MaxTurns /\ cookie # NoReader /\ cookie' = NoReader /\ turns' = turns + 1
  /\ UNCHANGED <<closed, clock, me, outstanding, cached, awaited, desk, chart, listVars, crossed, made>>

\* Signing in from another tab replaces the cookie both tabs send.
AnotherTabSignsIn ==
  /\ me # NoReader /\ turns < MaxTurns /\ turns' = turns + 1
  /\ \E w \in Readers \ {cookie} : cookie' = w
  /\ UNCHANGED <<closed, clock, me, outstanding, cached, awaited, desk, chart, listVars, crossed, made>>

-----------------------------------------------------------------------------
(* Calls the tab makes. *)

Call(kind, n, who, cursor) ==
  [kind |-> kind, n |-> n, who |-> who, cursor |-> cursor, answered |-> FALSE, of |-> NoReader,
   page |-> [rows |-> <<>>, next |-> Start], had |-> {}]

MayCall == made < MaxCalls
Listing == {c \in outstanding : c.kind \in {"first", "more"}}

\* fetchDesk: a call already out for this reader is shared.
SharesTheCall(w) == \E c \in outstanding : c.n = awaited /\ c.who = w
\* loadHistory: a chart already here for this reader is kept.
HasTheChart(w) == chart.for = w /\ chart.of # NoReader

\* resetSignals: both lists are emptied, unless one of them was loaded.
ListsAfterReset ==
  IF signals.loaded \/ trades.loaded THEN UNCHANGED <<signals, trades>>
  ELSE signals' = NoSignals /\ trades' = [NoTrades EXCEPT !.tangled = trades.tangled /\ Listing # {}]

Warm(w) == cached.for = w /\ cached.of # NoReader

\* loadDesk, for the reader it finds: paint what is cached or blank the desk and
\* its chart, then ask for the chart and the desk.
LoadDesk(w) ==
  /\ desk' = IF Warm(w) THEN cached.of ELSE NoReader
  /\ chart' = IF Warm(w) THEN chart ELSE NoCache
  /\ ListsAfterReset
  /\ LET wantsChart == ~(Warm(w) /\ HasTheChart(w))
         wantsDesk == ~SharesTheCall(w)
     IN /\ outstanding' = outstanding \cup (IF wantsChart THEN {Call("chart", made + 1, w, Start)} ELSE {})
                          \cup (IF wantsDesk THEN {Call("desk", made + 2, w, Start)} ELSE {})
        /\ awaited' = IF wantsDesk THEN made + 2 ELSE awaited
        /\ made' = made + 2
  /\ UNCHANGED off

\* The signature is verified and the cookie set; what is on screen is as it was.
SignatureIsVerified ==
  /\ me = NoReader
  /\ \E w \in Readers \ {cookie} : cookie' = w
  /\ UNCHANGED <<closed, clock, me, outstanding, cached, awaited, desk, chart, listVars, crossed, made, turns>>

\* /api/me has answered: the tab has a reader, and shows the desk.
ReaderLands ==
  /\ me = NoReader /\ cookie # NoReader /\ MayCall
  /\ me' = cookie
  /\ LoadDesk(cookie)
  /\ UNCHANGED <<serverVars, cached>>

DeskIsOpened ==
  /\ me # NoReader /\ MayCall /\ LoadDesk(me)
  /\ UNCHANGED <<serverVars, me, cached>>

\* Leaving reloads the page.
SignsOut ==
  /\ me # NoReader /\ turns < MaxTurns /\ turns' = turns + 1 /\ cookie' = NoReader
  /\ me' = NoReader /\ outstanding' = {} /\ cached' = NoCache /\ awaited' = NoCall /\ desk' = NoReader
  /\ chart' = NoCache /\ signals' = NoSignals /\ trades' = NoTrades /\ off' = {}
  /\ UNCHANGED <<closed, clock, crossed, made>>

SignalsAreAsked ==
  /\ me # NoReader /\ MayCall /\ (~signals.loaded \/ ~\E c \in outstanding : c.kind = "list")
  /\ outstanding' = outstanding \cup {Call("list", made + 1, me, Start)} /\ made' = made + 1
  /\ signals' = [signals EXCEPT !.of = NoReader]
  /\ UNCHANGED <<serverVars, me, cached, awaited, desk, chart, trades, off>>

\* The tab that was never filled, or the Refresh button.
FirstPageIsAsked ==
  /\ me # NoReader /\ MayCall /\ (~trades.loaded \/ "first" \notin off)
  /\ trades' = [trades EXCEPT !.cursor = Start, !.box = "loading", !.rows = <<>>,
                !.tangled = Listing # {}]
  /\ off' = off \cup {"first"}
  /\ outstanding' = outstanding \cup {Call("first", made + 1, me, Start)} /\ made' = made + 1
  /\ UNCHANGED <<serverVars, me, cached, awaited, desk, chart, signals>>

NextPageIsAsked ==
  /\ me # NoReader /\ MayCall /\ trades.more /\ "more" \notin off
  /\ trades' = [trades EXCEPT !.tangled = @ \/ Listing # {}]
  /\ off' = off \cup {"more"}
  /\ outstanding' = outstanding \cup {Call("more", made + 1, me, trades.cursor)} /\ made' = made + 1
  /\ UNCHANGED <<serverVars, me, cached, awaited, desk, chart, signals>>

-----------------------------------------------------------------------------
(* Answers the tab receives. *)

Refused(c) == c.answered /\ c.of = NoReader
Answered(c) == c.answered /\ c.of # NoReader

\* Mutant: a desk is kept for whoever is signed in when it arrives.
StillTheirs_Unasked(c) == me # NoReader
StillTheirs(c) == me = c.who

DeskArrives ==
  /\ \E c \in outstanding :
       /\ c.kind = "desk" /\ Answered(c)
       /\ outstanding' = outstanding \ {c} /\ awaited' = NoCall
       /\ cached' = IF StillTheirs(c) THEN [of |-> c.of, for |-> me] ELSE cached
       /\ desk' = IF StillTheirs(c) THEN c.of ELSE desk
  /\ UNCHANGED <<serverVars, me, chart, listVars, made>>

ChartArrives ==
  /\ \E c \in outstanding :
       /\ c.kind = "chart" /\ Answered(c) /\ outstanding' = outstanding \ {c}
       /\ chart' = IF me = c.who THEN [of |-> c.of, for |-> c.who] ELSE chart
  /\ UNCHANGED <<serverVars, me, cached, awaited, desk, listVars, made>>

\* The list is painted for whoever asked, whoever is reading now.
SignalsArrive ==
  /\ \E c \in outstanding : c.kind = "list" /\ Answered(c) /\ outstanding' = outstanding \ {c}
                      /\ signals' = [loaded |-> TRUE, of |-> c.of]
  /\ UNCHANGED <<serverVars, me, cached, awaited, desk, chart, trades, off, made>>

\* A next page is strung after the rows on screen; with no rows there (the
\* list is being read again) it is an error.
Strung(c) ==
  IF c.kind = "first" THEN [trades EXCEPT !.rows = c.page.rows, !.box = "rows", !.had = c.had]
  ELSE IF trades.box = "rows" THEN [trades EXCEPT !.rows = @ \o c.page.rows]
  ELSE [trades EXCEPT !.rows = <<>>, !.box = "error"]

PageArrives ==
  /\ \E c \in Listing :
       /\ Answered(c) /\ outstanding' = outstanding \ {c} /\ off' = off \ {c.kind}
       /\ trades' = [Strung(c) EXCEPT !.loaded = TRUE, !.cursor = c.page.next, !.more = c.page.next # Start]
  /\ UNCHANGED <<serverVars, me, cached, awaited, desk, chart, signals, made>>

\* sessionExpired: every 401 but the chart's ends the tab's session, whichever it was.
RefusalArrives ==
  /\ \E c \in outstanding :
       /\ Refused(c) /\ outstanding' = outstanding \ {c}
       /\ me' = IF c.kind = "chart" THEN me ELSE NoReader
       /\ awaited' = IF c.kind = "desk" THEN NoCall ELSE awaited
       /\ chart' = IF c.kind = "chart" THEN NoCache ELSE chart
       /\ off' = off \ {c.kind}
       /\ trades' = IF c.kind = "chart" THEN trades ELSE [trades EXCEPT !.tangled = TRUE]
  /\ UNCHANGED <<serverVars, cached, desk, signals, made>>

CallFails ==
  /\ \E c \in outstanding :
       /\ outstanding' = outstanding \ {c} /\ off' = off \ {c.kind}
       /\ awaited' = IF c.kind = "desk" THEN NoCall ELSE awaited
       /\ chart' = IF c.kind = "chart" THEN NoCache ELSE chart
       /\ trades' = IF c \in Listing THEN [trades EXCEPT !.rows = <<>>, !.box = "error"] ELSE trades
  /\ UNCHANGED <<serverVars, me, cached, desk, signals, made>>

ScreenNext ==
  \/ TradeCloses \/ ServerAnswers \/ SessionEnds \/ AnotherTabSignsIn
  \/ SignatureIsVerified \/ ReaderLands \/ DeskIsOpened \/ SignsOut
  \/ SignalsAreAsked \/ FirstPageIsAsked \/ NextPageIsAsked
  \/ DeskArrives \/ ChartArrives \/ SignalsArrive \/ PageArrives \/ RefusalArrives \/ CallFails

ScreenSpec == ScreenInit /\ [][ScreenNext]_screenVars

-----------------------------------------------------------------------------
(* A reader is shown their own money (desk.ts:898-901, "one missed path      *)
(* there would show one account another account's balance"): whatever ended *)
(* or began while calls were out, the desk painted is the reader's, and so *)
(* is its chart unless the reader's own is on its way to replace it.  A    *)
(* call answered for the account of a later session is outside: the       *)
(* answer's own address is not compared.                                   *)
ChartIsAsked == \E c \in outstanding : c.kind = "chart" /\ c.who = me

DeskIsTheReaders ==
  me # NoReader /\ ~crossed =>
    desk \in {NoReader, me} /\ (chart.of \in {NoReader, me} \/ ChartIsAsked)

(* Reading every page of the closed trades (web/desk.ts buildTradeHistory,  *)
(* db.ts closedTradesPage) shows each trade once, newest first, and none    *)
(* that had closed when the first page was read is missing, whatever closes *)
(* meanwhile and however many close in one instant.  Pages asked for while *)
(* another was out, or by another reader, are outside.                    *)
HistoryIsWhole ==
  trades.box = "rows" /\ ~trades.tangled /\ ~crossed =>
    /\ \A i \in 1..Len(trades.rows) - 1 : Later(trades.rows[i], trades.rows[i + 1])
    /\ trades.cursor = Start => trades.had \subseteq {trades.rows[i] : i \in DOMAIN trades.rows}
=============================================================================
