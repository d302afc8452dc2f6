------------------------------- MODULE Ledger -------------------------------
(***************************************************************************)
(* The ledger file as it is opened: the executor finds one written by some *)
(* earlier version of itself and brings it forward table by table, each    *)
(* step finding its own need in the data, while it may die between any two *)
(* of them and a web tier that can only read waits for it.                 *)
(***************************************************************************)
EXTENDS Integers, Sequences, SequencesExt, FiniteSetsExt

CONSTANTS
  Ledgers,          \* the files earlier versions left behind
  Columns,          \* a sequence: the columns declared since, in the order they are added
  Outlooks,         \* what the feed keys an outlook by today: <<series, anchor>>
  Owners,           \* accounts the executor trades once it runs
  MaxNow, MaxDeaths \* bounds

VARIABLES
  ledger,  \* the file
  step,    \* where the opening of it stands
  read,    \* the rows the key migration read before its transaction
  web,     \* the reader: "down", "serving", "refused"
  known,   \* everything ever recorded, whatever form it is kept in
  now, deaths

fileVars == <<ledger, step, read, web, known, now, deaths>>

Unread == [signals |-> {}]
NoOwner == [who |-> "nobody", summed |-> FALSE]
Steps == <<"paper", "skips", "schema", "columns", "keys", "rewrite", "dates", "accounts">>
Account(who, summed) == [who |-> who, summed |-> summed] \* an address, checksummed or not
Lower(account) == [account EXCEPT !.summed = FALSE]

-----------------------------------------------------------------------------
(* The rows, with the columns an opening can touch. *)

SignalRow(ref, rev, at) == [ref |-> ref, rev |-> rev, at |-> at]
SkipRow(account, ref, seen) == [account |-> account, ref |-> ref, first |-> seen.first, last |-> seen.last, n |-> seen.n]
IntentRow(id, account, ref) == [id |-> id, account |-> account, ref |-> ref]
AccountsRow(account, dated) == [account |-> account, dated |-> dated]
PaperRow(owner, row) == [owner |-> owner, row |-> row]

-----------------------------------------------------------------------------
(* Outlook keys: a series and its anchor; older rows carry the vendor's epoch
   tag behind them, the oldest a revision hash too. *)

KeyLength == 2
IsStale(ref) == Len(ref) > KeyLength
Keyed_DropsTheTail(ref) == IF Len(ref) > 1 THEN SubSeq(ref, 1, Len(ref) - 1) ELSE ref
Keyed(ref) == IF IsStale(ref) THEN SubSeq(ref, 1, KeyLength) ELSE ref

-----------------------------------------------------------------------------
(* What rows become. *)

Earliest(rows) == CHOOSE r \in rows : \A s \in rows : r.at <= s.at

\* A row of the log is one sighting; a keyed row, as many as it counts.
FirstOf(form, r) == IF form = "log" THEN r.at ELSE r.first
LastOf(form, r) == IF form = "log" THEN r.at ELSE r.last
CountOf(form, r) == IF form = "log" THEN 1 ELSE r.n
Widest(form, rows) == [first |-> Min({FirstOf(form, r) : r \in rows}), last |-> Max({LastOf(form, r) : r \in rows}),
                       n |-> MapThenSumSet(LAMBDA r : CountOf(form, r), rows)]

\* A log of skips, one row a tick, becomes one row a decision.
Collapsed(log) ==
  {SkipRow(d[1], d[2], Widest("log", {r \in log : r.account = d[1] /\ r.ref = d[2]}))
   : d \in {<<r.account, r.ref>> : r \in log}}

\* Rows that come to share a key collapse: a revision keeps its first sighting,
\* a decision its widest window and the sum of its sightings.
SignalsOut(signals) ==
  {LET same == {s \in signals : Keyed(s.ref) = k[1] /\ s.rev = k[2]}
   IN  SignalRow(k[1], k[2], Earliest(same).at)
   : k \in {<<Keyed(s.ref), s.rev>> : s \in signals}}
SkipsOut(skips) ==
  {SkipRow(k[1], k[2], Widest("keyed", {s \in skips : s.account = k[1] /\ Keyed(s.ref) = k[2]}))
   : k \in {<<s.account, Keyed(s.ref)>> : s \in skips}}

-----------------------------------------------------------------------------
(* The opening, in the constructor's order.  A step that throws leaves the file
   as it was and the process ends. *)

After(s) == Steps[(CHOOSE n \in 1..Len(Steps) - 1 : Steps[n] = s) + 1]
GoesOn(s) == step' = After(s)
Refuses == step' = "refused" /\ UNCHANGED ledger

OwnerOf(l) == (CHOOSE a \in l.accounts : TRUE).account
PaperIsNobodys(l) == l.paper # {} /\ Cardinality(l.accounts) # 1
\* The whole schema is run on the way, and it indexes a column the log has not.
SchemaTrips(l) == l.skipForm = "log"

MigratePaperBook ==
  /\ step = "paper"
  /\ \/ /\ ledger.paperForm # "global"
        /\ GoesOn("paper") /\ UNCHANGED ledger
     \/ /\ ledger.paperForm = "global"
        /\ PaperIsNobodys(ledger) \/ SchemaTrips(ledger)
        /\ Refuses
     \/ /\ ledger.paperForm = "global" /\ ~PaperIsNobodys(ledger) /\ ~SchemaTrips(ledger)
        /\ ledger' = [ledger EXCEPT !.paperForm = "owned", !.skipForm = "keyed",
                                    !.paper = {PaperRow(OwnerOf(ledger), p.row) : p \in @}]
        /\ GoesOn("paper")
  /\ UNCHANGED <<read, web, known, now, deaths>>

MigrateSkips ==
  /\ step = "skips"
  /\ ledger' = IF ledger.skipForm = "log"
               THEN [ledger EXCEPT !.skipForm = "keyed", !.skips = Collapsed(@)]
               ELSE ledger
  /\ GoesOn("skips")
  /\ UNCHANGED <<read, web, known, now, deaths>>

ApplySchema ==
  /\ step = "schema"
  /\ ledger' = IF ledger.paperForm = "none"
               THEN [ledger EXCEPT !.paperForm = "owned", !.skipForm = "keyed", !.columns = ToSet(Columns)]
               ELSE ledger
  /\ GoesOn("schema")
  /\ UNCHANGED <<read, web, known, now, deaths>>

\* Each column is a commit of its own.
AddMissingColumns ==
  /\ step = "columns"
  /\ \/ \E n \in DOMAIN Columns :
          /\ Columns[n] \notin ledger.columns /\ \A m \in 1..n-1 : Columns[m] \in ledger.columns
          /\ ledger' = [ledger EXCEPT !.columns = @ \cup {Columns[n]}] /\ UNCHANGED step
     \/ ToSet(Columns) \subseteq ledger.columns /\ GoesOn("columns") /\ UNCHANGED ledger
  /\ UNCHANGED <<read, web, known, now, deaths>>

StaleRows(l) == {r \in l.signals \cup l.skips \cup l.intents : IsStale(r.ref)}
ReadForKeys ==
  /\ step = "keys"
  /\ IF StaleRows(ledger) = {}
     THEN step' = "dates" /\ UNCHANGED read
     ELSE GoesOn("keys") /\ read' = [signals |-> ledger.signals, skips |-> ledger.skips, intents |-> ledger.intents]
  /\ UNCHANGED <<ledger, web, known, now, deaths>>
MigrateOutlookKeys ==
  /\ step = "rewrite"
  /\ ledger' = [ledger EXCEPT !.signals = SignalsOut(read.signals), !.skips = SkipsOut(read.skips),
                              !.intents = {[i EXCEPT !.ref = Keyed(@)] : i \in @}]
  /\ read' = Unread /\ GoesOn("rewrite")
  /\ UNCHANGED <<web, known, now, deaths>>

DateAccounts ==
  /\ step = "dates"
  /\ ledger' = [ledger EXCEPT !.accounts = {AccountsRow(a.account, TRUE) : a \in @}]
  /\ GoesOn("dates")
  /\ UNCHANGED <<read, web, known, now, deaths>>

\* Tables keyed on the account alone are checked before they are lowered; the
\* skips are not, and a row that meets its own twin there throws.
Twins(rows) == \E r, s \in rows : r.account # s.account /\ Lower(r.account) = Lower(s.account)
SkipsMeet(skips) == \E r, s \in skips : r.account # s.account /\ Lower(r.account) = Lower(s.account) /\ r.ref = s.ref
Lowered(rows) == {[r EXCEPT !.account = Lower(@)] : r \in rows}
NormaliseAccountKeys ==
  /\ step = "accounts"
  /\ \/ /\ Twins(ledger.accounts) \/ SkipsMeet(ledger.skips)
        /\ Refuses
     \/ /\ ~Twins(ledger.accounts) /\ ~SkipsMeet(ledger.skips)
        /\ ledger' = [ledger EXCEPT !.accounts = Lowered(@), !.skips = Lowered(@), !.intents = Lowered(@),
                                    !.paper = {[p EXCEPT !.owner = Lower(@)] : p \in @}]
        /\ step' = "open"
  /\ UNCHANGED <<read, web, known, now, deaths>>

-----------------------------------------------------------------------------
(* The executor running on it. *)

Decision(l, account, ref) == {s \in l : s.account = account /\ s.ref = ref}
Sighting(at) == [first |-> at, last |-> at, n |-> 1]
Merged(skips, account, ref) ==
  LET before == Decision(skips, account, ref)
  IN  (skips \ before) \cup {SkipRow(account, ref, Widest("keyed", before \cup {Sighting(now)}))}
Signalled(signals, ref, rev) ==
  IF \E s \in signals : s.ref = ref /\ s.rev = rev THEN signals
  ELSE signals \cup {SignalRow(ref, rev, now)}

\* A poll is judged: the signal is recorded once, its refusal each time.
RecordsSkip(who, ref) ==
  /\ step = "open" /\ now < MaxNow
  /\ ledger' = [ledger EXCEPT !.signals = Signalled(@, ref, 1), !.skips = Merged(@, Account(who, FALSE), ref)]
  /\ known' = [known EXCEPT !.signals = Signalled(@, ref, 1), !.skips = Merged(@, Account(who, FALSE), ref)]
  /\ now' = now + 1
  /\ UNCHANGED <<step, read, web, deaths>>

Kept(skips) == {s \in skips : s.last >= now - 1}
PrunesSkips ==
  /\ step = "open"
  /\ ledger' = [ledger EXCEPT !.skips = Kept(@)] /\ known' = [known EXCEPT !.skips = Kept(@)]
  /\ UNCHANGED <<step, read, web, now, deaths>>

Starts == step = "closed" /\ step' = "paper" /\ UNCHANGED <<ledger, read, web, known, now, deaths>>
Dies ==
  /\ step # "closed" /\ deaths < MaxDeaths
  /\ step' = "closed" /\ read' = Unread /\ deaths' = deaths + 1
  /\ UNCHANGED <<ledger, web, known, now>>

\* The reader looks for what the schema declares and this file has not.
Complete(l) == l.paperForm = "owned" /\ l.skipForm = "keyed" /\ ToSet(Columns) \subseteq l.columns
WebBoots ==
  /\ web # "serving"
  /\ web' = IF Complete(ledger) THEN "serving" ELSE "refused"
  /\ UNCHANGED <<ledger, step, read, known, now, deaths>>

-----------------------------------------------------------------------------
(* What a file says, whatever form it says it in. *)

Today(ref) == SubSeq(ref, 1, Min({KeyLength, Len(ref)}))
Owned(l) == {IF l.paperForm = "global" /\ ~PaperIsNobodys(l) THEN PaperRow(Lower(OwnerOf(l)), p.row)
             ELSE PaperRow(Lower(p.owner), p.row) : p \in l.paper}
Said(form, skips) ==
  {SkipRow(k[1], k[2], Widest(form, {s \in skips : Lower(s.account) = k[1] /\ Today(s.ref) = k[2]}))
   : k \in {<<Lower(s.account), Today(s.ref)>> : s \in skips}}
Told(signals) ==
  LET told == {SignalRow(Today(s.ref), s.rev, s.at) : s \in signals}
  IN  {s \in told : \A t \in told : t.ref = s.ref /\ t.rev = s.rev => s.at <= t.at}
Means(l) ==
  [paper |-> Owned(l), skips |-> Said(l.skipForm, l.skips), signals |-> Told(l.signals),
   intents |-> {IntentRow(i.id, Lower(i.account), Today(i.ref)) : i \in l.intents},
   accounts |-> {Lower(a.account) : a \in l.accounts}]

(* The files versions leave behind: a log of skips repeats a decision, the keyed
   tables do not, and a file without a table of skips has no paper book either. *)
IsAddress(a) == a = Account(a.who, a.summed) /\ a.summed \in BOOLEAN
IsRef(ref) == ref \in Seq(STRING)
IsSkip(form, s) ==
  /\ IsAddress(s.account) /\ IsRef(s.ref)
  /\ {FirstOf(form, s), LastOf(form, s), CountOf(form, s)} \subseteq Nat
  /\ form # "log" => s = SkipRow(s.account, s.ref, [first |-> s.first, last |-> s.last, n |-> s.n])
IsLedger(l) ==
  /\ l = [accounts |-> l.accounts, paperForm |-> l.paperForm, paper |-> l.paper, skipForm |-> l.skipForm, skips |-> l.skips,
          signals |-> l.signals, columns |-> l.columns, intents |-> l.intents]
  /\ l.paperForm \in {"none", "global", "owned"} /\ l.skipForm \in {"none", "log", "keyed"}
  /\ l.skipForm = "none" => l.paperForm = "none" /\ l.skips = {}
  /\ IsFiniteSet(l.accounts) /\ IsFiniteSet(l.skips)
  /\ \A a \in l.accounts : a = AccountsRow(a.account, a.dated) /\ IsAddress(a.account)
  /\ \A p \in l.paper : p = PaperRow(p.owner, p.row) /\ IsAddress(p.owner)
  /\ \A i \in l.intents : i = IntentRow(i.id, i.account, i.ref) /\ IsAddress(i.account) /\ IsRef(i.ref)
  /\ \A s \in l.signals : s = SignalRow(s.ref, s.rev, s.at) /\ IsRef(s.ref) /\ s.at \in Nat
  /\ \A s, t \in l.signals : s.ref = t.ref /\ s.rev = t.rev => s = t
  /\ \A s \in l.skips : IsSkip(l.skipForm, s)
  /\ l.skipForm # "log" => \A s, t \in l.skips : s.account = t.account /\ s.ref = t.ref => s = t
ASSUME LedgersAssumption ==
  /\ \A l \in Ledgers : IsLedger(l)
  /\ Columns \in Seq(STRING)
  /\ \A ref \in Outlooks : IsRef(ref) /\ Len(ref) <= KeyLength

LedgerInit ==
  /\ ledger \in Ledgers /\ known = Means(ledger)
  /\ step = "closed" /\ read = Unread /\ web = "down" /\ now = 4 /\ deaths = 0

LedgerNext ==
  \/ Starts \/ MigratePaperBook \/ MigrateSkips \/ ApplySchema \/ AddMissingColumns \/ ReadForKeys
  \/ MigrateOutlookKeys \/ DateAccounts \/ NormaliseAccountKeys \/ PrunesSkips \/ Dies \/ WebBoots
  \/ \E who \in Owners, ref \in Outlooks : RecordsSkip(who, ref)

LedgerSpec == LedgerInit /\ [][LedgerNext]_fileVars

-----------------------------------------------------------------------------
(* Whatever form a version left the file in, and wherever an opening dies or
   refuses, the file goes on saying what was recorded in it: no sighting is
   dropped or counted twice, no two outlooks become one, no row changes hands.
   "It must be impossible to run twice"; "it must not invent anything". *)
LedgerSaysTheSame == Means(ledger) = known

(* An executor that runs does so on a file with nothing left to bring forward,
   keyed as the feed and the account list are (an old reference would read as a
   retirement of everything held), and a web tier that serves never meets a
   table or a column it does not know. *)
OpenedIsCurrent ==
  /\ step = "open" => /\ Complete(ledger) /\ StaleRows(ledger) = {}
                      /\ \A r \in ledger.accounts \cup ledger.skips \cup ledger.intents : r.account = Lower(r.account)
                      /\ \A a \in ledger.accounts : a.dated
  /\ web = "serving" => Complete(ledger)

(* The owner's money is in this file (store/db.ts): no opening, no version and no
   death in the middle of one changes what it says, and none is run on unfinished. *)
OpenedSaysTheSame == LedgerSaysTheSame /\ OpenedIsCurrent
=============================================================================
