------------------------------- MODULE MCDesk -------------------------------
(***************************************************************************)
(* Machines of the desk's operations that share no state, checked by one    *)
(* run: the scene chosen at the start says which of them moves.            *)
(***************************************************************************)
EXTENDS Feed, Watch, Outage, SpeedLimit, Replay, Sigma, Reading, Rulebook, Budget

VARIABLE scene

vars == <<feedVars, watchVars, outageVars, speedVars, replayVars, sigmaVars, readingVars, rulebookVars, budgetVars, scene>>

TwoEndpoints == <<"perps", "signals">>
PollEvery == [e \in {"perps", "signals"} |-> IF e = "perps" THEN 1 ELSE 2]
Quiet == {[creditsLow |-> FALSE, archiveReads |-> a, refused |-> FALSE, outside |-> FALSE] : a \in BOOLEAN}
Shapes == {"breaking"}

Outlook(c, s, t, a) == [coin |-> c, side |-> s, target |-> t, anchor |-> a]
TheOutlooks == <<Outlook("btc", "long", 12, 3), Outlook("btc", "long", 11, 9), Outlook("btc", "short", 8, 4), Outlook("eth", "long", 12, 4)>>
TheCandles == {[lo |-> 0, hi |-> 0, close |-> 0], [lo |-> -1, hi |-> 0, close |-> -1],
               [lo |-> 0, hi |-> 1, close |-> 1], [lo |-> -1, hi |-> 1, close |-> 0]}
Says(w, s) == [says |-> w, sigma |-> s]
Gone == Says("absent", 0)
Kept == Says("live", 0)
TheReports == {<<Says("tradeable", 2), Gone, Gone, Says("tradeable", 1)>>, <<Says("tradeable", 1), Says("tradeable", 2), Gone, Kept>>,
               <<Says("repeated", 2), Says("tradeable", 1), Gone, Says("repeated", 1)>>, <<Gone, Gone, Says("tradeable", 1), Gone>>}

Estimate(a, b, c) == [p \in {"p", "q", "r"} |-> IF p = "p" THEN a ELSE IF p = "q" THEN b ELSE c]
TheEstimates == {Estimate(4, 4, 4), Estimate(8, 8, 4), Estimate(8, 0, 9)}
ThePolls == <<1, 2, 2, 1, 1>>

Series(k, w, n) == [keys |-> k, words |-> w, parts |-> n]
ThePublished == {{}, {Series({"id"}, {"ok"}, {8})},
                 {Series({"id"}, {"ok"}, {8}), Series({"id", "audit"}, {"ok"}, {8})},
                 {Series({"id", "audit"}, {"ok"}, {9})}}

TheSides == [c \in Listed |-> IF c = "eth" THEN "short" ELSE "long"]
TheCaps == [c \in Listed |-> CASE c = "btc" -> 40 [] c = "eth" -> 20 [] c = "sol" -> 10]
FirstChoice == [pct |-> 50, leverage |-> 20, stop |-> 20]
TheChoices == {FirstChoice, [pct |-> 30, leverage |-> 10, stop |-> 80]}
TheResults == {-50}

Init ==
  /\ scene \in {"feed", "watch", "outage", "speed", "replay", "sigma", "reading", "rulebook", "budget"}
  /\ FeedInit /\ WatchInit /\ OutageInit /\ SpeedInit /\ ReplayInit /\ SigmaInit /\ ReadingInit /\ RulebookInit /\ BudgetInit
  /\ scene # "rulebook" => operator = "op"
  /\ scene # "budget" => choice = FirstChoice
  /\ scene # "replay" => start = 0
  /\ scene # "speed" => file = NoFile /\ compiled = [k \in Leaves |-> 1]

Next ==
  /\ UNCHANGED scene
  /\ \/ scene = "feed" /\ FeedNext
        /\ UNCHANGED <<watchVars, outageVars, speedVars, replayVars, sigmaVars, readingVars, rulebookVars, budgetVars>>
     \/ scene = "watch" /\ WatchNext
        /\ UNCHANGED <<feedVars, outageVars, speedVars, replayVars, sigmaVars, readingVars, rulebookVars, budgetVars>>
     \/ scene = "outage" /\ OutageNext
        /\ UNCHANGED <<feedVars, watchVars, speedVars, replayVars, sigmaVars, readingVars, rulebookVars, budgetVars>>
     \/ scene = "speed" /\ SpeedNext
        /\ UNCHANGED <<feedVars, watchVars, outageVars, replayVars, sigmaVars, readingVars, rulebookVars, budgetVars>>
     \/ scene = "replay" /\ ReplayNext
        /\ UNCHANGED <<feedVars, watchVars, outageVars, speedVars, sigmaVars, readingVars, rulebookVars, budgetVars>>
     \/ scene = "sigma" /\ SigmaNext
        /\ UNCHANGED <<feedVars, watchVars, outageVars, speedVars, replayVars, readingVars, rulebookVars, budgetVars>>
     \/ scene = "reading" /\ ReadingNext
        /\ UNCHANGED <<feedVars, watchVars, outageVars, speedVars, replayVars, sigmaVars, rulebookVars, budgetVars>>
     \/ scene = "rulebook" /\ RulebookNext
        /\ UNCHANGED <<feedVars, watchVars, outageVars, speedVars, replayVars, sigmaVars, readingVars, budgetVars>>
     \/ scene = "budget" /\ BudgetNext
        /\ UNCHANGED <<feedVars, watchVars, outageVars, speedVars, replayVars, sigmaVars, readingVars, rulebookVars>>

Spec == Init /\ [][Next]_vars
=============================================================================
