------------------------------- MODULE MCSite -------------------------------
(***************************************************************************)
(* Machines of the site and of the ledger file that share no state: the   *)
(* scene chosen at the start says which of them moves.                     *)
(***************************************************************************)
EXTENDS Visitor, Approvals, Ledger, Limits, Screen, Served

VARIABLE scene
vars == <<visitorVars, approvalVars, fileVars, limitsVars, screenVars, servedVars, scene>>

Feed == {<<"wti", "q3">>, <<"wti", "q4">>}
Tagged(tag) == <<"wti", "q3", tag>>
Hashed(tag) == <<"wti", "q3", tag, "hash">>
Twice == <<"columns of intents", "columns of accounts">>
Mine(summed) == Account("w1", summed)

AccountsLeft == {{}, {Mine(TRUE)}, {Mine(FALSE)}, {Mine(TRUE), Mine(FALSE)}, {Mine(FALSE), Account("w2", FALSE)}}
PaperLeft == {<<"global", {}>>, <<"global", {PaperRow(NoOwner, 1)}>>, <<"owned", {}>>}
SkipsLeft == {
  <<"log", {[account |-> Mine(TRUE), ref |-> Hashed("e1"), at |-> 1], [account |-> Mine(TRUE), ref |-> Tagged("e1"), at |-> 2],
            [account |-> Mine(TRUE), ref |-> Tagged("e1"), at |-> 3]}>>,
  <<"log", {[account |-> Mine(TRUE), ref |-> Tagged("e1"), at |-> 1], [account |-> Mine(FALSE), ref |-> Tagged("e1"), at |-> 2]}>>,
  <<"keyed", {[account |-> Mine(FALSE), ref |-> Tagged("e1"), first |-> 1, last |-> 2, n |-> 2],
              [account |-> Mine(FALSE), ref |-> Tagged("e2"), first |-> 3, last |-> 3, n |-> 1]}>>,
  <<"keyed", {[account |-> Mine(TRUE), ref |-> r, first |-> 2, last |-> 3, n |-> 2] : r \in Feed}>>}
SignalsLeft == {{SignalRow(Hashed("e1"), 1, 1), SignalRow(Tagged("e1"), 1, 2),
                 SignalRow(Tagged("e2"), 2, 3)},
                {SignalRow(r, 1, 1) : r \in Feed}}

TheLedgers ==
  {[accounts |-> {AccountsRow(a, d) : a \in accounts}, paperForm |-> paper[1], paper |-> paper[2],
    skipForm |-> skips[1], skips |-> skips[2], signals |-> told, columns |-> cols,
    intents |-> {IntentRow(1, s.account, s.ref) : s \in {CHOOSE t \in skips[2] : TRUE}}]
   : accounts \in AccountsLeft, d \in BOOLEAN, paper \in PaperLeft, skips \in SkipsLeft, told \in SignalsLeft,
     cols \in {{}, {"columns of intents"}}}
  \cup {[accounts |-> {}, paperForm |-> "none", paper |-> {}, skipForm |-> "none", skips |-> {}, signals |-> {},
         columns |-> {}, intents |-> {}]}
Empty == CHOOSE l \in TheLedgers : l.paperForm = "none"

Init ==
  /\ scene \in {"visitor", "approvals", "ledger", "limits", "screen", "served"}
  /\ VisitorInit /\ ApprovalInit /\ LedgerInit /\ LimitsInit /\ ScreenInit /\ ServedInit
  /\ scene # "approvals" => held = None
  /\ scene # "ledger" => ledger = Empty
  /\ scene # "limits" => \A w \in Connected : file[w] = NoLimits
  /\ scene # "screen" => turns = 0
  /\ scene # "served" => mode = "live" /\ ~paused /\ ~mayClear

Next ==
  /\ UNCHANGED scene
  /\ \/ scene = "visitor" /\ VisitorNext
        /\ UNCHANGED <<approvalVars, fileVars, limitsVars, screenVars, servedVars>>
     \/ scene = "approvals" /\ ApprovalNext
        /\ UNCHANGED <<visitorVars, fileVars, limitsVars, screenVars, servedVars>>
     \/ scene = "ledger" /\ LedgerNext
        /\ UNCHANGED <<visitorVars, approvalVars, limitsVars, screenVars, servedVars>>
     \/ scene = "limits" /\ LimitsNext
        /\ UNCHANGED <<visitorVars, approvalVars, fileVars, screenVars, servedVars>>
     \/ scene = "screen" /\ ScreenNext
        /\ UNCHANGED <<visitorVars, approvalVars, fileVars, limitsVars, servedVars>>
     \/ scene = "served" /\ ServedNext
        /\ UNCHANGED <<visitorVars, approvalVars, fileVars, limitsVars, screenVars>>

Spec == Init /\ [][Next]_vars
=============================================================================
