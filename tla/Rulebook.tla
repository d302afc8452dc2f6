------------------------------- MODULE Rulebook -------------------------------
(***************************************************************************)
(* The public record of the rules the desk runs under (MandateRulebook.sol): *)
(* an append-only list of dated entries, one operator who may append, and a  *)
(* two-step transfer of that right.                                         *)
(***************************************************************************)
EXTENDS Integers, Sequences

CONSTANTS
  Addresses, Zero,      \* who may call; the zero address
  Hashes, EmptyHash,    \* what may be published; the empty hash
  LastBlock, MaxRules   \* bounds

ASSUME RulebookAssumption == Zero \notin Addresses /\ EmptyHash \notin Hashes /\ Addresses # {} /\ LastBlock \in Nat

VARIABLES
  blockTime,
  operator, pendingOperator,
  rules         \* [rulesHash, effectiveAt, publishedAt]

rulebookVars == <<blockTime, operator, pendingOperator, rules>>

RulebookInit ==
  /\ blockTime = 0
  /\ operator \in Addresses /\ pendingOperator = Zero
  /\ rules = <<>>

LastRule == rules[Len(rules)]

\* Mutant: entries may be inserted anywhere.
InOrder_Any(effectiveAt) == TRUE

\* Same instant as the last entry is a correction.
InOrder(effectiveAt) == rules # <<>> => LastRule.effectiveAt <= effectiveAt

Publish(sender, hash, effectiveAt) ==
  /\ sender = operator
  /\ hash # EmptyHash
  /\ effectiveAt <= blockTime
  /\ InOrder(effectiveAt)
  /\ Len(rules) < MaxRules
  /\ rules' = Append(rules, [rulesHash |-> hash, effectiveAt |-> effectiveAt, publishedAt |-> blockTime])
  /\ UNCHANGED <<blockTime, operator, pendingOperator>>

TransferOperator(sender, next) ==
  /\ sender = operator
  /\ next # Zero
  /\ pendingOperator' = next
  /\ UNCHANGED <<blockTime, operator, rules>>

AcceptOperator(sender) ==
  /\ sender = pendingOperator
  /\ operator' = sender /\ pendingOperator' = Zero
  /\ UNCHANGED <<blockTime, rules>>

BlockPasses ==
  /\ blockTime < LastBlock /\ blockTime' = blockTime + 1
  /\ UNCHANGED <<operator, pendingOperator, rules>>

RulebookNext ==
  \/ BlockPasses
  \/ \E s \in Addresses :
       \/ \E h \in Hashes \cup {EmptyHash}, t \in 0..LastBlock : Publish(s, h, t)
       \/ \E n \in Addresses \cup {Zero} : TransferOperator(s, n)
       \/ AcceptOperator(s)

RulebookSpec == RulebookInit /\ [][RulebookNext]_rulebookVars

-----------------------------------------------------------------------------
\* The binary search of ruleAt: how many entries begin at or before t, 0 when it reverts.
RuleAt(t) ==
  LET search[left \in (0..Len(rules)) \X (0..Len(rules))] ==
        LET lo == left[1]
            hi == left[2]
            mid == (lo + hi) \div 2
        IN IF lo >= hi THEN lo
           ELSE IF rules[mid + 1].effectiveAt <= t THEN search[<<mid + 1, hi>>] ELSE search[<<lo, mid>>]
  IN search[<<0, Len(rules)>>]

\* The hash an account is told it was traded under at t.
AnswerAt(t) == IF RuleAt(t) = 0 THEN EmptyHash ELSE rules[RuleAt(t)].rulesHash

(* Which rules was I traded under at t "has an answer nobody can rewrite     *)
(* afterwards" (MandateRulebook.sol): once an entry that begins after t is   *)
(* published, the answer for t is the last entry begun by then and never     *)
(* moves, whoever holds the right to publish; and that right is only ever    *)
(* taken by the address it was offered to.  Up to the last entry's own       *)
(* beginning a late entry may still change what is in force.                *)
AnswersAreFinal ==
  [][/\ \A t \in 0..LastBlock :
          rules # <<>> /\ t < LastRule.effectiveAt =>
            /\ AnswerAt(t)' = AnswerAt(t)
            /\ \A i \in DOMAIN rules : rules[i].effectiveAt <= t => i <= RuleAt(t)
     /\ operator' # operator => operator' = pendingOperator]_rulebookVars
=============================================================================
