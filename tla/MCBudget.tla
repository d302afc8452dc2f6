------------------------------ MODULE MCBudget ------------------------------
(* One coin: a row written at one mark and entered at another.             *)
EXTENDS Budget

Longs == [c \in Listed |-> "long"]
Forty == [c \in Listed |-> 40]
TheDefault == {[pct |-> 10, leverage |-> 10, stop |-> 20]}
NoResult == {0}
=============================================================================
