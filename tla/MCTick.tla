------------------------------- MODULE MCTick -------------------------------
(* Small accounts on which TLC checks Tick.                                *)
EXTENDS Tick

OneCoin  == [s \in Signals |-> CHOOSE c \in Coins : TRUE]
(* Two outlooks on one coin and a third on the other.                      *)
TwoAndOne == CHOOSE f \in [Signals -> Coins] :
  \A c \in Coins : \E s \in Signals : f[s] = c
AllPriced == {{}}
HandSizes == {-1}
AnyUnpriced == SUBSET Coins
=============================================================================
