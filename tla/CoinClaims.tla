----------------------------- MODULE CoinClaims -----------------------------
(***************************************************************************)
(* What the intent ledger promises about the coins of an account, without  *)
(* saying how: a coin is claimed by one intent at a time, an intent claims *)
(* one coin, once, and an intent that has let its coin go never has a      *)
(* claim again.                                                            *)
(***************************************************************************)
CONSTANTS Coins, Ids, Nobody   \* Nobody is none of Ids

VARIABLES claim,   \* claim[c]: the intent that holds c, or Nobody
          ended    \* the intents that are finished

Init == claim = [c \in Coins |-> Nobody] /\ ended = {}

Claim(c, i) ==
  /\ claim[c] = Nobody
  /\ i \notin ended
  /\ \A d \in Coins : claim[d] # i
  /\ claim' = [claim EXCEPT ![c] = i]
  /\ UNCHANGED ended

(* One settling pass may finish several intents.                           *)
Release(S) ==
  /\ \A c \in S : claim[c] # Nobody
  /\ claim' = [c \in Coins |-> IF c \in S THEN Nobody ELSE claim[c]]
  /\ ended' = ended \cup {claim[c] : c \in S}

Next == \/ \E c \in Coins, i \in Ids : Claim(c, i)
        \/ \E S \in SUBSET Coins : Release(S)

Spec == Init /\ [][Next]_<<claim, ended>>
=============================================================================
