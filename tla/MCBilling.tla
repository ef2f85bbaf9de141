------------------------------ MODULE MCBilling -----------------------------
(* Instances of Billing for TLC: two accounts, one of them with a price of  *)
(* its own, the other on the default price.                                 *)
EXTENDS Billing, TLC

CONSTANTS alice, bob, r1, r2, c1, c2

MCOwner == [r \in Request |-> IF r = r1 THEN alice ELSE IF bob \in User THEN bob ELSE alice]
MCUserPrice == alice :> 2
MCInitialBalance == [u \in User |-> 3]
MCMaxSeconds == [r \in Request |-> IF r = r1 THEN 2 ELSE 1]

Symmetry == Permutations(Consumer)
=============================================================================
