--------------------------- MODULE MCWalletCache ---------------------------
(* Instances of WalletCache for TLC: one delivery on the first replica.     *)
EXTENDS WalletCache, TLC

CONSTANTS a, b, s1, s2

MCStreamHome == [s \in Stream |-> IF s = s2 /\ b \in Replica THEN b ELSE a]
=============================================================================
