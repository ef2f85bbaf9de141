----------------------------- MODULE MCAccounts -----------------------------
(* An instance of Accounts for TLC.                                         *)
EXTENDS Accounts, TLC

CONSTANTS dev, ann, pw1, pw2, r1, r2, c1, c2, c3

(* Only dev has usage rows: enough for offset and limit to leave some out.  *)
UsageBound == [n \in Name |-> IF n = dev THEN 3 ELSE 0]

Alike == Permutations(Call) \cup Permutations(Replica)
=============================================================================
