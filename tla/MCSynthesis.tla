----------------------------- MODULE MCSynthesis ----------------------------
(* Instances of Synthesis for TLC.                                          *)
EXTENDS Synthesis

CONSTANTS alice, s, j, l

(* Every request is on alice's account.                                     *)
OneAccount == [q \in Request |-> alice]

(* A stream may take a second chunk, past the credit, after it has read the *)
(* balance again; the second chunk of a job is refused; a chunk of the live *)
(* session is one more debit on the account.                                *)
Bounds == [q \in Request |-> IF q \in Live THEN 2 ELSE 4]

Credit3 == [u \in User |-> 3]
=============================================================================
