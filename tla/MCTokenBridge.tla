---------------------------- MODULE MCTokenBridge ---------------------------
(* Instances of TokenBridge for TLC.                                        *)
EXTENDS TokenBridge

CONSTANTS short, long

(* What is left of short fits its queues wherever its reader or its decoder *)
(* stops; what is left of long does not.                                    *)
Mixed == [s \in Stream |-> IF s = short THEN 4 ELSE 9]

(* Each stream may lose a token, or a window.                               *)
LoseOne == [s \in Stream |-> 1]
=============================================================================
