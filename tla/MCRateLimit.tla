----------------------------- MODULE MCRateLimit ----------------------------
(* An instance of RateLimit for TLC.                                        *)
EXTENDS RateLimit, TLC

CONSTANTS q1, q2, a1, g

(* Two windows, the second twice as long; expiries of two lengths.          *)
TwoLengths == <<2, 4>>
TwoExpiries == <<4, 8>>
OneEach == <<1, 1>>
Raised == <<2, 2>>
Invalid == <<0, 1>>
AskedLimits == {Raised, Invalid}

Alike == Permutations(Request)
=============================================================================
