---------------------------- MODULE MCLiveSession ---------------------------
(* Instances of LiveSession for TLC; the bounds are in the configurations.  *)
EXTENDS LiveSession
=============================================================================
