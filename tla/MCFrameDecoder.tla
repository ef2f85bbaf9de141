--------------------------- MODULE MCFrameDecoder ---------------------------
(* FrameDecoder with the frame and window of the code and two codes.        *)
EXTENDS FrameDecoder
=============================================================================
