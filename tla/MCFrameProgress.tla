--------------------------- MODULE MCFrameProgress ---------------------------
(***************************************************************************)
(* The leader, which renders too, and one worker; one frame.               *)
(***************************************************************************)
EXTENDS FrameProgress

CONSTANTS l, w
=============================================================================
