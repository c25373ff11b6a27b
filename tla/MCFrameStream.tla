--------------------------- MODULE MCFrameStream ---------------------------
(* Instances of FrameStream for TLC, with the sizes of the code. *)
EXTENDS FrameStream
=============================================================================
