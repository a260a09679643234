--------------------------- MODULE MCStreamDecoder ---------------------------
(* Model-checking instance of StreamDecoder: a ring of two frames, packets   *)
(* that overfill it, and the GUI, device and decoder threads interleaved at *)
(* every atomic access.                                                    *)
EXTENDS StreamDecoder
=============================================================================
