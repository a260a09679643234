----------------------------- MODULE MCSpscRing -----------------------------
(* Model-checking instance of SpscRing: a ring of three frames, the size of *)
(* the repository's own wrap-around test, with writes that overshoot it.    *)
EXTENDS SpscRing
=============================================================================
