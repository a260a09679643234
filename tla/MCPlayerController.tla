------------------------ MODULE MCPlayerController ------------------------
(* Two decode jobs: one in use and one retired but still running.  A file    *)
(* and a station for safety; a remote track and a station for liveness.      *)
EXTENDS PlayerController, TLC

JobSymmetry == Permutations(Jobs)
=============================================================================
