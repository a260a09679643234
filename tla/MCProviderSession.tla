------------------------ MODULE MCProviderSession -------------------------
(* Times are ticks.  The checking run keeps the order of the delays: a       *)
(* restart comes before the kill of the stop() that preceded it, and three    *)
(* failures fit into the crash window.  The runs that look for a              *)
(* counterexample use ticks of 250 ms.                                      *)
EXTENDS ProviderSession
=============================================================================
