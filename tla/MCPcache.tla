------------------------------ MODULE MCPcache ------------------------------
(***************************************************************************)
(* Model values for the runs of Pcache.                                    *)
(***************************************************************************)
EXTENDS Pcache, TLC

CONSTANTS d1, w1, w2
=============================================================================
