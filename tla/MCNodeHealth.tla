----------------------------- MODULE MCNodeHealth -----------------------------
(***************************************************************************)
(* Model values for NodeHealth.                                            *)
(***************************************************************************)
EXTENDS NodeHealth

CONSTANTS n1, t1, m1
===============================================================================
