------------------------------- MODULE MCOutbox -------------------------------
(* Model values of the runs of Outbox. *)
EXTENDS Outbox, TLC

CONSTANTS t1, t2, k1, k2

\* Neither threads nor keys are told apart but by equality.
QueueSymmetry == Permutations(Threads) \cup Permutations(Keys)
=============================================================================
