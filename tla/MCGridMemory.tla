----------------------------- MODULE MCGridMemory -----------------------------
(***************************************************************************)
(* Values for the constants of GridMemory that a .cfg cannot write, and    *)
(* the symmetry of its threads.                                            *)
(***************************************************************************)
EXTENDS GridMemory, TLC

CONSTANTS t1, t2, s1, s2, k1, k2

Ranks == t1 :> 1 @@ t2 :> 2

\* One intake makes a group to compress (CompressMin = 1), and the result only
\* together with a compressed entry one to summarise (SummaryMin = 2).
SomeNotes == {<<"intake", t1>>, <<"intake", t2>>, <<"result", t1>>}

CompactorSymmetry == Permutations(Compactors)
===============================================================================
