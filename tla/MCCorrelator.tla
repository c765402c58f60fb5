----------------------------- MODULE MCCorrelator -----------------------------
(* Small instances of CorrelatorThreads for TLC: two checkpoints, and one of *)
(* the four transitions configured.                                          *)
EXTENDS CorrelatorThreads

CONSTANTS u1, u2, p1, p2, t1, t2

MCUids == {u1, u2}
MCCheckpoints == {p1, p2}
MCTransitions == {<< p1, p2 >>}
MCThreads == {t1, t2}
Symmetry == Permutations(MCUids) \cup Permutations(MCThreads)
=============================================================================
