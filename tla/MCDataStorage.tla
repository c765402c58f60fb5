---------------------------- MODULE MCDataStorage ----------------------------
(* Small instances of DataStorage for TLC. *)
EXTENDS DataStorage, TLC

CONSTANTS h1, h2, h3, n1, n2

MCAddrs  == {h1, h2, h3}
MCNames  == {n1, n2}
MCOneName == {n1}
Symmetry == Permutations(MCAddrs) \cup Permutations(MCNames)
=============================================================================
