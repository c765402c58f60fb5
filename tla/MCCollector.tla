------------------------------ MODULE MCCollector ------------------------------
(* Small instances of Collector for TLC. *)
EXTENDS Collector, TLC

CONSTANTS c1, c2, m1

MCCounters == {c1, c2}
MCOthers == {m1}
OneCounter == {c1}
Symmetry == Permutations(MCCounters)
=============================================================================
