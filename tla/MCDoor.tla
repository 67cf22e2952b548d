------------------------------- MODULE MCDoor -------------------------------
(* One entry (entries do not share state), two events, three requests at the *)
(* door: two that race and one that arrives after or in between.             *)
EXTENDS Door, TLC

CONSTANTS e1, v1, v2, d1, d2, d3

MCEntry  == {e1}
MCEvent  == {v1, v2}
MCDevice == {d1, d2, d3}
Symmetry == Permutations(MCEvent) \cup Permutations(MCDevice)
=============================================================================
