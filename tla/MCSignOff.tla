----------------------------- MODULE MCSignOff -----------------------------
(* Two sessions on a book of one trade valued on one input.                *)
EXTENDS SignOff

CONSTANTS s1, s2, t1, c1

OneInput == [t \in Trades |-> {c1}]

Symmetry == Permutations(Sessions)
=============================================================================
