------------------------------- MODULE MCDesk -------------------------------
(* Two requests at a time on two trades, with a key they may share.        *)
EXTENDS Desk, TLC

CONSTANTS r1, r2, k1, A, B

(* A second BOOKED event, and a type the desk's own routes do not write.   *)
Posted == {<<"BOOKED", TRUE>>, <<"TERMINATED", TRUE>>}

Symmetry == Permutations(Requests) \union Permutations(Refs)
=============================================================================
