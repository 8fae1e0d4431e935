---------------------------- MODULE MCAmendment ----------------------------
(* One trade with three rates it can be amended to and one leg more; two   *)
(* requests at a time, which may share a key.                              *)
EXTENDS Amendment, TLC

CONSTANTS p1, p2, k1, t1, Rates

MCTerms   == Rates \X {1, 2}
MCChanges == {[x \in MCTerms |-> <<rate, x[2]>>] : rate \in Rates}
MCAddLeg  == [x \in MCTerms |-> <<x[1], 2>>]

Symmetry == Permutations(Threads) \union Permutations(Rates)
=============================================================================
