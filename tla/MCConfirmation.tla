---------------------------- MODULE MCConfirmation ----------------------------
(* Instances of Confirmation; the configurations choose the routes used.   *)
EXTENDS Confirmation, TLC

CONSTANTS u1, r1, r2

Booked     == {u1}          \* the trade was booked with its UTI
Unissued   == {NoUti}       \* the UTI is issued at the first signature
Symmetry   == Permutations(Requests)
=============================================================================
