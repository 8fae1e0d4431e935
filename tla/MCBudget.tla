------------------------------ MODULE MCBudget ------------------------------
(* Two requests, in two processes; a user of a firm and one without.  The  *)
(* caps are apart so that each of them is the one that refuses somewhere.   *)
EXTENDS RelayerBudget, TLC

CONSTANTS r1, r2, P, Q, ann, eve, F

MCProcessOf == r1 :> P @@ r2 :> Q
MCFirmOf    == ann :> F @@ eve :> NoFirm
MCCaps      == [user |-> 2, firm |-> 1, global |-> 3]

(* The requests are alike if their processes are exchanged with them.      *)
Swapped  == r1 :> r2 @@ r2 :> r1 @@ P :> Q @@ Q :> P
Same     == [x \in {r1, r2, P, Q} |-> x]
Symmetry == {Same, Swapped}
=============================================================================
