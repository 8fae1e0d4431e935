---------------------------- MODULE MCTradeCards ----------------------------
(* One person of the firm that books and sends, two of its counterparty.   *)
EXTENDS TradeCards

CONSTANTS r1, r2, ann, bo, cy, T1, T2

FirmOf == ann :> "A" @@ bo :> "B" @@ cy :> "B"

Symmetry == Permutations(Requests) \union Permutations(Terms) \union Permutations({bo, cy})
=============================================================================
