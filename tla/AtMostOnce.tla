----------------------------- MODULE AtMostOnce -----------------------------
(***************************************************************************)
(* What an Idempotency-Key promises its caller: whatever is sent under a   *)
(* key takes effect at most once, and everyone who is told of a result is  *)
(* told of that one.  A request may be refused at any time, which changes  *)
(* nothing.                                                                *)
(***************************************************************************)
CONSTANTS Keys, Results

VARIABLES done,     \* the effects of each key
          told      \* the results callers were told of

Init == /\ done = [k \in Keys |-> {}]
        /\ told = [k \in Keys |-> {}]

Execute(k, r) == /\ done[k] = {}
                 /\ done' = [done EXCEPT ![k] = {r}]
                 /\ told' = [told EXCEPT ![k] = @ \union {r}]

Replay(k, r) == /\ r \in done[k]
                /\ told' = [told EXCEPT ![k] = @ \union {r}]
                /\ UNCHANGED done

Next == \E k \in Keys, r \in Results : Execute(k, r) \/ Replay(k, r)

Spec == Init /\ [][Next]_<<done, told>>
=============================================================================
