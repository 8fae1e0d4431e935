---------------------------- MODULE SignedRecord ----------------------------
(***************************************************************************)
(* What amending and terminating a signed trade promises, without threads, *)
(* transactions or tables.  Both firms sign acts one after the other, on   *)
(* the record the desk shows: while the desk has not shown an act, nothing *)
(* further is signed, and a termination is the last one.  The desk shows   *)
(* exactly what was signed; it may never get to the last act.              *)
(***************************************************************************)
CONSTANTS Trades,
          Acts,             \* what can be signed: a record, or an end
          Closing           \* the acts that end a trade

VARIABLES signed,           \* the acts of a trade that the registry holds
          shown             \* the acts of a trade that the desk attests

Init == /\ signed \in [Trades -> {{a} : a \in Acts \ Closing}]
        /\ shown = signed

Sign(t) ==
  /\ UNCHANGED shown
  /\ shown[t] = signed[t]
  /\ signed[t] \intersect Closing = {}
  /\ \E a \in Acts \ signed[t] : signed' = [signed EXCEPT ![t] = @ \union {a}]

Show(t) ==
  /\ UNCHANGED signed
  /\ shown' = [shown EXCEPT ![t] = signed[t]]

Next == \E t \in Trades : Show(t) \/ Sign(t)

Spec == Init /\ [][Next]_<<signed, shown>>
=============================================================================
