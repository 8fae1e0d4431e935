----------------------------- MODULE ConfirmOnce -----------------------------
(***************************************************************************)
(* What confirming on the chain promises, without threads, transactions or *)
(* tables: a trade is booked, at some point the registry records it, and   *)
(* afterwards - once, and for good - the desk's trade becomes CONFIRMED    *)
(* with one CONFIRMED event.                                               *)
(***************************************************************************)
EXTENDS Naturals

CONSTANT Trades

VARIABLES status,     \* trades.status
          recorded,   \* the registry holds a record of the trade
          confirms    \* CONFIRMED events written

Init == /\ status = [t \in Trades |-> "PENDING"]
        /\ recorded = [t \in Trades |-> FALSE]
        /\ confirms = [t \in Trades |-> 0]

Record(t) == /\ ~recorded[t]
             /\ recorded' = [recorded EXCEPT ![t] = TRUE]
             /\ UNCHANGED <<status, confirms>>

Confirm(t) == /\ status[t] = "PENDING" /\ recorded[t]
              /\ status' = [status EXCEPT ![t] = "CONFIRMED"]
              /\ confirms' = [confirms EXCEPT ![t] = @ + 1]
              /\ UNCHANGED recorded

Spec == /\ Init
        /\ [][\E t \in Trades : Record(t) \/ Confirm(t)]_<<status, recorded, confirms>>
=============================================================================
