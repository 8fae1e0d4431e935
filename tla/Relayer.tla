------------------------------- MODULE Relayer -------------------------------
(***************************************************************************)
(* What the desk sees of the chain: the registry's records, and the        *)
(* transactions its relayer account has sent (backend/chain/attestation).  *)
(* The registry itself is module Registry; here it is instantiated with    *)
(* the hashes of the desk's trades and the two signing parties, whose      *)
(* signatures are checked before a transaction is built.                   *)
(*                                                                         *)
(* A transaction waits in the node's pool until a block includes it        *)
(* (mined, or reverted when the registry's guard fails) or the node        *)
(* forgets it (dropped).  A dropped transaction may still be included: a   *)
(* peer can hold it.  Inclusion follows the order of sending, since one    *)
(* account's nonces are consecutive; the nonce of a dropped transaction is *)
(* taken by the next send, after whose inclusion it is dead.               *)
(***************************************************************************)
EXTENDS Naturals, Sequences, FiniteSets

CONSTANTS Trades,        \* the desk's trades
          Utis,          \* unique trade identifiers that may be issued
          Terms,         \* economic terms a booking can hold
          Own, Cp,       \* the signing addresses of the two parties
          ZeroHash, ZeroAddress

VARIABLES confirmations, \* the registry's records
          txs            \* transactions sent by the relayer, in order

chainVars == <<confirmations, txs>>

(* The canonical record is keyed by the trade, its UTI and its terms; its  *)
(* keccak hash is injective on them.                                       *)
TradeHash(t, uti, terms) == <<t, uti, terms>>

TradeHashes == {TradeHash(t, u, x) : t \in Trades, u \in Utis, x \in Terms}

Messages == [type : {"TradeConfirmation", "TradeAmendment", "TradeTermination"},
             prev : TradeHashes \union {ZeroHash}, hash : TradeHashes \union {ZeroHash},
             counterparty : {Own, Cp}]

Registry == INSTANCE Registry WITH Hashes <- TradeHashes, Addresses <- {Own, Cp},
                                   Signed <- {Own, Cp} \X Messages

TxState == {"pending", "dropped", "mined", "reverted"}

Tx == [hash : TradeHashes, state : TxState]

(* get(trade_hash) returns a record whose status is not None.              *)
OnRegistry(h) == confirmations[h].status # "None"

ChainInit == /\ Registry!Deployed
             /\ txs = << >>

(* The node acknowledges a confirm(): the transaction enters the pool.     *)
Broadcast(h) == txs' = Append(txs, [hash |-> h, state |-> "pending"])

InOrder(i) == /\ \A j \in 1..(i - 1) : txs[j].state # "pending"
              /\ \A j \in (i + 1)..Len(txs) : txs[j].state \notin {"mined", "reverted"}

(* A block includes transaction i: the call succeeds or reverts.           *)
Mine(i) ==
  /\ txs[i].state \in {"pending", "dropped"}
  /\ InOrder(i)
  /\ \/ /\ Registry!Confirm(txs[i].hash, Own, Cp)
        /\ txs' = [txs EXCEPT ![i].state = "mined"]
     \/ /\ ~Registry!ConfirmAccepted(txs[i].hash, Own, Cp)
        /\ txs' = [txs EXCEPT ![i].state = "reverted"]
        /\ UNCHANGED confirmations

(* The node no longer knows transaction i.                                 *)
Drop(i) ==
  /\ txs[i].state = "pending"
  /\ txs' = [txs EXCEPT ![i].state = "dropped"]
  /\ UNCHANGED confirmations

(* tx_state(): a receipt first, then whether the node still holds it.      *)
NodeState(i) == IF txs[i].state = "dropped" THEN "unknown" ELSE txs[i].state
=============================================================================
