------------------------------ MODULE Amendment ------------------------------
(***************************************************************************)
(* Amending and terminating a trade whose confirmation is anchored         *)
(* (api/routes/chain.py): the request threads, the desk's row and events,  *)
(* and the relayer's transactions to the registry.                         *)
(*                                                                         *)
(* A handler derives the new hash from the booking, waits for the registry *)
(* to record it, and only then writes: it re-derives the hash, and commits *)
(* the terms, the event and the status together, or nothing.  Neither act  *)
(* has a row in pending_anchors, so nothing follows a transaction whose    *)
(* handler gave up.                                                        *)
(***************************************************************************)
EXTENDS Relayer

CONSTANTS Threads,          \* request threads of the API process
          NoOne,            \* nobody holds the send lock
          Uti,              \* the trades' identifiers do not change here
          Changes,          \* what a request may set: functions on Terms
          AddLeg,           \* what one more leg does to the terms
          Keys, NoKey,      \* idempotency keys
          MaxTxs,           \* bound: transactions sent
          MaxWrites,        \* bound: terms written by the routes without a guard
          MaxFaults         \* bound: crashes and failed commits

ASSUME AmendmentAssumption ==
  /\ NoOne \notin Threads /\ NoKey \notin Keys
  /\ Uti \in Utis /\ ZeroHash \notin TradeHashes
  /\ AddLeg \in [Terms -> Terms] /\ Changes \subseteq [Terms -> Terms]
  /\ MaxTxs \in Nat /\ MaxWrites \in Nat /\ MaxFaults \in Nat

VARIABLES booking,          \* trades and trade_legs: status and economic terms;
                            \* drifted is history: a route that asks nobody for a
                            \* signature wrote terms since they were last signed
          events,           \* trade_events that carry an attestation, in order
          foldable,         \* can the projection still fold the trade's events?
          keys,             \* idempotency keys in use
          writes,           \* unguarded writes of terms so far
          proc,             \* what each request thread holds
          sender,           \* who holds _send_lock
          faults

dbVars == <<booking, events, foldable, keys, writes>>
vars   == <<chainVars, dbVars, proc, sender, faults>>

NoHash == TradeHash("no trade", "", "")
Idle   == [pc |-> "idle", op |-> "none", on |-> NoHash[1], prev |-> NoHash, new |-> NoHash,
           changes |-> AddLeg, key |-> NoKey, tx |-> 0]

HashOf(t, terms) == TradeHash(t, Uti, terms)
Derived(t) == HashOf(t, booking[t].terms)    \* _canonical_for the booking as it is
Current(t) == events[t][Len(events[t])]      \* the newest attestation

(* The trades of this module have been confirmed: a root record each, with *)
(* the CONFIRMED event that attests it.                                    *)
Init ==
  /\ \E x \in [Trades -> Terms] :
       /\ booking = [t \in Trades |-> [status |-> "CONFIRMED", terms |-> x[t], drifted |-> FALSE]]
       /\ confirmations = [h \in TradeHashes \union {ZeroHash} |->
            IF \E t \in Trades : h = HashOf(t, x[t]) THEN Registry!Recorded(Own, Cp, ZeroHash)
                                                     ELSE Registry!NoRecord]
       /\ events = [t \in Trades |-> <<[type |-> "CONFIRMED", hash |-> HashOf(t, x[t]), prev |-> ZeroHash]>>]
  /\ txs = <<>>
  /\ foldable = [t \in Trades |-> TRUE]
  /\ keys = {} /\ writes = 0
  /\ proc = [p \in Threads |-> Idle]
  /\ sender = NoOne
  /\ faults = 0

Goto(p, x) == proc' = [proc EXCEPT ![p] = x]
To(p, pc)  == proc' = [proc EXCEPT ![p].pc = pc]
Finish(p)  == Goto(p, Idle)

(***************************************************************************)
(* The request: CONFIRMED, an anchored attestation that is not terminated, *)
(* and changes that alter a signed term.  The preview is rolled back.      *)
(***************************************************************************)
OpenRecord(t) == booking[t].status = "CONFIRMED" /\ Current(t).type # "TERMINATED"

(* Variant: the preview's savepoint is released instead of rolled back.    *)
AmendArrivesKept(p, t, f, k) ==
  LET new == HashOf(t, f[booking[t].terms]) IN
  /\ proc[p].pc = "idle"
  /\ OpenRecord(t)
  /\ new # Current(t).hash
  /\ Goto(p, [Idle EXCEPT !.pc = "build", !.op = "amend", !.on = t, !.prev = Current(t).hash,
                          !.new = new, !.changes = f, !.key = k])
  /\ booking' = [booking EXCEPT ![t].terms = f[@]]
  /\ UNCHANGED <<chainVars, events, foldable, keys, writes, sender, faults>>

AmendArrives(p, t, f, k) ==
  LET new == HashOf(t, f[booking[t].terms]) IN
  /\ proc[p].pc = "idle"
  /\ OpenRecord(t)
  /\ new # Current(t).hash
  /\ Goto(p, [Idle EXCEPT !.pc = "build", !.op = "amend", !.on = t, !.prev = Current(t).hash,
                          !.new = new, !.changes = f, !.key = k])
  /\ UNCHANGED <<chainVars, dbVars, sender, faults>>

TerminateArrives(p, t, k) ==
  LET h == Current(t).hash IN
  /\ proc[p].pc = "idle"
  /\ OpenRecord(t)
  /\ Goto(p, [Idle EXCEPT !.pc = "build", !.op = "terminate", !.on = t, !.prev = h,
                          !.new = h, !.key = k])
  /\ UNCHANGED <<chainVars, dbVars, sender, faults>>

(***************************************************************************)
(* The registry's side.  A node that builds a call estimates its gas, and  *)
(* so refuses one that would revert on the state it sees.                  *)
(***************************************************************************)
Accepts(c) == /\ confirmations[c.prev].status = "Confirmed"
              /\ c.op = "amend" => confirmations[c.new].status = "None"

MineCall(i) ==
  LET c == txs[i].call IN
  /\ txs[i].state \in {"pending", "dropped"}
  /\ InOrder(i)
  /\ \/ /\ IF c.op = "amend" THEN Registry!Amend(c.prev, c.new) ELSE Registry!Terminate(c.prev)
        /\ txs' = [txs EXCEPT ![i].state = "mined"]
     \/ /\ ~Accepts(c)
        /\ txs' = [txs EXCEPT ![i].state = "reverted"]
        /\ UNCHANGED confirmations

Chain == /\ \E i \in DOMAIN txs : MineCall(i) \/ Drop(i)
         /\ UNCHANGED <<dbVars, proc, sender, faults>>

(* Variant: amend() reconciles on the record it supersedes.                *)
RecordedPrev(x) ==
  IF x.op = "amend" THEN OnRegistry(x.prev) ELSE confirmations[x.prev].status = "Terminated"

(* The registry already holds what the call was to write.                  *)
Recorded(x) ==
  IF x.op = "amend" THEN OnRegistry(x.new) ELSE confirmations[x.prev].status = "Terminated"

(* Variant: the call carries a gas limit, so nothing is estimated.         *)
BuildBlind(p) ==
  /\ proc[p].pc = "build" /\ sender = NoOne
  /\ \/ To(p, "broadcast") /\ sender' = p
     \/ Finish(p) /\ UNCHANGED sender
  /\ UNCHANGED <<chainVars, dbVars, faults>>

(* One send at a time per process.  502 when the node refuses the call,    *)
(* cannot be reached, or asks for more than the fee ceiling.               *)
Build(p) ==
  /\ proc[p].pc = "build" /\ sender = NoOne
  /\ \/ Accepts(proc[p]) /\ To(p, "broadcast") /\ sender' = p
     \/ Finish(p) /\ UNCHANGED sender
  /\ UNCHANGED <<chainVars, dbVars, faults>>

(* Variant: the transaction followed is the previous one.                  *)
SubmitOffByOne(p) ==
  /\ proc[p].pc = "broadcast"
  /\ Len(txs) < MaxTxs
  /\ txs' = Append(txs, [call |-> [op |-> proc[p].op, prev |-> proc[p].prev, new |-> proc[p].new],
                         state |-> "pending"])
  /\ Goto(p, [proc[p] EXCEPT !.pc = "wait", !.tx = Len(txs)])
  /\ UNCHANGED <<confirmations, dbVars, sender, faults>>

Submit(p) ==
  /\ proc[p].pc = "broadcast"
  /\ Len(txs) < MaxTxs
  /\ txs' = Append(txs, [call |-> [op |-> proc[p].op, prev |-> proc[p].prev, new |-> proc[p].new],
                         state |-> "pending"])
  /\ Goto(p, [proc[p] EXCEPT !.pc = "wait", !.tx = Len(txs) + 1])
  /\ UNCHANGED <<confirmations, dbVars, sender, faults>>

(* The registry holds it: that is the anchor.  If it does not, or cannot   *)
(* be read, the request ends with a 502.                                   *)
Reconcile(p) ==
  /\ \/ Recorded(proc[p]) /\ To(p, "apply")
     \/ Finish(p)
  /\ sender' = NoOne
  /\ UNCHANGED <<chainVars, dbVars, faults>>

(* Another transaction took the nonce.  (Building once more with a fresh   *)
(* nonce leads back here.)                                                 *)
NonceUsed(p) == proc[p].pc = "broadcast" /\ Reconcile(p)

(* A successful receipt; when its block cannot be read, a 502 all the same.*)
Receipt(p) ==
  /\ proc[p].pc = "wait" /\ txs[proc[p].tx].state = "mined"
  /\ \/ To(p, "apply")
     \/ Finish(p)
  /\ sender' = NoOne
  /\ UNCHANGED <<chainVars, dbVars, faults>>

(* A revert, or no receipt for RECEIPT_TIMEOUT.                            *)
NoReceipt(p) == proc[p].pc = "wait" /\ Reconcile(p)

(***************************************************************************)
(* The commit: terms, event, status and key together.                      *)
(***************************************************************************)
Commit(p, type, row) ==
  LET x == proc[p] IN
  /\ booking' = [booking EXCEPT ![x.on] = row]
  /\ events' = [events EXCEPT ![x.on] =
       Append(@, [type |-> type, hash |-> x.new, prev |-> IF x.op = "amend" THEN x.prev ELSE ZeroHash])]
  /\ keys' = keys \union ({x.key} \ {NoKey})
  /\ Finish(p)
  /\ UNCHANGED <<chainVars, foldable, writes, sender, faults>>

Fresh(p) == proc[p].pc = "apply" /\ proc[p].key \notin keys /\ foldable[proc[p].on]

AmendCommits(p) ==
  LET t == proc[p].on
      y == proc[p].changes[booking[t].terms]
  IN  /\ Fresh(p) /\ proc[p].op = "amend"
      /\ HashOf(t, y) = proc[p].new
      /\ Commit(p, "AMENDED", [status |-> "CONFIRMED", terms |-> y, drifted |-> FALSE])

TerminateCommits(p) ==
  /\ Fresh(p) /\ proc[p].op = "terminate"
  /\ Commit(p, "TERMINATED", [booking[proc[p].on] EXCEPT !.status = "TERMINATED"])

(* The registry has the act and the desk does not write it: the key        *)
(* answers with an earlier result, the stream cannot be folded, or the     *)
(* booking is no longer the one that was signed.                           *)
Abandon(p) ==
  LET x == proc[p] IN
  /\ x.pc = "apply"
  /\ \/ x.key \in keys
     \/ ~foldable[x.on]
     \/ x.op = "amend" /\ HashOf(x.on, x.changes[booking[x.on].terms]) # x.new
  /\ Finish(p)
  /\ UNCHANGED <<chainVars, dbVars, sender, faults>>

(***************************************************************************)
(* What else writes the trade, and what fails.                             *)
(***************************************************************************)
WriteTerms(t, x) ==
  /\ writes < MaxWrites
  /\ x # booking[t].terms
  /\ booking' = [booking EXCEPT ![t].terms = x, ![t].drifted = TRUE]
  /\ writes' = writes + 1
  /\ UNCHANGED <<chainVars, events, foldable, keys, proc, sender, faults>>

(* POST /api/trade-legs: the one leg route without the lifecycle guard.    *)
CreateLeg(t) == WriteTerms(t, AddLeg[booking[t].terms])

(* PUT /api/trades sets trade.terms as they come; only a change of status  *)
(* is guarded.  The records of FX and crypto products are derived from it. *)
PutTerms(t) == \E f \in Changes : WriteTerms(t, f[booking[t].terms])

(* POST /api/trade-events: COMPRESSION is not refused on an anchored trade,*)
(* and no projection can fold it.                                          *)
AppendCompression(t) ==
  /\ foldable[t]
  /\ foldable' = [foldable EXCEPT ![t] = FALSE]
  /\ UNCHANGED <<chainVars, booking, events, keys, writes, proc, sender, faults>>

(* The database is lost, or the event's number was drawn twice.            *)
CommitFails(p) ==
  /\ proc[p].pc = "apply" /\ faults < MaxFaults
  /\ Finish(p)
  /\ faults' = faults + 1
  /\ UNCHANGED <<chainVars, dbVars, sender>>

Crash ==
  /\ faults < MaxFaults /\ \E p \in Threads : proc[p] # Idle
  /\ proc' = [p \in Threads |-> Idle]
  /\ sender' = NoOne
  /\ faults' = faults + 1
  /\ UNCHANGED <<chainVars, dbVars>>

Next ==
  \/ Chain \/ Crash
  \/ \E t \in Trades : CreateLeg(t) \/ PutTerms(t) \/ AppendCompression(t)
  \/ \E p \in Threads :
       \/ \E t \in Trades, k \in Keys \union {NoKey} :
            TerminateArrives(p, t, k) \/ \E f \in Changes : AmendArrives(p, t, f, k)
       \/ Build(p) \/ Submit(p) \/ NonceUsed(p) \/ Receipt(p) \/ NoReceipt(p)
       \/ AmendCommits(p) \/ TerminateCommits(p) \/ Abandon(p) \/ CommitFails(p)

Spec == Init /\ [][Next]_vars

----------------------------------------------------------------------------
Calls   == [op : {"amend", "terminate"}, prev : TradeHashes, new : TradeHashes]
Event   == [type : {"CONFIRMED", "AMENDED", "TERMINATED"}, hash : TradeHashes,
            prev : TradeHashes \union {ZeroHash}]
Request == [pc : {"build", "broadcast", "wait", "apply"}, op : {"amend", "terminate"}, on : Trades,
            prev : TradeHashes, new : TradeHashes, changes : Changes \union {AddLeg},
            key : Keys \union {NoKey}, tx : 0..MaxTxs]

(* Tables, transactions and threads are well formed: a request is about    *)
(* hashes of its own trade and follows a transaction that was sent, and    *)
(* exactly a thread between its build and its receipt holds the send lock. *)
TypeOK ==
  /\ confirmations \in [TradeHashes \union {ZeroHash} -> Registry!Confirmation]
  /\ txs \in Seq([call : Calls, state : TxState]) /\ Len(txs) <= MaxTxs
  /\ booking \in [Trades -> [status : {"CONFIRMED", "TERMINATED"}, terms : Terms, drifted : BOOLEAN]]
  /\ events \in [Trades -> Seq(Event)]
  /\ \A t \in Trades : Len(events[t]) > 0 /\ \A i \in DOMAIN events[t] : events[t][i].hash[1] = t
  /\ foldable \in [Trades -> BOOLEAN] /\ keys \subseteq Keys /\ writes \in 0..MaxWrites
  /\ proc \in [Threads -> {Idle} \union Request]
  /\ \A p \in Threads : proc[p] # Idle => proc[p].on = proc[p].prev[1] /\ proc[p].on = proc[p].new[1]
  /\ \A p \in Threads : proc[p].pc = "wait" => proc[p].tx \in DOMAIN txs
  /\ \A p \in Threads : proc[p].pc \in {"broadcast", "wait"} <=> sender = p
  /\ sender \in Threads \union {NoOne} /\ faults \in 0..MaxFaults

(* An act is a record with its predecessor, or the end of a record.        *)
Act(hash, prev, end) == [hash |-> hash, prev |-> prev, end |-> end]
Signed(t) ==
  {Act(h, confirmations[h].prevHash, FALSE) : h \in {g \in TradeHashes : g[1] = t /\ OnRegistry(g)}}
    \union {Act(h, ZeroHash, TRUE) : h \in {g \in TradeHashes : g[1] = t /\ confirmations[g].status = "Terminated"}}
Shown(t) == {Act(events[t][i].hash, events[t][i].prev, events[t][i].type = "TERMINATED") : i \in DOMAIN events[t]}

AllActs == [hash : TradeHashes, prev : TradeHashes \union {ZeroHash}, end : BOOLEAN]
Abstract == INSTANCE SignedRecord WITH Acts <- AllActs, Closing <- {a \in AllActs : a.end},
              signed <- [t \in Trades |-> Signed(t)], shown <- [t \in Trades |-> Shown(t)]

(* Amending and terminating keep the registry and the desk in step,        *)
(* whatever requests overlap, time out, are retried or crash: nothing is   *)
(* signed on a record the desk has left behind, and the desk shows only    *)
(* what the registry holds, predecessor included.                          *)
InStep == Abstract!Spec

(* No act is written twice: not by the retry of a request that gave up     *)
(* while its transaction was under way, nor by two that ask for the same.  *)
OneEventEach == \A t \in Trades : \A i, j \in DOMAIN events[t] :
                  events[t][i].hash = events[t][j].hash /\ events[t][i].type = events[t][j].type => i = j

(* The row follows its newest attestation: a terminated trade, and no      *)
(* other, is TERMINATED, and the booking hashes to what both parties       *)
(* signed, unless POST of a leg or PUT of terms wrote it since: no act,    *)
(* whether it succeeds, fails or overlaps another, leaves terms behind     *)
(* that were not signed, and one that is shown ends the drift.             *)
RowIsAttested ==
  \A t \in Trades :
    /\ booking[t].status = "TERMINATED" <=> Current(t).type = "TERMINATED"
    /\ ~booking[t].drifted => Derived(t) = Current(t).hash
=============================================================================
