--------------------------- MODULE AmendmentProofs ---------------------------
(* Theorems about amending and terminating, for every set of trades, terms,*)
(* changes, threads and keys, and any number of transactions, unguarded    *)
(* writes and faults.                                                      *)
EXTENDS Amendment, SequenceTheorems, TLAPS

(***************************************************************************)
(* Hashes, events and the newest attestation                               *)
(***************************************************************************)
LEMMA ElementIn ==
  ASSUME NEW S, NEW seq \in Seq(S), NEW i \in DOMAIN seq
  PROVE  seq[i] \in S /\ i \in 1..Len(seq)
OBVIOUS

LEMMA HashFacts ==
  /\ \A t, x : HashOf(t, x)[1] = t
  /\ \A t \in Trades, x \in Terms : HashOf(t, x) \in TradeHashes
  /\ \A h \in TradeHashes : h[1] \in Trades /\ h # ZeroHash
BY AmendmentAssumption DEF HashOf, TradeHash, TradeHashes

LEMMA CurrentType ==
  ASSUME TypeOK, NEW t \in Trades
  PROVE  /\ events[t] \in Seq(Event) /\ Len(events[t]) \in DOMAIN events[t]
         /\ DOMAIN events[t] = 1..Len(events[t]) /\ Len(events[t]) \in Nat
         /\ Current(t) \in Event /\ Current(t).hash[1] = t
<1>1. events[t] \in Seq(Event) /\ Len(events[t]) > 0 /\ \A i \in DOMAIN events[t] : events[t][i].hash[1] = t
  BY DEF TypeOK
<1>2. Len(events[t]) \in Nat /\ DOMAIN events[t] = 1..Len(events[t])
  BY <1>1
<1>3. Len(events[t]) \in DOMAIN events[t]
  BY <1>1, <1>2
<1>4. QED
  BY <1>1, <1>2, <1>3, ElementOfSeq DEF Current

(***************************************************************************)
(* Type correctness.  TypeOK falls into what is stored and what is held by *)
(* the threads.                                                            *)
(***************************************************************************)
ChainType ==
  /\ confirmations \in [TradeHashes \union {ZeroHash} -> Registry!Confirmation]
  /\ txs \in Seq([call : Calls, state : TxState]) /\ Len(txs) <= MaxTxs
RowType == [status : {"CONFIRMED", "TERMINATED"}, terms : Terms, drifted : BOOLEAN]
DeskType ==
  /\ booking \in [Trades -> RowType]
  /\ events \in [Trades -> Seq(Event)]
  /\ \A t \in Trades : Len(events[t]) > 0 /\ \A i \in DOMAIN events[t] : events[t][i].hash[1] = t
  /\ foldable \in [Trades -> BOOLEAN] /\ keys \subseteq Keys /\ writes \in 0..MaxWrites
ThreadType ==
  /\ proc \in [Threads -> {Idle} \union Request]
  /\ \A p \in Threads : proc[p] # Idle => proc[p].on = proc[p].prev[1] /\ proc[p].on = proc[p].new[1]
  /\ \A p \in Threads : proc[p].pc = "wait" => proc[p].tx \in DOMAIN txs
  /\ \A p \in Threads : proc[p].pc \in {"broadcast", "wait"} <=> sender = p
  /\ sender \in Threads \union {NoOne} /\ faults \in 0..MaxFaults

LEMMA TypeStep == ChainType' /\ DeskType' /\ ThreadType' => TypeOK'
BY DEF TypeOK, ChainType, DeskType, ThreadType, RowType

Shape == [pc : {"idle", "build", "broadcast", "wait", "apply"}, op : {"none", "amend", "terminate"},
          on : Trades \union {NoHash[1]}, prev : TradeHashes \union {NoHash},
          new : TradeHashes \union {NoHash}, changes : Changes \union {AddLeg},
          key : Keys \union {NoKey}, tx : 0..MaxTxs]

LEMMA IdleShape == Idle \in Shape /\ Idle.changes = AddLeg /\ Idle.tx = 0
BY AmendmentAssumption DEF Idle, Shape

LEMMA ShapedRequest ==
  ASSUME NEW y \in Shape, y.pc \in {"build", "broadcast", "wait", "apply"}, y.op \in {"amend", "terminate"},
         y.on \in Trades, y.prev \in TradeHashes, y.new \in TradeHashes
  PROVE  y \in Request
BY DEF Shape, Request

LEMMA IdleFacts == Idle.pc = "idle" /\ Idle \notin Request
<1>1. Idle.pc = "idle"
  BY DEF Idle
<1>2. \A r \in Request : r.pc # "idle"
  BY DEF Request
<1>3. QED
  BY <1>1, <1>2

(* One thread moves, and the send lock with it or not at all.              *)
LEMMA OneThread ==
  ASSUME TypeOK, NEW p \in Threads, NEW y \in {Idle} \union Request,
         proc' = [proc EXCEPT ![p] = y], faults' \in 0..MaxFaults, DOMAIN txs \subseteq DOMAIN txs',
         y # Idle => y.on = y.prev[1] /\ y.on = y.new[1],
         y.pc = "wait" => y.tx \in DOMAIN txs',
         y.pc \in {"broadcast", "wait"} <=> sender' = p,
         sender' = sender \/ (sender' \in {p, NoOne} /\ sender \in {p, NoOne})
  PROVE  ThreadType' /\ proc'[p] = y /\ \A q \in Threads \ {p} : proc'[q] = proc[q]
<1>1. proc \in [Threads -> {Idle} \union Request] /\ sender \in Threads \union {NoOne}
  BY DEF TypeOK
<1>2. proc' \in [Threads -> {Idle} \union Request] /\ proc'[p] = y /\ \A q \in Threads \ {p} : proc'[q] = proc[q]
  BY <1>1
<1>3. sender' \in Threads \union {NoOne}
  BY <1>1
<1>4. \A q \in Threads \ {p} : sender' = q <=> sender = q
  BY AmendmentAssumption
<1>5. \A q \in Threads : proc'[q] # Idle => proc'[q].on = proc'[q].prev[1] /\ proc'[q].on = proc'[q].new[1]
  BY <1>2 DEF TypeOK
<1>6. \A q \in Threads : proc'[q].pc = "wait" => proc'[q].tx \in DOMAIN txs'
  BY <1>2 DEF TypeOK
<1>7. \A q \in Threads : proc'[q].pc \in {"broadcast", "wait"} <=> sender' = q
  BY <1>2, <1>4 DEF TypeOK
<1>8. QED
  BY <1>2, <1>3, <1>5, <1>6, <1>7 DEF ThreadType

LEMMA ThreadIs ==
  ASSUME TypeOK, NEW p \in Threads, proc[p].pc # "idle"
  PROVE  /\ proc[p] \in Request /\ proc[p] # Idle
         /\ proc[p].on = proc[p].prev[1] /\ proc[p].on = proc[p].new[1]
         /\ proc[p].pc = "wait" => proc[p].tx \in DOMAIN txs
         /\ proc[p].pc \in {"broadcast", "wait"} <=> sender = p
BY IdleFacts DEF TypeOK

(* A request that passes the checks: built on the newest attestation, with *)
(* a hash of its own if it amends.                                         *)
Requested(p, t, y) ==
  /\ proc[p].pc = "idle" /\ proc' = [proc EXCEPT ![p] = y]
  /\ y.pc = "build" /\ y.on = t /\ y.prev = Current(t).hash /\ y.new[1] = t
  /\ y.op = "amend" <=> y.new # y.prev
  /\ UNCHANGED <<chainVars, dbVars, sender, faults>>

LEMMA Arrivals ==
  ASSUME TypeOK, NEW p \in Threads, NEW t \in Trades, NEW k \in Keys \union {NoKey},
         TerminateArrives(p, t, k) \/ \E f \in Changes : AmendArrives(p, t, f, k)
  PROVE  \E y \in Request : Requested(p, t, y)
<1>1. proc[p].pc = "idle" /\ UNCHANGED <<chainVars, dbVars, sender, faults>>
  BY DEF TerminateArrives, AmendArrives
<1>2. Current(t).hash \in TradeHashes /\ Current(t).hash[1] = t
  BY CurrentType DEF Event
<1>3. CASE TerminateArrives(p, t, k)
  <2>. DEFINE h == Current(t).hash
              y == [Idle EXCEPT !.pc = "build", !.op = "terminate", !.on = t, !.prev = h, !.new = h, !.key = k]
  <2>1. y \in Shape
    BY <1>2, IdleShape DEF Shape
  <2>2. y.pc = "build" /\ y.op = "terminate" /\ y.on = t /\ y.prev = h /\ y.new = h
    BY IdleShape DEF Shape
  <2>3. proc' = [proc EXCEPT ![p] = y]
    BY <1>3 DEF TerminateArrives, Goto
  <2>. HIDE DEF y
  <2>4. y \in Request
    BY <1>2, <2>1, <2>2, ShapedRequest
  <2>5. Requested(p, t, y)
    BY <1>1, <1>2, <2>2, <2>3 DEF Requested
  <2>6. QED
    BY <2>4, <2>5
<1>4. ASSUME NEW f \in Changes, AmendArrives(p, t, f, k)
      PROVE  \E y \in Request : Requested(p, t, y)
  <2>. DEFINE h == Current(t).hash
              new == HashOf(t, f[booking[t].terms])
              y == [Idle EXCEPT !.pc = "build", !.op = "amend", !.on = t, !.prev = h, !.new = new,
                                !.changes = f, !.key = k]
  <2>1. new \in TradeHashes /\ new[1] = t
    BY HashFacts, AmendmentAssumption DEF TypeOK
  <2>2. new # h /\ proc' = [proc EXCEPT ![p] = y]
    BY <1>4 DEF AmendArrives, Goto
  <2>. HIDE DEF new
  <2>3. y \in Shape
    BY <1>2, <2>1, IdleShape DEF Shape
  <2>4. y.pc = "build" /\ y.op = "amend" /\ y.on = t /\ y.prev = h /\ y.new = new
    BY IdleShape DEF Shape
  <2>. HIDE DEF y
  <2>5. y \in Request
    BY <1>2, <2>1, <2>3, <2>4, ShapedRequest
  <2>6. Requested(p, t, y)
    BY <1>1, <2>1, <2>2, <2>4 DEF Requested
  <2>7. QED
    BY <2>5, <2>6
<1>5. QED
  BY <1>3, <1>4

LEMMA ArrivesType ==
  ASSUME TypeOK, NEW p \in Threads, NEW t \in Trades, NEW y \in Request, Requested(p, t, y)
  PROVE  TypeOK'
<1>1. /\ UNCHANGED <<chainVars, dbVars, sender, faults>> /\ proc' = [proc EXCEPT ![p] = y]
      /\ proc[p].pc = "idle" /\ y.pc = "build" /\ y.on = t /\ y.prev = Current(t).hash /\ y.new[1] = t
  BY DEF Requested
<1>2. ChainType' /\ DeskType' /\ faults' \in 0..MaxFaults /\ sender' = sender /\ DOMAIN txs \subseteq DOMAIN txs'
  BY <1>1 DEF TypeOK, ChainType, DeskType, chainVars, dbVars, RowType
<1>3. sender # p
  BY <1>1 DEF TypeOK
<1>4. y.prev[1] = t
  BY <1>1, CurrentType
<1>5. y.pc # "wait" /\ ~(y.pc \in {"broadcast", "wait"})
  BY <1>1
<1>6. ThreadType'
  BY <1>1, <1>2, <1>3, <1>4, <1>5, OneThread
<1>7. QED
  BY <1>2, <1>6, TypeStep

(* What the relayer's part of a request does to its thread.                *)
SendStep(p) == Build(p) \/ Submit(p) \/ NonceUsed(p) \/ Receipt(p) \/ NoReceipt(p)

LEMMA SendType ==
  ASSUME TypeOK, NEW p \in Threads, SendStep(p)
  PROVE  TypeOK'
<1>0. proc[p].pc # "idle" /\ UNCHANGED <<confirmations, dbVars, faults>>
  BY DEF SendStep, Build, Submit, NonceUsed, Receipt, NoReceipt, Reconcile, chainVars
<1>1. /\ proc[p] \in Request /\ proc[p] # Idle
      /\ proc[p].on = proc[p].prev[1] /\ proc[p].on = proc[p].new[1]
      /\ proc[p].pc \in {"broadcast", "wait"} <=> sender = p
  BY <1>0, ThreadIs
<1>2. DeskType' /\ faults' \in 0..MaxFaults
  BY <1>0 DEF TypeOK, DeskType, dbVars, RowType
<1>3. ASSUME NEW y \in {Idle} \union Request, proc' = [proc EXCEPT ![p] = y],
             y # Idle => y.on = y.prev[1] /\ y.on = y.new[1], y.pc # "wait",
             y.pc = "broadcast" <=> sender' = p,
             sender' = sender \/ (sender' \in {p, NoOne} /\ sender \in {p, NoOne}),
             txs' = txs
      PROVE  TypeOK'
  <2>1. ChainType'
    BY <1>0, <1>3 DEF TypeOK, ChainType
  <2>2. y.pc \in {"broadcast", "wait"} <=> sender' = p
    BY <1>3
  <2>3. ThreadType'
    BY <1>2, <1>3, <2>2, OneThread
  <2>4. QED
    BY <1>2, <2>1, <2>3, TypeStep
<1>4. CASE To(p, "broadcast") /\ sender' = p /\ sender = NoOne /\ txs' = txs
  <2>. DEFINE y == [proc[p] EXCEPT !.pc = "broadcast"]
  <2>1. y \in Request /\ y.pc = "broadcast" /\ y.on = proc[p].on /\ y.prev = proc[p].prev /\ y.new = proc[p].new
    BY <1>1 DEF Request
  <2>2. proc' = [proc EXCEPT ![p] = y]
    BY <1>4 DEF To, TypeOK
  <2>. HIDE DEF y
  <2>3. QED
    BY <1>1, <1>3, <1>4, <2>1, <2>2
<1>5. CASE To(p, "apply") /\ sender' = NoOne /\ sender = p /\ txs' = txs
  <2>. DEFINE y == [proc[p] EXCEPT !.pc = "apply"]
  <2>1. y \in Request /\ y.pc = "apply" /\ y.on = proc[p].on /\ y.prev = proc[p].prev /\ y.new = proc[p].new
    BY <1>1 DEF Request
  <2>2. proc' = [proc EXCEPT ![p] = y]
    BY <1>5 DEF To, TypeOK
  <2>. HIDE DEF y
  <2>3. QED
    BY <1>1, <1>3, <1>5, <2>1, <2>2, AmendmentAssumption
<1>6. CASE Finish(p) /\ sender' = NoOne /\ sender \in {p, NoOne} /\ txs' = txs
  BY <1>3, <1>6, IdleFacts, AmendmentAssumption DEF Finish, Goto
<1>7. CASE Submit(p)
  <2>. DEFINE y == [proc[p] EXCEPT !.pc = "wait", !.tx = Len(txs) + 1]
              z == [call |-> [op |-> proc[p].op, prev |-> proc[p].prev, new |-> proc[p].new],
                    state |-> "pending"]
  <2>1. z \in [call : Calls, state : TxState]
    BY <1>1 DEF Request, Calls, TxState
  <2>2. txs' = Append(txs, z) /\ Len(txs) < MaxTxs /\ proc' = [proc EXCEPT ![p] = y] /\ sender' = sender
        /\ proc[p].pc = "broadcast"
    BY <1>7 DEF Submit, Goto
  <2>3. txs \in Seq([call : Calls, state : TxState])
    BY DEF TypeOK
  <2>. HIDE DEF z
  <2>4. /\ txs' \in Seq([call : Calls, state : TxState]) /\ Len(txs') = Len(txs) + 1
        /\ Len(txs) + 1 \in DOMAIN txs' /\ DOMAIN txs \subseteq DOMAIN txs' /\ Len(txs) \in Nat
    BY <2>1, <2>2, <2>3, AppendProperties
  <2>5. ChainType'
    BY <1>0, <2>2, <2>4, AmendmentAssumption DEF TypeOK, ChainType
  <2>6. Len(txs) + 1 \in 0..MaxTxs
    BY <2>2, <2>4, AmendmentAssumption
  <2>7. y \in Request /\ y.pc = "wait" /\ y.on = proc[p].on /\ y.prev = proc[p].prev /\ y.new = proc[p].new
        /\ y.tx = Len(txs) + 1
    BY <1>1, <2>6 DEF Request
  <2>. HIDE DEF y
  <2>8. QED
    <3>1. y.on = y.prev[1] /\ y.on = y.new[1] /\ y.tx \in DOMAIN txs'
          /\ (y.pc \in {"broadcast", "wait"} <=> sender' = p)
      BY <1>1, <2>2, <2>4, <2>7
    <3>2. ThreadType'
      BY <1>2, <2>2, <2>4, <2>7, <3>1, OneThread
    <3>3. QED
      BY <1>2, <2>5, <3>2, TypeStep
<1>8. \/ To(p, "broadcast") /\ sender' = p /\ sender = NoOne /\ txs' = txs
      \/ To(p, "apply") /\ sender' = NoOne /\ sender = p /\ txs' = txs
      \/ Finish(p) /\ sender' = NoOne /\ sender \in {p, NoOne} /\ txs' = txs
      \/ Submit(p)
  BY <1>1 DEF SendStep, Build, NonceUsed, Receipt, NoReceipt, Reconcile, chainVars
<1>9. QED
  BY <1>4, <1>5, <1>6, <1>7, <1>8

(***************************************************************************)
(* The registry's records under a call the registry accepts                *)
(***************************************************************************)
Conf == Registry!Confirmation

LEMMA AmendRecords ==
  ASSUME TypeOK, NEW prev \in TradeHashes, NEW new \in TradeHashes, Registry!Amend(prev, new)
  PROVE  /\ confirmations' \in [TradeHashes \union {ZeroHash} -> Conf]
         /\ confirmations[prev].status = "Confirmed" /\ confirmations[new].status = "None" /\ new # prev
         /\ confirmations'[prev].status = "Superseded"
         /\ confirmations'[prev].prevHash = confirmations[prev].prevHash
         /\ confirmations'[new].status = "Confirmed" /\ confirmations'[new].prevHash = prev
         /\ \A h \in TradeHashes \ {prev, new} : confirmations'[h] = confirmations[h]
<1>. DEFINE c == confirmations[prev]
            r == Registry!Recorded(c.partyA, c.partyB, prev)
            B == TradeHashes \union {ZeroHash}
<1>1. confirmations \in [B -> Conf] /\ c \in Conf
  BY DEF TypeOK, Conf
<1>2. /\ c.status = "Confirmed" /\ confirmations[new].status = "None"
      /\ confirmations' = [confirmations EXCEPT ![prev].status = "Superseded", ![new] = r]
  BY DEF Registry!Amend
<1>3. new # prev
  BY <1>2
<1>4. r \in Conf /\ r.status = "Confirmed" /\ r.prevHash = prev
  BY <1>1 DEF Conf, Registry!Confirmation, Registry!Recorded, Registry!Bytes32, Registry!Status
<1>. DEFINE d == [c EXCEPT !.status = "Superseded"]
<1>5. d \in Conf /\ d.status = "Superseded" /\ d.prevHash = c.prevHash
  BY <1>1 DEF Conf, Registry!Confirmation, Registry!Status
<1>6. confirmations' = [[confirmations EXCEPT ![prev] = d] EXCEPT ![new] = r]
  BY <1>1, <1>2
<1>. HIDE DEF d, r
<1>7. confirmations' \in [B -> Conf] /\ confirmations'[prev] = d /\ confirmations'[new] = r
      /\ \A h \in TradeHashes \ {prev, new} : confirmations'[h] = confirmations[h]
  BY <1>1, <1>3, <1>4, <1>5, <1>6
<1>8. QED
  BY <1>2, <1>3, <1>4, <1>5, <1>7

LEMMA TerminateRecords ==
  ASSUME TypeOK, NEW prev \in TradeHashes, Registry!Terminate(prev)
  PROVE  /\ confirmations' \in [TradeHashes \union {ZeroHash} -> Conf]
         /\ confirmations[prev].status = "Confirmed"
         /\ confirmations'[prev].status = "Terminated"
         /\ confirmations'[prev].prevHash = confirmations[prev].prevHash
         /\ \A h \in TradeHashes \ {prev} : confirmations'[h] = confirmations[h]
<1>. DEFINE c == confirmations[prev]
            d == [c EXCEPT !.status = "Terminated"]
            B == TradeHashes \union {ZeroHash}
<1>1. confirmations \in [B -> Conf] /\ c \in Conf
  BY DEF TypeOK, Conf
<1>2. c.status = "Confirmed" /\ confirmations' = [confirmations EXCEPT ![prev].status = "Terminated"]
  BY DEF Registry!Terminate
<1>3. d \in Conf /\ d.status = "Terminated" /\ d.prevHash = c.prevHash
  BY <1>1 DEF Conf, Registry!Confirmation, Registry!Status
<1>4. confirmations' = [confirmations EXCEPT ![prev] = d]
  BY <1>1, <1>2
<1>. HIDE DEF d
<1>5. QED
  BY <1>1, <1>2, <1>3, <1>4

(* What a step of the chain does: to one transaction, and to the records   *)
(* when the transaction is accepted.                                       *)
LEMMA ChainSteps ==
  ASSUME TypeOK, Chain
  PROVE  /\ UNCHANGED <<dbVars, proc, sender, faults>>
         /\ txs' \in Seq([call : Calls, state : TxState]) /\ Len(txs') = Len(txs) /\ DOMAIN txs' = DOMAIN txs
         /\ \A i \in DOMAIN txs : txs'[i].call = txs[i].call
         /\ \/ confirmations' = confirmations /\ \A i \in DOMAIN txs : txs'[i].state = "mined" => txs[i].state = "mined"
            \/ \E i \in DOMAIN txs :
                 /\ IF txs[i].call.op = "amend" THEN Registry!Amend(txs[i].call.prev, txs[i].call.new)
                                                ELSE Registry!Terminate(txs[i].call.prev)
                 /\ \A j \in DOMAIN txs \ {i} : txs'[j] = txs[j]
<1>. DEFINE T == [call : Calls, state : TxState]
<1>1. txs \in Seq(T)
  BY DEF TypeOK
<1>2. ASSUME NEW i \in DOMAIN txs, NEW st \in TxState, txs' = [txs EXCEPT ![i].state = st]
      PROVE  /\ txs' \in Seq(T) /\ Len(txs') = Len(txs) /\ DOMAIN txs' = DOMAIN txs
             /\ txs'[i].call = txs[i].call /\ txs'[i].state = st
             /\ \A j \in DOMAIN txs \ {i} : txs'[j] = txs[j]
  <2>. DEFINE z == [txs[i] EXCEPT !.state = st]
  <2>1. txs[i] \in T
    BY <1>1, ElementIn
  <2>2. z \in T /\ z.call = txs[i].call /\ z.state = st
    BY <2>1
  <2>3. txs' = [txs EXCEPT ![i] = z]
    BY <1>1, <1>2
  <2>. HIDE DEF z, T
  <2>4. txs' \in Seq(T) /\ Len(txs') = Len(txs) /\ txs'[i] = z /\ \A j \in DOMAIN txs \ {i} : txs'[j] = txs[j]
    BY <1>1, <2>2, <2>3, ExceptSeq
  <2>5. QED
    BY <1>1, <2>2, <2>3, <2>4
<1>3. PICK i \in DOMAIN txs : MineCall(i) \/ Drop(i)
  BY DEF Chain
<1>4. UNCHANGED <<dbVars, proc, sender, faults>>
  BY DEF Chain
<1>5. CASE Drop(i)
  <2>1. txs' = [txs EXCEPT ![i].state = "dropped"] /\ confirmations' = confirmations
    BY <1>5 DEF Drop
  <2>2. QED
    BY <1>2, <1>4, <2>1 DEF TxState
<1>6. CASE txs' = [txs EXCEPT ![i].state = "reverted"] /\ confirmations' = confirmations
  BY <1>2, <1>4, <1>6 DEF TxState
<1>7. CASE /\ IF txs[i].call.op = "amend" THEN Registry!Amend(txs[i].call.prev, txs[i].call.new)
                                          ELSE Registry!Terminate(txs[i].call.prev)
           /\ txs' = [txs EXCEPT ![i].state = "mined"]
  BY <1>2, <1>4, <1>7 DEF TxState
<1>8. QED
  BY <1>3, <1>5, <1>6, <1>7 DEF MineCall

LEMMA CallTypes ==
  ASSUME TypeOK, NEW i \in DOMAIN txs
  PROVE  txs[i].call \in Calls /\ txs[i].call.prev \in TradeHashes /\ txs[i].call.new \in TradeHashes
         /\ txs[i].call.op \in {"amend", "terminate"} /\ txs[i].state \in TxState
<1>1. txs[i] \in [call : Calls, state : TxState]
  <2>1. txs \in Seq([call : Calls, state : TxState])
    BY DEF TypeOK
  <2>2. QED
    BY <2>1, ElementIn
<1>2. QED
  BY <1>1 DEF Calls

LEMMA ChainStepType == TypeOK /\ Chain => TypeOK'
<1>. SUFFICES ASSUME TypeOK, Chain PROVE TypeOK'
  OBVIOUS
<1>1. UNCHANGED <<dbVars, proc, sender, faults>> /\ txs' \in Seq([call : Calls, state : TxState])
      /\ Len(txs') = Len(txs) /\ DOMAIN txs' = DOMAIN txs
  BY ChainSteps
<1>2. confirmations' \in [TradeHashes \union {ZeroHash} -> Conf]
  <2>1. CASE confirmations' = confirmations
    BY <2>1 DEF TypeOK, Conf
  <2>2. ASSUME NEW i \in DOMAIN txs,
               IF txs[i].call.op = "amend" THEN Registry!Amend(txs[i].call.prev, txs[i].call.new)
                                           ELSE Registry!Terminate(txs[i].call.prev)
        PROVE  confirmations' \in [TradeHashes \union {ZeroHash} -> Conf]
    BY <2>2, CallTypes, AmendRecords, TerminateRecords
  <2>3. QED
    BY <2>1, <2>2, ChainSteps
<1>3. ChainType'
  BY <1>1, <1>2 DEF TypeOK, ChainType, Conf
<1>4. DeskType' /\ ThreadType'
  BY <1>1 DEF TypeOK, DeskType, ThreadType, dbVars, RowType
<1>5. QED
  BY <1>3, <1>4, TypeStep

(***************************************************************************)
(* A commit appends one event.                                             *)
(***************************************************************************)
LEMMA AppendEvent ==
  ASSUME TypeOK, NEW t \in Trades, NEW e \in Event, e.hash[1] = t,
         events' = [events EXCEPT ![t] = Append(@, e)]
  PROVE  /\ events' \in [Trades -> Seq(Event)]
         /\ \A u \in Trades : Len(events'[u]) > 0 /\ \A i \in DOMAIN events'[u] : events'[u][i].hash[1] = u
         /\ \A u \in Trades \ {t} : events'[u] = events[u]
         /\ Len(events'[t]) = Len(events[t]) + 1 /\ Current(t)' = e
         /\ DOMAIN events'[t] = DOMAIN events[t] \union {Len(events[t]) + 1}
         /\ \A i \in DOMAIN events[t] : events'[t][i] = events[t][i]
         /\ events'[t][Len(events[t]) + 1] = e
<1>1. events \in [Trades -> Seq(Event)] /\ events[t] \in Seq(Event)
  BY DEF TypeOK
<1>. DEFINE s == Append(events[t], e)
<1>2. s \in Seq(Event) /\ Len(s) = Len(events[t]) + 1 /\ s[Len(events[t]) + 1] = e
      /\ \A i \in 1..Len(events[t]) : s[i] = events[t][i]
  BY <1>1, AppendProperties
<1>3. Len(events[t]) \in Nat /\ DOMAIN events[t] = 1..Len(events[t]) /\ DOMAIN s = 1..(Len(events[t]) + 1)
  BY <1>1, <1>2
<1>4. events' = [events EXCEPT ![t] = s]
  OBVIOUS
<1>. HIDE DEF s
<1>5. events' \in [Trades -> Seq(Event)] /\ events'[t] = s /\ \A u \in Trades \ {t} : events'[u] = events[u]
  BY <1>1, <1>2, <1>4
<1>6. DOMAIN s = DOMAIN events[t] \union {Len(events[t]) + 1}
  BY <1>3
<1>7. \A i \in DOMAIN s : s[i].hash[1] = t
  <2>1. \A i \in DOMAIN events[t] : events[t][i].hash[1] = t
    BY DEF TypeOK
  <2>2. QED
    BY <1>2, <1>3, <1>6, <2>1
<1>8. \A u \in Trades : Len(events'[u]) > 0 /\ \A i \in DOMAIN events'[u] : events'[u][i].hash[1] = u
  BY <1>2, <1>3, <1>5, <1>7 DEF TypeOK
<1>9. Current(t)' = e
  BY <1>2, <1>5 DEF Current
<1>10. QED
  BY <1>2, <1>3, <1>5, <1>6, <1>8, <1>9

(* Both commits are one: the type of the event and what the row becomes.   *)
Committed(p, e) ==
  /\ proc[p].pc = "apply"
  /\ e = [type |-> IF proc[p].op = "amend" THEN "AMENDED" ELSE "TERMINATED", hash |-> proc[p].new,
          prev |-> IF proc[p].op = "amend" THEN proc[p].prev ELSE ZeroHash]
  /\ events' = [events EXCEPT ![proc[p].on] = Append(@, e)]
  /\ proc' = [proc EXCEPT ![p] = Idle]
  /\ UNCHANGED <<chainVars, foldable, writes, sender, faults>>

Settled(x, old, row) ==
  IF x.op = "amend" THEN row.status = "CONFIRMED" /\ HashOf(x.on, row.terms) = x.new
                    ELSE row = [old EXCEPT !.status = "TERMINATED"]

LEMMA Commits ==
  ASSUME TypeOK, NEW p \in Threads, AmendCommits(p) \/ TerminateCommits(p)
  PROVE  /\ \E e \in Event : Committed(p, e)
         /\ proc[p] \in Request /\ proc[p].on = proc[p].new[1]
         /\ \E row \in RowType :
              /\ booking' = [booking EXCEPT ![proc[p].on] = row]
              /\ Settled(proc[p], booking[proc[p].on], row)
         /\ keys' = keys \union ({proc[p].key} \ {NoKey})
<1>. DEFINE x == proc[p]
<1>1. x.pc = "apply"
  BY DEF AmendCommits, TerminateCommits, Fresh
<1>2. x \in Request /\ x.on = x.new[1]
  BY <1>1, ThreadIs
<1>3. x.on \in Trades /\ x.new \in TradeHashes /\ x.prev \in TradeHashes /\ x.op \in {"amend", "terminate"}
      /\ x.changes \in [Terms -> Terms]
  BY <1>2, AmendmentAssumption DEF Request
<1>4. booking[x.on] \in RowType /\ booking[x.on].terms \in Terms
  BY <1>3 DEF TypeOK, RowType
<1>5. CASE AmendCommits(p)
  <2>. DEFINE y == x.changes[booking[x.on].terms]
              row == [status |-> "CONFIRMED", terms |-> y, drifted |-> FALSE]
              e == [type |-> "AMENDED", hash |-> x.new, prev |-> x.prev]
  <2>1. row \in RowType /\ row.status = "CONFIRMED" /\ row.terms = y /\ e \in Event
    BY <1>3, <1>4 DEF Event, RowType
  <2>2. x.op = "amend" /\ HashOf(x.on, y) = x.new /\ Commit(p, "AMENDED", row)
    BY <1>5 DEF AmendCommits
  <2>3. Committed(p, e)
    BY <1>1, <2>2 DEF Commit, Committed, Finish, Goto
  <2>4. booking' = [booking EXCEPT ![x.on] = row] /\ keys' = keys \union ({x.key} \ {NoKey})
    BY <2>2 DEF Commit
  <2>. HIDE DEF y, row, e
  <2>5. QED
    BY <1>2, <2>1, <2>2, <2>3, <2>4 DEF Settled
<1>6. CASE TerminateCommits(p)
  <2>. DEFINE row == [booking[x.on] EXCEPT !.status = "TERMINATED"]
              e == [type |-> "TERMINATED", hash |-> x.new, prev |-> ZeroHash]
  <2>1. row \in RowType /\ e \in Event
    BY <1>3, <1>4 DEF Event, RowType
  <2>2. x.op = "terminate" /\ Commit(p, "TERMINATED", row)
    BY <1>6 DEF TerminateCommits
  <2>3. Committed(p, e)
    BY <1>1, <2>2 DEF Commit, Committed, Finish, Goto
  <2>4. booking' = [booking EXCEPT ![x.on] = row] /\ keys' = keys \union ({x.key} \ {NoKey})
    BY <2>2 DEF Commit
  <2>5. Settled(x, booking[x.on], row)
    BY <2>2 DEF Settled
  <2>. HIDE DEF row, e
  <2>6. QED
    BY <1>2, <2>1, <2>3, <2>4, <2>5
<1>7. QED
  BY <1>5, <1>6

LEMMA CommitType ==
  ASSUME TypeOK, NEW p \in Threads, AmendCommits(p) \/ TerminateCommits(p)
  PROVE  TypeOK'
<1>. DEFINE x == proc[p]
<1>1. PICK e \in Event : Committed(p, e)
  BY Commits
<1>2. x \in Request /\ x.on = x.new[1] /\ x.on \in Trades /\ x.key \in Keys \union {NoKey}
  BY Commits DEF Request
<1>3. UNCHANGED <<chainVars, foldable, writes, sender, faults>> /\ proc' = [proc EXCEPT ![p] = Idle] /\ x.pc = "apply"
      /\ events' = [events EXCEPT ![x.on] = Append(@, e)] /\ e.hash = x.new
  BY <1>1 DEF Committed
<1>4. booking' \in [Trades -> RowType]
  <2>1. PICK row \in RowType : booking' = [booking EXCEPT ![x.on] = row]
    BY Commits
  <2>2. booking \in [Trades -> RowType]
    BY DEF TypeOK, RowType
  <2>3. QED
    BY <2>1, <2>2
<1>5. keys' \subseteq Keys
  BY <1>2, Commits DEF TypeOK
<1>6. events' \in [Trades -> Seq(Event)]
      /\ \A u \in Trades : Len(events'[u]) > 0 /\ \A i \in DOMAIN events'[u] : events'[u][i].hash[1] = u
  BY <1>2, <1>3, AppendEvent
<1>7. DeskType'
  BY <1>3, <1>4, <1>5, <1>6 DEF TypeOK, DeskType
<1>8. ChainType' /\ txs' = txs /\ faults' \in 0..MaxFaults
  BY <1>3 DEF TypeOK, ChainType, chainVars
<1>9. ThreadType'
  <2>1. sender # p
    BY <1>3 DEF TypeOK
  <2>2. QED
    BY <1>3, <1>8, <2>1, IdleFacts, OneThread
<1>10. QED
  BY <1>7, <1>8, <1>9, TypeStep

(* The routes without a guard write terms that are terms.                  *)
LEMMA WrittenTerms ==
  ASSUME TypeOK, NEW t \in Trades, CreateLeg(t) \/ PutTerms(t)
  PROVE  \E y \in Terms : WriteTerms(t, y)
<1>1. booking[t].terms \in Terms
  BY DEF TypeOK
<1>2. \A f \in Changes \union {AddLeg} : f[booking[t].terms] \in Terms
  <2>1. Changes \union {AddLeg} \subseteq [Terms -> Terms]
    BY AmendmentAssumption
  <2>2. QED
    BY <1>1, <2>1
<1>3. QED
  BY <1>2 DEF CreateLeg, PutTerms

(* The rest: giving up, other writers and faults.                          *)
LEMMA OthersType ==
  ASSUME TypeOK, (\E p \in Threads : Abandon(p) \/ CommitFails(p)) \/ Crash
                 \/ \E t \in Trades : CreateLeg(t) \/ PutTerms(t) \/ AppendCompression(t)
  PROVE  TypeOK'
<1>1. ASSUME NEW p \in Threads, Abandon(p) \/ CommitFails(p)
      PROVE  TypeOK'
  <2>1. UNCHANGED <<chainVars, dbVars, sender>> /\ proc' = [proc EXCEPT ![p] = Idle] /\ proc[p].pc = "apply"
    BY <1>1 DEF Abandon, CommitFails, Finish, Goto
  <2>2. faults' \in 0..MaxFaults
    <3>1. faults \in 0..MaxFaults /\ MaxFaults \in Nat
      BY AmendmentAssumption DEF TypeOK
    <3>2. faults' = faults \/ (faults < MaxFaults /\ faults' = faults + 1)
      BY <1>1 DEF Abandon, CommitFails
    <3>3. QED
      BY <3>1, <3>2
  <2>3. sender # p
    BY <2>1 DEF TypeOK
  <2>4. ThreadType'
    BY <2>1, <2>2, <2>3, IdleFacts, OneThread DEF chainVars
  <2>5. ChainType' /\ DeskType'
    BY <2>1 DEF TypeOK, ChainType, DeskType, chainVars, dbVars, RowType
  <2>6. QED
    BY <2>4, <2>5, TypeStep
<1>2. CASE Crash
  <2>1. UNCHANGED <<chainVars, dbVars>> /\ proc' = [p \in Threads |-> Idle] /\ sender' = NoOne
        /\ faults' \in 0..MaxFaults
    BY <1>2, AmendmentAssumption DEF Crash, TypeOK
  <2>2. ThreadType'
    BY <2>1, IdleFacts, AmendmentAssumption DEF ThreadType
  <2>3. ChainType' /\ DeskType'
    BY <2>1 DEF TypeOK, ChainType, DeskType, chainVars, dbVars, RowType
  <2>4. QED
    BY <2>2, <2>3, TypeStep
<1>3. ASSUME NEW t \in Trades, CreateLeg(t) \/ PutTerms(t) \/ AppendCompression(t)
      PROVE  TypeOK'
  <2>1. UNCHANGED <<chainVars, events, keys, proc, sender, faults>>
    BY <1>3 DEF CreateLeg, PutTerms, WriteTerms, AppendCompression
  <2>2. booking' \in [Trades -> RowType] /\ writes' \in 0..MaxWrites
    <3>1. booking \in [Trades -> RowType] /\ writes \in 0..MaxWrites /\ MaxWrites \in Nat
      BY AmendmentAssumption DEF TypeOK, RowType
    <3>2. ASSUME NEW y \in Terms, WriteTerms(t, y)
          PROVE  booking' \in [Trades -> RowType] /\ writes' \in 0..MaxWrites
      <4>. DEFINE row == [booking[t] EXCEPT !.terms = y, !.drifted = TRUE]
      <4>1. row \in RowType
        BY <3>1 DEF RowType
      <4>2. booking' = [booking EXCEPT ![t] = row]
        BY <3>1, <3>2 DEF WriteTerms
      <4>. HIDE DEF row
      <4>3. booking' \in [Trades -> RowType]
        BY <3>1, <4>1, <4>2
      <4>4. writes' \in 0..MaxWrites
        BY <3>1, <3>2 DEF WriteTerms
      <4>5. QED
        BY <4>3, <4>4
    <3>3. CASE CreateLeg(t) \/ PutTerms(t)
      BY <3>2, <3>3, WrittenTerms
    <3>4. CASE AppendCompression(t)
      BY <3>1, <3>4 DEF AppendCompression
    <3>5. QED
      BY <1>3, <3>3, <3>4
  <2>3. foldable' \in [Trades -> BOOLEAN]
    <3>1. foldable \in [Trades -> BOOLEAN]
      BY DEF TypeOK
    <3>2. foldable' = foldable \/ foldable' = [foldable EXCEPT ![t] = FALSE]
      BY <1>3 DEF CreateLeg, PutTerms, WriteTerms, AppendCompression
    <3>3. QED
      BY <3>1, <3>2
  <2>4. ChainType' /\ DeskType' /\ ThreadType'
    BY <2>1, <2>2, <2>3 DEF TypeOK, ChainType, DeskType, ThreadType, chainVars
  <2>5. QED
    BY <2>4, TypeStep
<1>4. QED
  BY <1>1, <1>2, <1>3

LEMMA TypeNext == TypeOK /\ [Next]_vars => TypeOK'
<1>. SUFFICES ASSUME TypeOK, [Next]_vars PROVE TypeOK'
  OBVIOUS
<1>1. CASE UNCHANGED vars
  BY <1>1 DEF vars, chainVars, dbVars, TypeOK
<1>2. ASSUME NEW p \in Threads, NEW t \in Trades, NEW k \in Keys \union {NoKey},
             TerminateArrives(p, t, k) \/ \E f \in Changes : AmendArrives(p, t, f, k)
      PROVE  TypeOK'
  BY <1>2, Arrivals, ArrivesType
<1>3. ASSUME NEW p \in Threads, Build(p) \/ Submit(p) \/ NonceUsed(p) \/ Receipt(p) \/ NoReceipt(p)
      PROVE  TypeOK'
  BY <1>3, SendType DEF SendStep
<1>4. ASSUME NEW p \in Threads, AmendCommits(p) \/ TerminateCommits(p)
      PROVE  TypeOK'
  BY <1>4, CommitType
<1>5. CASE (\E p \in Threads : Abandon(p) \/ CommitFails(p)) \/ Crash
           \/ \E t \in Trades : CreateLeg(t) \/ PutTerms(t) \/ AppendCompression(t)
  BY <1>5, OthersType
<1>6. CASE Chain
  BY <1>6, ChainStepType
<1>7. CASE Next
  BY <1>2, <1>3, <1>4, <1>5, <1>6, <1>7 DEF Next
<1>8. QED
  BY <1>1, <1>7

(***************************************************************************)
(* The invariant.  A trade's acts stand level on both sides, or the        *)
(* registry is one act ahead; what a thread is doing says which.           *)
(***************************************************************************)
(* The records of a trade that stand, and those that were terminated.      *)
Live(t)   == {h \in TradeHashes : h[1] = t /\ confirmations[h].status = "Confirmed"}
Closed(t) == {h \in TradeHashes : h[1] = t /\ confirmations[h].status = "Terminated"}

IsShown(t, h) == \E i \in DOMAIN events[t] : events[t][i].hash = h
Ended(t)      == Current(t).type = "TERMINATED"

(* A trade's acts on the two sides: level, or the registry one ahead.      *)
Open(t)      == ~Ended(t) /\ Live(t) = {Current(t).hash} /\ Closed(t) = {} /\ Signed(t) = Shown(t)
Done(t)      == Ended(t) /\ Live(t) = {} /\ Signed(t) = Shown(t)
Ahead(t, n)  == /\ ~Ended(t) /\ Live(t) = {n} /\ Closed(t) = {} /\ ~IsShown(t, n)
                /\ Signed(t) = Shown(t) \union {Act(n, Current(t).hash, FALSE)}
Ending(t)    == /\ ~Ended(t) /\ Live(t) = {} /\ Closed(t) = {Current(t).hash}
                /\ Signed(t) = Shown(t) \union {Act(Current(t).hash, ZeroHash, TRUE)}
Phase(t)     == Open(t) \/ Done(t) \/ Ending(t) \/ \E n \in TradeHashes : Ahead(t, n)

(* The end of a trade is its last event, and no two events are the same.   *)
StreamOK(t) ==
  /\ \A i \in DOMAIN events[t] : events[t][i].type = "TERMINATED" => i = Len(events[t])
  /\ \A i, j \in DOMAIN events[t] :
       events[t][i].hash = events[t][j].hash /\ events[t][i].type = events[t][j].type => i = j

RowOK(t) ==
  /\ booking[t].status = "TERMINATED" <=> Ended(t)
  /\ ~booking[t].drifted => Derived(t) = Current(t).hash

(* A transaction was built on a record the desk had shown.                 *)
CallOK(x) == x.call.prev[1] = x.call.new[1] /\ IsShown(x.call.prev[1], x.call.prev)
             /\ (x.state = "mined" => Recorded(x.call))

CallOf(x) == [op |-> x.op, prev |-> x.prev, new |-> x.new]
Engaged == {"broadcast", "wait", "apply"}
ThreadOK(x) ==
  x # Idle =>
    /\ IsShown(x.on, x.prev)
    /\ x.op = "amend" <=> x.new # x.prev
    /\ x.pc = "wait" => txs[x.tx].call = CallOf(x)
    /\ x.pc \in Engaged => /\ x.prev = Current(x.on).hash /\ ~Ended(x.on)
                           /\ x.op = "amend" /\ OnRegistry(x.new) => x.new \in Live(x.on)
    /\ x.pc = "apply" => Recorded(x)
Alone == \A p, q \in Threads : proc[p].pc \in Engaged /\ proc[q].pc \in Engaged /\ proc[p].on = proc[q].on => p = q

AmendInv ==
  /\ TypeOK
  /\ \A t \in Trades : Phase(t) /\ StreamOK(t) /\ RowOK(t)
  /\ \A i \in DOMAIN txs : CallOK(txs[i])
  /\ \A p \in Threads : ThreadOK(proc[p])
  /\ Alone

Registered(t) == {h \in TradeHashes : h[1] = t /\ OnRegistry(h)}

LEMMA SignedActs ==
  ASSUME NEW t
  PROVE  Signed(t) = {Act(h, confirmations[h].prevHash, FALSE) : h \in Registered(t)}
                       \union {Act(h, ZeroHash, TRUE) : h \in Closed(t)}
BY DEF Signed, Registered, Closed

LEMMA SignedActsNext ==
  ASSUME NEW t
  PROVE  Signed(t)' = {Act(h, confirmations'[h].prevHash, FALSE) : h \in Registered(t)'}
                        \union {Act(h, ZeroHash, TRUE) : h \in Closed(t)'}
BY DEF Signed, Registered, Closed, OnRegistry, Act

LEMMA AmendActs ==
  ASSUME TypeOK, NEW t, NEW prev \in TradeHashes, NEW new \in TradeHashes, prev[1] = t, new[1] = t,
         Registry!Amend(prev, new)
  PROVE  /\ Live(t)' = (Live(t) \ {prev}) \union {new} /\ Closed(t)' = Closed(t)
         /\ Registered(t)' = Registered(t) \union {new} /\ new \notin Registered(t)
         /\ Signed(t)' = Signed(t) \union {Act(new, prev, FALSE)}
         /\ \A u : u # t => /\ Live(u)' = Live(u) /\ Closed(u)' = Closed(u) /\ Registered(u)' = Registered(u)
                            /\ Signed(u)' = Signed(u)
<1>. DEFINE c(h) == confirmations[h]
<1>1. /\ c(prev).status = "Confirmed" /\ c(new).status = "None" /\ new # prev
      /\ confirmations'[prev].status = "Superseded" /\ confirmations'[prev].prevHash = c(prev).prevHash
      /\ confirmations'[new].status = "Confirmed" /\ confirmations'[new].prevHash = prev
      /\ \A h \in TradeHashes \ {prev, new} : confirmations'[h] = c(h)
  BY AmendRecords
<1>2. Live(t)' = (Live(t) \ {prev}) \union {new} /\ Closed(t)' = Closed(t)
      /\ Registered(t)' = Registered(t) \union {new} /\ new \notin Registered(t)
  BY <1>1 DEF Live, Closed, Registered, OnRegistry
<1>3. \A h \in Registered(t) : confirmations'[h].prevHash = c(h).prevHash
  BY <1>1 DEF Registered, OnRegistry
<1>4. Signed(t)' = Signed(t) \union {Act(new, prev, FALSE)}
  <2>1. {Act(h, confirmations'[h].prevHash, FALSE) : h \in Registered(t)'}
          = {Act(h, c(h).prevHash, FALSE) : h \in Registered(t)} \union {Act(new, prev, FALSE)}
    <3>. DEFINE f(h) == Act(h, confirmations'[h].prevHash, FALSE)
                g(h) == Act(h, c(h).prevHash, FALSE)
    <3>1. \A h \in Registered(t) : f(h) = g(h)
      BY <1>3
    <3>2. f(new) = Act(new, prev, FALSE)
      BY <1>1
    <3>. HIDE DEF f, g
    <3>3. {f(h) : h \in Registered(t) \union {new}} = {g(h) : h \in Registered(t)} \union {f(new)}
      BY <3>1
    <3>4. QED
      BY <1>2, <3>2, <3>3 DEF f, g
  <2>2. QED
    BY <1>2, <2>1, SignedActs, SignedActsNext
<1>5. ASSUME NEW u, u # t
      PROVE  /\ Live(u)' = Live(u) /\ Closed(u)' = Closed(u) /\ Registered(u)' = Registered(u)
             /\ Signed(u)' = Signed(u)
  <2>1. \A h \in TradeHashes : h[1] = u => confirmations'[h] = c(h)
    BY <1>1, <1>5
  <2>2. Live(u)' = Live(u) /\ Closed(u)' = Closed(u) /\ Registered(u)' = Registered(u)
    BY <2>1 DEF Live, Closed, Registered, OnRegistry
  <2>3. \A h \in Registered(u) : confirmations'[h].prevHash = c(h).prevHash
    BY <2>1 DEF Registered
  <2>4. QED
    BY <2>2, <2>3, SignedActs, SignedActsNext
<1>6. QED
  BY <1>2, <1>4, <1>5

LEMMA TerminateActs ==
  ASSUME TypeOK, NEW t, NEW prev \in TradeHashes, prev[1] = t, Registry!Terminate(prev)
  PROVE  /\ Live(t)' = Live(t) \ {prev} /\ Closed(t)' = Closed(t) \union {prev}
         /\ Registered(t)' = Registered(t)
         /\ Signed(t)' = Signed(t) \union {Act(prev, ZeroHash, TRUE)}
         /\ \A u : u # t => /\ Live(u)' = Live(u) /\ Closed(u)' = Closed(u) /\ Registered(u)' = Registered(u)
                            /\ Signed(u)' = Signed(u)
<1>. DEFINE c(h) == confirmations[h]
<1>1. /\ c(prev).status = "Confirmed"
      /\ confirmations'[prev].status = "Terminated" /\ confirmations'[prev].prevHash = c(prev).prevHash
      /\ \A h \in TradeHashes \ {prev} : confirmations'[h] = c(h)
  BY TerminateRecords
<1>2. Live(t)' = Live(t) \ {prev} /\ Closed(t)' = Closed(t) \union {prev}
      /\ Registered(t)' = Registered(t)
  BY <1>1 DEF Live, Closed, Registered, OnRegistry
<1>3. \A h \in Registered(t) : confirmations'[h].prevHash = c(h).prevHash
  BY <1>1 DEF Registered, OnRegistry
<1>4. Signed(t)' = Signed(t) \union {Act(prev, ZeroHash, TRUE)}
  <2>1. {Act(h, confirmations'[h].prevHash, FALSE) : h \in Registered(t)'}
          = {Act(h, c(h).prevHash, FALSE) : h \in Registered(t)}
    BY <1>2, <1>3
  <2>2. {Act(h, ZeroHash, TRUE) : h \in Closed(t)'}
          = {Act(h, ZeroHash, TRUE) : h \in Closed(t)} \union {Act(prev, ZeroHash, TRUE)}
    BY <1>2
  <2>3. QED
    BY <2>1, <2>2, SignedActs, SignedActsNext
<1>5. ASSUME NEW u, u # t
      PROVE  /\ Live(u)' = Live(u) /\ Closed(u)' = Closed(u) /\ Registered(u)' = Registered(u)
             /\ Signed(u)' = Signed(u)
  <2>1. \A h \in TradeHashes : h[1] = u => confirmations'[h] = c(h)
    BY <1>1, <1>5
  <2>2. Live(u)' = Live(u) /\ Closed(u)' = Closed(u) /\ Registered(u)' = Registered(u)
    BY <2>1 DEF Live, Closed, Registered, OnRegistry
  <2>3. \A h \in Registered(u) : confirmations'[h].prevHash = c(h).prevHash
    BY <2>1 DEF Registered
  <2>4. QED
    BY <2>2, <2>3, SignedActs, SignedActsNext
<1>6. QED
  BY <1>2, <1>4, <1>5

(* What the desk shows is registered, and never what is not.               *)
LEMMA ShownRegistered ==
  ASSUME TypeOK, NEW t \in Trades, Phase(t), NEW h \in TradeHashes, IsShown(t, h)
  PROVE  h \in Registered(t)
<1>1. Shown(t) \subseteq Signed(t)
  BY DEF Phase, Open, Done, Ahead, Ending
<1>2. PICK i \in DOMAIN events[t] : events[t][i].hash = h
  BY DEF IsShown
<1>. DEFINE a == Act(events[t][i].hash, events[t][i].prev, events[t][i].type = "TERMINATED")
<1>3. a \in Signed(t) /\ a.hash = h
  BY <1>1, <1>2 DEF Shown, Act
<1>4. \A b \in Signed(t) : b.hash \in Registered(t) \union Closed(t)
  BY SignedActs DEF Act
<1>5. Closed(t) \subseteq Registered(t)
  BY DEF Closed, Registered, OnRegistry
<1>6. QED
  BY <1>3, <1>4, <1>5

(* A call is accepted on the newest attestation of a level trade only.     *)
LEMMA AcceptedIsOpen ==
  ASSUME TypeOK, NEW t \in Trades, Phase(t), NEW h \in TradeHashes, h[1] = t, IsShown(t, h),
         confirmations[h].status = "Confirmed"
  PROVE  Open(t) /\ h = Current(t).hash
<1>1. h \in Live(t)
  BY DEF Live
<1>2. QED
  BY <1>1 DEF Phase, Open, Done, Ahead, Ending

LEMMA CurrentShown ==
  ASSUME TypeOK, NEW t \in Trades
  PROVE  IsShown(t, Current(t).hash) /\ Current(t).hash \in TradeHashes /\ Current(t).hash[1] = t
BY CurrentType DEF IsShown, Current, Event

(***************************************************************************)
(* Frames                                                                  *)
(***************************************************************************)
LEMMA EventsFrame ==
  ASSUME NEW t, events'[t] = events[t]
  PROVE  /\ Current(t)' = Current(t) /\ Ended(t)' = Ended(t) /\ Shown(t)' = Shown(t)
         /\ \A h : IsShown(t, h)' = IsShown(t, h)
         /\ StreamOK(t) => StreamOK(t)'
BY DEF Current, Ended, Shown, IsShown, StreamOK, Act

LEMMA PhaseFrame ==
  ASSUME NEW t, events'[t] = events[t], Phase(t),
         Live(t)' = Live(t), Closed(t)' = Closed(t), Signed(t)' = Signed(t)
  PROVE  Phase(t)'
<1>1. /\ Current(t)' = Current(t) /\ Ended(t)' = Ended(t) /\ Shown(t)' = Shown(t)
      /\ \A h : IsShown(t, h)' = IsShown(t, h)
  BY EventsFrame
<1>2. Open(t) => Open(t)'
  BY <1>1 DEF Open
<1>3. Done(t) => Done(t)'
  BY <1>1 DEF Done
<1>4. Ending(t) => Ending(t)'
  BY <1>1 DEF Ending, Act
<1>5. ASSUME NEW n \in TradeHashes, Ahead(t, n) PROVE Ahead(t, n)'
  BY <1>1, <1>5 DEF Ahead, Act
<1>6. QED
  BY <1>2, <1>3, <1>4, <1>5 DEF Phase

LEMMA RegistryFrame ==
  ASSUME NEW t, confirmations' = confirmations
  PROVE  Live(t)' = Live(t) /\ Closed(t)' = Closed(t) /\ Signed(t)' = Signed(t)
BY DEF Live, Closed, Signed, OnRegistry, Act

LEMMA RowFrame ==
  ASSUME NEW t, events'[t] = events[t], booking'[t] = booking[t], RowOK(t)
  PROVE  RowOK(t)'
BY EventsFrame DEF RowOK, Derived

(* A thread that does not move, while the chain and its trade's events     *)
(* stay.                                                                   *)
LEMMA ThreadFrame ==
  ASSUME TypeOK, NEW p \in Threads, proc'[p] = proc[p], ThreadOK(proc[p]),
         confirmations' = confirmations, events'[proc[p].on] = events[proc[p].on],
         \A i \in DOMAIN txs : txs'[i].call = txs[i].call
  PROVE  ThreadOK(proc[p])'
<1>. DEFINE x == proc[p]
<1>1. x.pc = "wait" => x.tx \in DOMAIN txs
  BY DEF TypeOK
<1>2. /\ Current(x.on)' = Current(x.on) /\ Ended(x.on)' = Ended(x.on)
      /\ \A h : IsShown(x.on, h)' = IsShown(x.on, h)
  BY EventsFrame DEF Current, Ended, IsShown
<1>3. Live(x.on)' = Live(x.on)
  BY DEF Live
<1>4. QED
  BY <1>1, <1>2, <1>3 DEF ThreadOK, Recorded, OnRegistry, CallOf

(* A transaction, while the chain stays and events are only added.         *)
LEMMA CallFrame ==
  ASSUME NEW i \in DOMAIN txs, CallOK(txs[i]), txs'[i].call = txs[i].call,
         txs'[i].state = "mined" => txs[i].state = "mined", confirmations' = confirmations,
         IsShown(txs[i].call.prev[1], txs[i].call.prev) => IsShown(txs[i].call.prev[1], txs[i].call.prev)'
  PROVE  CallOK(txs[i])'
BY DEF CallOK, Recorded, OnRegistry, IsShown

(***************************************************************************)
(* A block includes a transaction, or the node forgets one.                *)
(***************************************************************************)
Accepted(i) ==
  LET c == txs[i].call
  IN  /\ IF c.op = "amend" THEN Registry!Amend(c.prev, c.new) ELSE Registry!Terminate(c.prev)
      /\ \A j \in DOMAIN txs \ {i} : txs'[j] = txs[j]

(* What an accepted call c does to its trade t, which was level.           *)
Advances(t, c) ==
  /\ t \in Trades /\ Open(t) /\ c.prev = Current(t).hash /\ c.new[1] = t
  /\ \A u \in Trades : Phase(u)'
  /\ IF c.op = "amend" THEN Live(t)' = {c.new} /\ Registered(t)' = Registered(t) \union {c.new}
                       ELSE Live(t)' = {} /\ Registered(t)' = Registered(t)
  /\ \A u : u # t => Live(u)' = Live(u) /\ Registered(u)' = Registered(u)
  /\ Signed(t)' = Signed(t) \union {IF c.op = "amend" THEN Act(c.new, c.prev, FALSE)
                                                      ELSE Act(c.prev, ZeroHash, TRUE)}
  /\ \A u : u # t => Signed(u)' = Signed(u)
  /\ \A h \in TradeHashes : confirmations[h].status = "Terminated" => confirmations'[h].status = "Terminated"
  /\ IF c.op = "amend" THEN OnRegistry(c.new)' ELSE confirmations'[c.prev].status = "Terminated"

LEMMA AcceptedAdvances ==
  ASSUME AmendInv, NEW i \in DOMAIN txs, Accepted(i), events' = events,
         NEW c, NEW t, c = txs[i].call, t = c.prev[1]
  PROVE  Advances(t, c)
<1>1. TypeOK /\ CallOK(txs[i])
  BY DEF AmendInv
<1>2. c.prev \in TradeHashes /\ c.new \in TradeHashes /\ c.op \in {"amend", "terminate"}
  BY <1>1, CallTypes
<1>3. t \in Trades /\ c.new[1] = t /\ IsShown(t, c.prev)
  BY <1>1, <1>2, HashFacts DEF CallOK
<1>4. confirmations[c.prev].status = "Confirmed"
  BY DEF Accepted, Registry!Amend, Registry!Terminate
<1>5. Open(t) /\ c.prev = Current(t).hash
  BY <1>1, <1>2, <1>3, <1>4, AcceptedIsOpen DEF AmendInv
<1>6. \A u : Current(u)' = Current(u) /\ Ended(u)' = Ended(u) /\ Shown(u)' = Shown(u)
             /\ \A h : IsShown(u, h)' = IsShown(u, h)
  BY EventsFrame DEF Current, Ended, Shown, IsShown, Act
<1>7. CASE c.op = "amend"
  <2>1. Registry!Amend(c.prev, c.new)
    BY <1>7 DEF Accepted
  <2>2. /\ Live(t)' = (Live(t) \ {c.prev}) \union {c.new} /\ Closed(t)' = Closed(t)
        /\ Registered(t)' = Registered(t) \union {c.new} /\ c.new \notin Registered(t)
        /\ Signed(t)' = Signed(t) \union {Act(c.new, c.prev, FALSE)}
        /\ \A u : u # t => /\ Live(u)' = Live(u) /\ Closed(u)' = Closed(u) /\ Registered(u)' = Registered(u)
                           /\ Signed(u)' = Signed(u)
    BY <1>1, <1>2, <1>3, <2>1, AmendActs
  <2>3. ~IsShown(t, c.new)
    BY <1>1, <1>2, <1>3, <2>2, ShownRegistered DEF AmendInv
  <2>4. Ahead(t, c.new)'
    BY <1>5, <1>6, <2>2, <2>3 DEF Ahead, Open, Act
  <2>5. \A u \in Trades : Phase(u)'
    <3>1. ASSUME NEW u \in Trades, u # t PROVE Phase(u)'
      BY <2>2, <3>1, PhaseFrame DEF AmendInv
    <3>2. Phase(t)'
      BY <1>2, <2>4 DEF Phase
    <3>3. QED
      BY <3>1, <3>2
  <2>6. \A h \in TradeHashes : confirmations[h].status = "Terminated" => confirmations'[h].status = "Terminated"
    BY <1>1, <1>2, <2>1, AmendRecords
  <2>7. OnRegistry(c.new)'
    BY <1>1, <1>2, <2>1, AmendRecords DEF OnRegistry
  <2>8. Live(t)' = {c.new}
    BY <1>5, <2>2 DEF Open
  <2>9. QED
    BY <1>3, <1>5, <1>7, <2>2, <2>5, <2>6, <2>7, <2>8 DEF Advances
<1>8. CASE c.op = "terminate"
  <2>1. Registry!Terminate(c.prev)
    BY <1>8 DEF Accepted
  <2>2. /\ Live(t)' = Live(t) \ {c.prev} /\ Closed(t)' = Closed(t) \union {c.prev}
        /\ Registered(t)' = Registered(t)
        /\ Signed(t)' = Signed(t) \union {Act(c.prev, ZeroHash, TRUE)}
        /\ \A u : u # t => /\ Live(u)' = Live(u) /\ Closed(u)' = Closed(u) /\ Registered(u)' = Registered(u)
                           /\ Signed(u)' = Signed(u)
    BY <1>1, <1>2, <1>3, <2>1, TerminateActs
  <2>3. Ending(t)'
    BY <1>5, <1>6, <2>2 DEF Ending, Open, Act
  <2>4. \A u \in Trades : Phase(u)'
    <3>1. ASSUME NEW u \in Trades, u # t PROVE Phase(u)'
      BY <2>2, <3>1, PhaseFrame DEF AmendInv
    <3>2. Phase(t)'
      BY <2>3 DEF Phase
    <3>3. QED
      BY <3>1, <3>2
  <2>5. /\ confirmations'[c.prev].status = "Terminated"
        /\ \A h \in TradeHashes : confirmations[h].status = "Terminated" => confirmations'[h].status = "Terminated"
    BY <1>1, <1>2, <2>1, TerminateRecords
  <2>6. Live(t)' = {}
    BY <1>5, <2>2 DEF Open
  <2>7. QED
    BY <1>3, <1>5, <1>8, <2>2, <2>4, <2>5, <2>6 DEF Advances
<1>9. QED
  BY <1>2, <1>7, <1>8

LEMMA ChainInv == AmendInv /\ Chain => AmendInv'
<1>. SUFFICES ASSUME AmendInv, Chain PROVE AmendInv'
  OBVIOUS
<1>1. TypeOK /\ TypeOK'
  BY ChainStepType DEF AmendInv
<1>2. /\ UNCHANGED <<dbVars, proc, sender, faults>> /\ events' = events /\ booking' = booking
      /\ DOMAIN txs' = DOMAIN txs /\ \A i \in DOMAIN txs : txs'[i].call = txs[i].call
  BY <1>1, ChainSteps DEF dbVars
<1>3. \A t \in Trades : StreamOK(t)' /\ RowOK(t)'
  BY <1>2, EventsFrame, RowFrame DEF AmendInv
<1>4. Alone'
  BY <1>2 DEF AmendInv, Alone
<1>5. CASE /\ confirmations' = confirmations
           /\ \A i \in DOMAIN txs : txs'[i].state = "mined" => txs[i].state = "mined"
  <2>1. \A t \in Trades : Phase(t)'
    BY <1>2, <1>5, PhaseFrame, RegistryFrame DEF AmendInv
  <2>2. \A i \in DOMAIN txs' : CallOK(txs[i])'
    BY <1>2, <1>5, CallFrame DEF AmendInv, IsShown
  <2>3. \A p \in Threads : ThreadOK(proc[p])'
    BY <1>1, <1>2, <1>5, ThreadFrame DEF AmendInv
  <2>4. QED
    BY <1>1, <1>3, <1>4, <2>1, <2>2, <2>3 DEF AmendInv, Advances
<1>6. ASSUME NEW i \in DOMAIN txs, Accepted(i)
      PROVE  AmendInv'
  <2>0. PICK c, t : c = txs[i].call /\ t = c.prev[1]
    OBVIOUS
  <2>1. Advances(t, c)
    BY <1>2, <1>6, <2>0, AcceptedAdvances
  <2>2. \A h \in TradeHashes : OnRegistry(h) => OnRegistry(h)'
    <3>1. \A u : Registered(u) \subseteq Registered(u)'
      BY <2>1 DEF Advances
    <3>2. QED
      BY <3>1 DEF Registered, OnRegistry
  <2>3. ASSUME NEW j \in DOMAIN txs
        PROVE  CallOK(txs[j])'
    <3>1. txs[j].call.prev \in TradeHashes /\ txs[j].call.new \in TradeHashes /\ CallOK(txs[j])
      BY <1>1, CallTypes DEF AmendInv
    <3>2. IsShown(txs[j].call.prev[1], txs[j].call.prev)'
      BY <1>2, <3>1 DEF CallOK, IsShown
    <3>3. txs'[j].state = "mined" => Recorded(txs[j].call)'
      <4>1. CASE j = i
        BY <1>2, <2>0, <2>1, <4>1 DEF Recorded, Advances
      <4>2. CASE j # i
        <5>1. txs'[j] = txs[j]
          BY <1>6, <4>2 DEF Accepted
        <5>2. Recorded(txs[j].call) => Recorded(txs[j].call)'
          BY <2>1, <2>2, <3>1, <5>1 DEF Recorded, Advances
        <5>3. QED
          BY <3>1, <5>1, <5>2 DEF CallOK
      <4>3. QED
        BY <4>1, <4>2
    <3>4. QED
      BY <1>2, <3>1, <3>2, <3>3 DEF CallOK
  <2>4. ASSUME NEW p \in Threads
        PROVE  ThreadOK(proc[p])'
    <3>0. PICK x : x = proc[p]
      OBVIOUS
    <3>1. CASE x = Idle
      BY <1>2, <3>0, <3>1 DEF ThreadOK
    <3>2. CASE x # Idle
      <4>1. /\ x \in Request /\ x.prev \in TradeHashes /\ x.new \in TradeHashes /\ x.on \in Trades
            /\ x.on = x.prev[1] /\ x.on = x.new[1] /\ ThreadOK(x) /\ x.op \in {"amend", "terminate"}
            /\ x.pc = "wait" => x.tx \in DOMAIN txs
        BY <3>0, <3>2 DEF AmendInv, TypeOK, Request
      <4>2. proc'[p] = x /\ Current(x.on)' = Current(x.on) /\ Ended(x.on)' = Ended(x.on)
            /\ \A h : IsShown(x.on, h)' = IsShown(x.on, h)
        BY <1>2, <3>0, EventsFrame DEF Current, Ended, IsShown
      <4>3. Recorded(x) => Recorded(x)'
        BY <2>1, <2>2, <4>1, <4>2 DEF Recorded, Advances
      <4>4. ASSUME x.pc \in Engaged, x.op = "amend", OnRegistry(x.new)'
            PROVE  x.new \in Live(x.on)'
        <5>1. x.prev = Current(x.on).hash /\ (OnRegistry(x.new) => x.new \in Live(x.on)) /\ x.new # x.prev
          BY <3>2, <4>1, <4>4 DEF ThreadOK
        <5>2. x.new \in Registered(x.on)'
          BY <4>1, <4>2, <4>4 DEF Registered, OnRegistry
        <5>3. CASE x.on # t
          <6>1. x.new \in Registered(x.on) /\ Live(x.on)' = Live(x.on)
            BY <2>1, <4>2, <5>2, <5>3 DEF Advances
          <6>2. QED
            BY <4>2, <5>1, <6>1 DEF Registered
        <5>4. CASE x.on = t
          <6>1. x.new \notin Registered(t)
            <7>1. Live(t) = {Current(t).hash}
              BY <2>1 DEF Open, Advances
            <7>2. QED
              BY <5>1, <5>4, <7>1 DEF Registered
          <6>2. c.op = "amend" /\ x.new = c.new
            BY <2>1, <4>2, <5>2, <5>4, <6>1 DEF Advances
          <6>3. QED
            BY <2>1, <4>2, <5>4, <6>2 DEF Advances
        <5>5. QED
          BY <5>3, <5>4
      <4>5. x.pc = "wait" => txs'[x.tx].call = CallOf(x)
        BY <1>2, <3>2, <4>1 DEF ThreadOK
      <4>6. QED
        BY <3>0, <3>2, <4>1, <4>2, <4>3, <4>4, <4>5 DEF ThreadOK, CallOf, Recorded, OnRegistry
    <3>3. QED
      BY <3>1, <3>2
  <2>5. QED
    BY <1>1, <1>2, <1>3, <1>4, <2>1, <2>3, <2>4 DEF AmendInv, Advances
<1>7. QED
  BY <1>1, <1>5, <1>6, ChainSteps DEF Accepted

(***************************************************************************)
(* A commit levels its trade again.                                        *)
(***************************************************************************)
(* A request whose act is recorded has its trade one act ahead by it.      *)
LEMMA AppliesAhead ==
  ASSUME AmendInv, NEW p \in Threads, NEW x, x = proc[p], x.pc = "apply"
  PROVE  /\ x \in Request /\ x.on \in Trades /\ x.prev = Current(x.on).hash /\ ~Ended(x.on)
         /\ x.op = "amend" => Ahead(x.on, x.new)
         /\ x.op = "terminate" => Ending(x.on) /\ x.new = x.prev
<1>1. /\ x \in Request /\ x # Idle /\ x.on = x.prev[1] /\ x.on = x.new[1]
  BY ThreadIs DEF AmendInv
<1>2. x.on \in Trades /\ x.prev \in TradeHashes /\ x.new \in TradeHashes /\ x.op \in {"amend", "terminate"}
  BY <1>1 DEF Request
<1>3. /\ x.op = "amend" <=> x.new # x.prev
      /\ x.prev = Current(x.on).hash /\ ~Ended(x.on) /\ Recorded(x)
      /\ x.op = "amend" /\ OnRegistry(x.new) => x.new \in Live(x.on)
  BY <1>1 DEF AmendInv, ThreadOK, Engaged
<1>4. Phase(x.on)
  BY <1>2 DEF AmendInv
<1>5. CASE x.op = "amend"
  <2>1. x.new \in Live(x.on)
    BY <1>3, <1>5 DEF Recorded
  <2>2. Ahead(x.on, x.new)
    BY <1>3, <1>4, <1>5, <2>1 DEF Phase, Open, Done, Ending, Ahead
  <2>3. QED
    BY <1>1, <1>2, <1>3, <1>5, <2>2
<1>6. CASE x.op = "terminate"
  <2>1. x.prev \in Closed(x.on)
    BY <1>1, <1>2, <1>3, <1>6 DEF Recorded, Closed
  <2>2. Ending(x.on)
    BY <1>3, <1>4, <2>1 DEF Phase, Open, Done, Ending, Ahead
  <2>3. QED
    BY <1>1, <1>2, <1>3, <1>6, <2>2
<1>7. QED
  BY <1>2, <1>5, <1>6

LEMMA CommitLevels ==
  ASSUME AmendInv, NEW p \in Threads, NEW e \in Event, Committed(p, e), NEW x, x = proc[p],
         NEW t, t = x.on
  PROVE  /\ t \in Trades /\ Shown(t)' = Signed(t) /\ \A u \in Trades \ {t} : Shown(u)' = Shown(u)
         /\ \A u : Signed(u)' = Signed(u)
         /\ \A u \in Trades : Phase(u)' /\ StreamOK(u)'
         /\ \A u \in Trades \ {t} : events'[u] = events[u]
         /\ \A u \in Trades : \A h : IsShown(u, h) => IsShown(u, h)'
         /\ Current(t)' = e /\ ~Ended(t) /\ x.prev = Current(t).hash
         /\ x.op = "terminate" => x.new = x.prev
<1>0. /\ x.pc = "apply" /\ TypeOK /\ confirmations' = confirmations
      /\ e.type = (IF x.op = "amend" THEN "AMENDED" ELSE "TERMINATED") /\ e.hash = x.new
      /\ e.prev = (IF x.op = "amend" THEN x.prev ELSE ZeroHash)
      /\ events' = [events EXCEPT ![t] = Append(@, e)]
  BY DEF Committed, AmendInv, chainVars
<1>1. /\ x \in Request /\ t \in Trades /\ x.prev = Current(t).hash /\ ~Ended(t)
      /\ x.op = "amend" => Ahead(t, x.new)
      /\ x.op = "terminate" => Ending(t) /\ x.new = x.prev
  BY <1>0, AppliesAhead
<1>2. x.op \in {"amend", "terminate"} /\ x.new[1] = t
  BY <1>0, <1>1, ThreadIs DEF Request
<1>. DEFINE n == Len(events[t]) + 1
<1>3. /\ \A u \in Trades \ {t} : events'[u] = events[u]
      /\ Len(events'[t]) = n /\ Current(t)' = e
      /\ DOMAIN events'[t] = DOMAIN events[t] \union {n}
      /\ \A i \in DOMAIN events[t] : events'[t][i] = events[t][i]
      /\ events'[t][n] = e
  <2>1. e.hash[1] = t
    BY <1>0, <1>2
  <2>2. events' = [events EXCEPT ![t] = Append(@, e)] /\ TypeOK /\ t \in Trades
    BY <1>0, <1>1
  <2>. HIDE DEF n
  <2>3. QED
    BY <2>1, <2>2, AppendEvent DEF n
<1>4. DOMAIN events[t] = 1..Len(events[t]) /\ Len(events[t]) \in Nat /\ n \notin DOMAIN events[t]
  BY <1>0, <1>1, CurrentType
<1>. HIDE DEF n
<1>5. \A h : IsShown(t, h)' <=> IsShown(t, h) \/ h = x.new
  BY <1>0, <1>3 DEF IsShown
<1>6. Shown(t)' = Shown(t) \union {Act(e.hash, e.prev, e.type = "TERMINATED")}
  <2>. DEFINE f(v) == Act(v.hash, v.prev, v.type = "TERMINATED")
  <2>1. {f(events'[t][i]) : i \in DOMAIN events'[t]} = {f(events[t][i]) : i \in DOMAIN events[t]} \union {f(e)}
    <3>. HIDE DEF f
    <3>1. QED
      BY <1>3
  <2>2. QED
    BY <2>1 DEF Shown, Act
<1>7. /\ \A u : Live(u)' = Live(u) /\ Closed(u)' = Closed(u) /\ Signed(u)' = Signed(u)
  BY <1>0, RegistryFrame
<1>8. Ended(t)' <=> x.op = "terminate"
  BY <1>0, <1>2, <1>3 DEF Ended
<1>9. \A i \in DOMAIN events[t] : events[t][i].type # "TERMINATED"
  BY <1>1 DEF AmendInv, StreamOK, Ended, Current
<1>10. CASE x.op = "amend"
  <2>1. Ahead(t, x.new)
    BY <1>1, <1>10
  <2>2. e.type = "AMENDED" /\ e.prev = Current(t).hash
    BY <1>0, <1>1, <1>10
  <2>3. Shown(t)' = Signed(t)
    BY <1>0, <1>6, <2>1, <2>2 DEF Ahead
  <2>4. Open(t)'
    BY <1>0, <1>3, <1>7, <1>8, <1>10, <2>1, <2>3 DEF Ahead, Open
  <2>5. \A i \in DOMAIN events[t] : events[t][i].hash # x.new
    BY <2>1 DEF Ahead, IsShown
  <2>6. StreamOK(t)'
    <3>1. StreamOK(t)
      BY <1>1 DEF AmendInv
    <3>2. \A i \in DOMAIN events'[t] : events'[t][i].type # "TERMINATED"
      BY <1>3, <1>9, <2>2
    <3>3. \A i \in DOMAIN events'[t] : events'[t][i].hash = x.new => i = n
      BY <1>3, <2>5
    <3>4. events'[t][n].hash = x.new
      BY <1>0, <1>3
    <3>5. ASSUME NEW i \in DOMAIN events'[t], NEW j \in DOMAIN events'[t],
                 events'[t][i].hash = events'[t][j].hash, events'[t][i].type = events'[t][j].type
          PROVE  i = j
      <4>1. CASE i = n \/ j = n
        BY <3>3, <3>4, <3>5, <4>1
      <4>2. CASE i # n /\ j # n
        <5>1. /\ i \in DOMAIN events[t] /\ events'[t][i] = events[t][i]
              /\ j \in DOMAIN events[t] /\ events'[t][j] = events[t][j]
          BY <1>3, <3>5, <4>2
        <5>2. QED
          BY <3>1, <3>5, <5>1 DEF StreamOK
      <4>3. QED
        BY <4>1, <4>2
    <3>6. QED
      BY <3>2, <3>5 DEF StreamOK
  <2>7. QED
    <3>1. ASSUME NEW u \in Trades, u # t
          PROVE  Phase(u)' /\ StreamOK(u)' /\ Shown(u)' = Shown(u) /\ \A h : IsShown(u, h)' = IsShown(u, h)
      BY <1>3, <1>7, <3>1, PhaseFrame, EventsFrame DEF AmendInv
    <3>2. Phase(t)'
      BY <2>4 DEF Phase
    <3>3. QED
      BY <1>1, <1>3, <1>5, <1>7, <2>3, <2>6, <3>1, <3>2
<1>11. CASE x.op = "terminate"
  <2>1. Ending(t) /\ x.new = Current(t).hash
    BY <1>1, <1>11
  <2>2. e.type = "TERMINATED" /\ e.prev = ZeroHash
    BY <1>0, <1>11
  <2>3. Shown(t)' = Signed(t)
    BY <1>0, <1>6, <2>1, <2>2 DEF Ending
  <2>4. Done(t)'
    BY <1>7, <1>8, <1>11, <2>1, <2>3 DEF Ending, Done
  <2>5. StreamOK(t)'
    <3>1. StreamOK(t)
      BY <1>1 DEF AmendInv
    <3>2. \A i \in DOMAIN events'[t] : events'[t][i].type = "TERMINATED" <=> i = n
      BY <1>3, <1>9, <2>2
    <3>3. Len(events'[t]) = n
      BY <1>3
    <3>4. ASSUME NEW i \in DOMAIN events'[t], NEW j \in DOMAIN events'[t],
                 events'[t][i].hash = events'[t][j].hash, events'[t][i].type = events'[t][j].type
          PROVE  i = j
      <4>1. CASE i = n \/ j = n
        BY <3>2, <3>4, <4>1
      <4>2. CASE i # n /\ j # n
        <5>1. /\ i \in DOMAIN events[t] /\ events'[t][i] = events[t][i]
              /\ j \in DOMAIN events[t] /\ events'[t][j] = events[t][j]
          BY <1>3, <3>4, <4>2
        <5>2. QED
          BY <3>1, <3>4, <5>1 DEF StreamOK
      <4>3. QED
        BY <4>1, <4>2
    <3>5. QED
      BY <3>2, <3>3, <3>4 DEF StreamOK
  <2>6. QED
    <3>1. ASSUME NEW u \in Trades, u # t
          PROVE  Phase(u)' /\ StreamOK(u)' /\ Shown(u)' = Shown(u) /\ \A h : IsShown(u, h)' = IsShown(u, h)
      BY <1>3, <1>7, <3>1, PhaseFrame, EventsFrame DEF AmendInv
    <3>2. Phase(t)'
      BY <2>4 DEF Phase
    <3>3. QED
      BY <1>1, <1>3, <1>5, <1>7, <2>3, <2>5, <3>1, <3>2
<1>12. QED
  BY <1>2, <1>10, <1>11

LEMMA CommitInv ==
  ASSUME AmendInv, NEW p \in Threads, AmendCommits(p) \/ TerminateCommits(p)
  PROVE  AmendInv'
<1>1. TypeOK /\ TypeOK'
  BY CommitType DEF AmendInv
<1>2. PICK e \in Event : Committed(p, e)
  BY <1>1, Commits
<1>3. PICK x, t : x = proc[p] /\ t = x.on
  OBVIOUS
<1>4. /\ t \in Trades
      /\ \A u \in Trades : Phase(u)' /\ StreamOK(u)'
      /\ \A u \in Trades \ {t} : events'[u] = events[u]
      /\ \A u \in Trades : \A h : IsShown(u, h) => IsShown(u, h)'
      /\ Current(t)' = e /\ ~Ended(t) /\ x.prev = Current(t).hash
      /\ x.op = "terminate" => x.new = x.prev
  BY <1>2, <1>3, CommitLevels
<1>5. /\ UNCHANGED chainVars /\ confirmations' = confirmations /\ txs' = txs
      /\ proc' = [proc EXCEPT ![p] = Idle] /\ x.pc = "apply" /\ x \in Request
      /\ e.hash = x.new /\ e.type = IF x.op = "amend" THEN "AMENDED" ELSE "TERMINATED"
  BY <1>1, <1>2, <1>3, Commits DEF Committed, chainVars
<1>6. proc'[p] = Idle /\ \A q \in Threads \ {p} : proc'[q] = proc[q]
  BY <1>1, <1>5 DEF TypeOK
<1>7. \A u \in Trades : RowOK(u)'
  <2>1. PICK row \in RowType : /\ booking' = [booking EXCEPT ![t] = row]
                              /\ Settled(x, booking[t], row)
    BY <1>1, <1>3, Commits
  <2>2. booking'[t] = row /\ (\A u \in Trades \ {t} : booking'[u] = booking[u]) /\ booking[t] \in RowType
    BY <1>1, <1>4, <2>1 DEF TypeOK, RowType
  <2>3. Ended(t)' <=> x.op # "amend"
    BY <1>4, <1>5 DEF Ended
  <2>4. /\ ~booking'[t].drifted => Derived(t)' = Current(t)'.hash
        /\ booking'[t].status = "TERMINATED" <=> x.op # "amend"
    <3>1. CASE x.op = "amend"
      BY <1>3, <1>4, <1>5, <2>1, <2>2, <3>1 DEF Derived, Settled
    <3>2. CASE x.op = "terminate"
      <4>1. /\ booking'[t].status = "TERMINATED" /\ booking'[t].drifted = booking[t].drifted
            /\ booking'[t].terms = booking[t].terms
        BY <2>1, <2>2, <3>2 DEF Settled, RowType
      <4>2. Derived(t)' = Derived(t)
        BY <4>1 DEF Derived
      <4>3. Current(t)'.hash = Current(t).hash
        BY <1>4, <1>5, <3>2
      <4>4. QED
        BY <1>4, <3>2, <4>1, <4>2, <4>3 DEF AmendInv, RowOK
    <3>3. QED
      BY <1>5, <3>1, <3>2 DEF Request
  <2>5. RowOK(t)'
    BY <2>3, <2>4 DEF RowOK
  <2>6. \A u \in Trades \ {t} : RowOK(u)'
    BY <1>4, <2>2, RowFrame DEF AmendInv
  <2>7. QED
    BY <2>5, <2>6
<1>8. ASSUME NEW i \in DOMAIN txs' PROVE CallOK(txs[i])'
  <2>1. i \in DOMAIN txs /\ CallOK(txs[i]) /\ txs[i].call.prev \in TradeHashes
    BY <1>1, <1>5, CallTypes DEF AmendInv
  <2>2. txs[i].call.prev[1] \in Trades
    BY <2>1, HashFacts
  <2>3. PICK c : c = txs[i].call.prev
    OBVIOUS
  <2>4. IsShown(c[1], c)'
    BY <1>4, <2>1, <2>2, <2>3 DEF CallOK
  <2>5. IsShown(txs[i].call.prev[1], txs[i].call.prev)'
    BY <1>5, <2>3, <2>4 DEF IsShown
  <2>6. QED
    BY <1>5, <2>1, <2>5, CallFrame
<1>9. ASSUME NEW q \in Threads PROVE ThreadOK(proc[q])'
  <2>1. CASE q = p
    BY <1>6, <2>1 DEF ThreadOK
  <2>2. CASE q # p /\ proc[q].on # t /\ proc[q] # Idle
    <3>1. proc[q].on \in Trades
      BY <1>1, <2>2 DEF TypeOK, Request
    <3>2. proc'[q] = proc[q] /\ events'[proc[q].on] = events[proc[q].on]
      BY <1>4, <1>6, <2>2, <3>1
    <3>3. QED
      BY <1>1, <1>5, <3>2, ThreadFrame DEF AmendInv
  <2>3. CASE q # p /\ proc[q].on = t /\ proc[q] # Idle
    <3>1. PICK y : y = proc[q]
      OBVIOUS
    <3>2. proc'[q] = y /\ y.on = t /\ y.pc \notin Engaged /\ ThreadOK(proc[q])
      BY <1>3, <1>5, <1>6, <2>3, <3>1 DEF AmendInv, Alone, Engaged
    <3>3. IsShown(t, y.prev)'
      BY <1>4, <2>3, <3>1, <3>2 DEF ThreadOK
    <3>4. QED
      BY <2>3, <3>1, <3>2, <3>3 DEF ThreadOK, Engaged, IsShown
  <2>4. CASE q # p /\ proc[q] = Idle
    BY <1>6, <2>4 DEF ThreadOK
  <2>5. QED
    BY <2>1, <2>2, <2>3, <2>4
<1>10. Alone'
  <2>1. Idle.pc \notin Engaged
    BY IdleFacts DEF Engaged
  <2>2. QED
    BY <1>6, <2>1 DEF AmendInv, Alone
<1>11. QED
  BY <1>1, <1>4, <1>7, <1>8, <1>9, <1>10 DEF AmendInv

(***************************************************************************)
(* The other steps leave the records and the events alone.                 *)
(***************************************************************************)
(* One thread moves to a state that fits, and transactions are only added. *)
LEMMA StillInv ==
  ASSUME AmendInv, TypeOK', confirmations' = confirmations, events' = events, booking' = booking,
         DOMAIN txs \subseteq DOMAIN txs', \A i \in DOMAIN txs : txs'[i] = txs[i],
         \A i \in DOMAIN txs' \ DOMAIN txs : CallOK(txs[i])',
         NEW p \in Threads, \A q \in Threads \ {p} : proc'[q] = proc[q],
         ThreadOK(proc[p])',
         proc'[p].pc \in Engaged => \A q \in Threads \ {p} : proc[q].pc \in Engaged => proc[q].on # proc'[p].on
  PROVE  AmendInv'
<1>1. TypeOK
  BY DEF AmendInv
<1>2. \A u \in Trades : Phase(u)' /\ StreamOK(u)' /\ RowOK(u)'
  BY PhaseFrame, RegistryFrame, EventsFrame, RowFrame DEF AmendInv
<1>3. \A i \in DOMAIN txs' : CallOK(txs[i])'
  <2>1. ASSUME NEW i \in DOMAIN txs PROVE CallOK(txs[i])'
    <3>1. IsShown(txs[i].call.prev[1], txs[i].call.prev) => IsShown(txs[i].call.prev[1], txs[i].call.prev)'
      BY DEF IsShown
    <3>2. QED
      BY <3>1, CallFrame DEF AmendInv
  <2>2. QED
    BY <2>1
<1>4. \A q \in Threads : ThreadOK(proc[q])'
  <2>1. ASSUME NEW q \in Threads, q # p PROVE ThreadOK(proc[q])'
    BY <1>1, <2>1, ThreadFrame DEF AmendInv
  <2>2. QED
    BY <2>1
<1>5. Alone'
  BY DEF AmendInv, Alone
<1>6. QED
  BY <1>2, <1>3, <1>4, <1>5 DEF AmendInv

LEMMA ArrivesInv ==
  ASSUME AmendInv, NEW p \in Threads, NEW t \in Trades, NEW y \in Request, Requested(p, t, y)
  PROVE  AmendInv'
<1>1. TypeOK /\ TypeOK'
  BY ArrivesType DEF AmendInv
<1>2. /\ confirmations' = confirmations /\ events' = events /\ booking' = booking /\ txs' = txs
      /\ proc' = [proc EXCEPT ![p] = y] /\ y.pc = "build" /\ y.on = t /\ y.prev = Current(t).hash
      /\ y.op = "amend" <=> y.new # y.prev
  BY DEF Requested, chainVars, dbVars
<1>3. proc'[p] = y /\ \A q \in Threads \ {p} : proc'[q] = proc[q]
  BY <1>1, <1>2 DEF TypeOK
<1>4. IsShown(t, y.prev)
  BY <1>1, <1>2, CurrentShown
<1>5. ThreadOK(proc[p])'
  BY <1>2, <1>3, <1>4 DEF ThreadOK, IsShown, Engaged
<1>6. y.pc \notin Engaged
  BY <1>2 DEF Engaged
<1>7. QED
  BY <1>1, <1>2, <1>3, <1>5, <1>6, StillInv

(* Whoever ends its request harms no one.                                  *)
LEMMA EndsInv ==
  ASSUME AmendInv, TypeOK', NEW p \in Threads, UNCHANGED <<chainVars, dbVars>>,
         proc' = [proc EXCEPT ![p] = Idle]
  PROVE  AmendInv'
<1>1. confirmations' = confirmations /\ events' = events /\ booking' = booking /\ txs' = txs
  BY DEF chainVars, dbVars
<1>2. proc'[p] = Idle /\ \A q \in Threads \ {p} : proc'[q] = proc[q]
  BY DEF AmendInv, TypeOK
<1>3. ThreadOK(proc[p])'
  BY <1>2 DEF ThreadOK
<1>4. Idle.pc \notin Engaged
  BY IdleFacts DEF Engaged
<1>5. QED
  BY <1>1, <1>2, <1>3, <1>4, StillInv

LEMMA BuildInv ==
  ASSUME AmendInv, NEW p \in Threads, Build(p)
  PROVE  AmendInv'
<1>1. TypeOK /\ TypeOK'
  BY SendType DEF AmendInv, SendStep
<1>2. UNCHANGED <<chainVars, dbVars>> /\ proc[p].pc = "build" /\ sender = NoOne
  BY DEF Build
<1>3. CASE Finish(p)
  BY <1>1, <1>2, <1>3, EndsInv DEF Finish, Goto
<1>4. CASE Accepts(proc[p]) /\ To(p, "broadcast")
  <2>0. PICK x : x = proc[p]
    OBVIOUS
  <2>1. /\ x \in Request /\ x # Idle /\ x.on = x.prev[1] /\ x.on = x.new[1] /\ x.on \in Trades
        /\ x.prev \in TradeHashes /\ x.new \in TradeHashes /\ x.op \in {"amend", "terminate"}
    BY <1>1, <1>2, <2>0, ThreadIs DEF Request
  <2>2. IsShown(x.on, x.prev) /\ (x.op = "amend" <=> x.new # x.prev)
    BY <2>0, <2>1 DEF AmendInv, ThreadOK
  <2>3. confirmations[x.prev].status = "Confirmed" /\ (x.op = "amend" => ~OnRegistry(x.new))
    BY <1>4, <2>0 DEF Accepts, OnRegistry
  <2>4. Open(x.on) /\ x.prev = Current(x.on).hash
    BY <1>1, <2>1, <2>2, <2>3, AcceptedIsOpen DEF AmendInv
  <2>5. PICK y : y = [x EXCEPT !.pc = "broadcast"]
    OBVIOUS
  <2>6. y \in Request /\ y.pc = "broadcast" /\ y.on = x.on /\ y.prev = x.prev /\ y.new = x.new /\ y.op = x.op
    BY <2>1, <2>5 DEF Request
  <2>7. proc' = [proc EXCEPT ![p] = y]
    BY <1>1, <1>4, <2>0, <2>5 DEF To, TypeOK
  <2>8. proc'[p] = y /\ \A q \in Threads \ {p} : proc'[q] = proc[q]
    BY <1>1, <2>7 DEF TypeOK
  <2>9. confirmations' = confirmations /\ events' = events /\ booking' = booking /\ txs' = txs
    BY <1>2 DEF chainVars, dbVars
  <2>10. ThreadOK(proc[p])'
    <3>1. /\ IsShown(x.on, x.prev)' /\ Current(x.on)' = Current(x.on) /\ Ended(x.on)' = Ended(x.on)
          /\ (x.op = "amend" => ~OnRegistry(x.new)')
      BY <2>2, <2>3, <2>9, EventsFrame DEF IsShown, Current, Ended, OnRegistry
    <3>2. QED
      BY <2>2, <2>4, <2>6, <2>8, <3>1 DEF ThreadOK, Open
  <2>11. \A q \in Threads \ {p} : proc[q].pc \in Engaged => proc[q].on # x.on
    <3>1. SUFFICES ASSUME NEW q \in Threads, proc[q].pc \in Engaged, proc[q].on = x.on
                   PROVE  FALSE
      OBVIOUS
    <3>2. proc[q].pc = "apply"
      BY <1>1, <1>2, <3>1, AmendmentAssumption DEF TypeOK, Engaged
    <3>3. PICK z : z = proc[q]
      OBVIOUS
    <3>4. (z.op = "amend" => Ahead(x.on, z.new)) /\ (z.op = "terminate" => Ending(x.on)) /\ z \in Request
          /\ z.prev = Current(x.on).hash
      BY <3>1, <3>2, <3>3, AppliesAhead
    <3>5. z.op \in {"amend", "terminate"}
      BY <3>4 DEF Request
    <3>6. Current(x.on).hash \in Live(x.on) /\ Closed(x.on) = {}
      BY <2>4 DEF Open
    <3>7. IsShown(x.on, Current(x.on).hash)
      BY <2>2, <2>4
    <3>8. QED
      BY <3>4, <3>5, <3>6, <3>7 DEF Ahead, Ending
  <2>12. QED
    BY <1>1, <2>6, <2>8, <2>9, <2>10, <2>11, StillInv
<1>5. QED
  BY <1>3, <1>4 DEF Build

LEMMA SubmitInv ==
  ASSUME AmendInv, NEW p \in Threads, Submit(p)
  PROVE  AmendInv'
<1>1. TypeOK /\ TypeOK'
  BY SendType DEF AmendInv, SendStep
<1>2. PICK x : x = proc[p]
  OBVIOUS
<1>3. PICK z : z = [call |-> CallOf(x), state |-> "pending"]
  OBVIOUS
<1>4. PICK y : y = [x EXCEPT !.pc = "wait", !.tx = Len(txs) + 1]
  OBVIOUS
<1>5. /\ x.pc = "broadcast" /\ txs' = Append(txs, z) /\ proc' = [proc EXCEPT ![p] = y]
      /\ confirmations' = confirmations /\ events' = events /\ booking' = booking /\ Len(txs) < MaxTxs
  BY <1>2, <1>3, <1>4 DEF Submit, Goto, CallOf, dbVars
<1>6. /\ x \in Request /\ x # Idle /\ x.on = x.prev[1] /\ x.on = x.new[1]
      /\ x.op \in {"amend", "terminate"} /\ x.prev \in TradeHashes /\ x.new \in TradeHashes
  BY <1>1, <1>2, <1>5, ThreadIs DEF Request
<1>7. z \in [call : Calls, state : TxState] /\ z.call = CallOf(x) /\ z.state = "pending"
  BY <1>3, <1>6 DEF CallOf, Calls, TxState
<1>8. txs \in Seq([call : Calls, state : TxState]) /\ Len(txs) \in Nat /\ DOMAIN txs = 1..Len(txs)
  BY <1>1 DEF TypeOK
<1>9. /\ DOMAIN txs' = DOMAIN txs \union {Len(txs) + 1} /\ txs'[Len(txs) + 1] = z
      /\ \A i \in DOMAIN txs : txs'[i] = txs[i]
  BY <1>5, <1>7, <1>8, AppendProperties
<1>10. Len(txs) + 1 \in 0..MaxTxs
  BY <1>5, <1>8, AmendmentAssumption
<1>11. y \in Request /\ y.pc = "wait" /\ y.tx = Len(txs) + 1 /\ y.on = x.on /\ y.prev = x.prev /\ y.new = x.new
       /\ y.op = x.op
  BY <1>4, <1>6, <1>10 DEF Request
<1>12. proc'[p] = y /\ \A q \in Threads \ {p} : proc'[q] = proc[q]
  BY <1>1, <1>5 DEF TypeOK
<1>13. /\ ThreadOK(x) /\ IsShown(x.on, x.prev) /\ (x.op = "amend" <=> x.new # x.prev)
       /\ x.prev = Current(x.on).hash /\ ~Ended(x.on)
       /\ (x.op = "amend" /\ OnRegistry(x.new) => x.new \in Live(x.on))
  BY <1>2, <1>5, <1>6 DEF AmendInv, ThreadOK, Engaged
<1>14. /\ IsShown(x.on, x.prev)' /\ Current(x.on)' = Current(x.on) /\ Ended(x.on)' = Ended(x.on)
       /\ Live(x.on)' = Live(x.on) /\ OnRegistry(x.new)' = OnRegistry(x.new)
  BY <1>5, <1>13, EventsFrame DEF IsShown, Current, Ended, Live, OnRegistry
<1>15. ThreadOK(proc[p])'
  <2>1. txs'[y.tx].call = CallOf(y)
    BY <1>7, <1>9, <1>11 DEF CallOf
  <2>2. QED
    BY <1>11, <1>12, <1>13, <1>14, <2>1 DEF ThreadOK, CallOf
<1>16. \A i \in DOMAIN txs' \ DOMAIN txs : CallOK(txs[i])'
  <2>1. CallOf(x).prev = x.prev /\ CallOf(x).new = x.new
    BY DEF CallOf
  <2>2. IsShown(CallOf(x).prev[1], CallOf(x).prev)'
    BY <1>6, <1>14, <2>1 DEF IsShown
  <2>3. CallOK(z)'
    BY <1>6, <1>7, <2>1, <2>2 DEF CallOK
  <2>4. ASSUME NEW i \in DOMAIN txs' \ DOMAIN txs PROVE CallOK(txs[i])'
    <3>1. txs'[i] = z
      BY <1>9
    <3>2. QED
      BY <2>3, <3>1 DEF CallOK, IsShown, Recorded, OnRegistry
  <2>5. QED
    BY <2>4
<1>17. \A q \in Threads \ {p} : proc[q].pc \in Engaged => proc[q].on # x.on
  BY <1>2, <1>5 DEF AmendInv, Alone, Engaged
<1>18. QED
  BY <1>1, <1>5, <1>9, <1>11, <1>12, <1>15, <1>16, <1>17, StillInv

(* The end of a send: to apply with its act recorded, or nowhere.          *)
LEMMA SettlesInv ==
  ASSUME AmendInv, NEW p \in Threads, NonceUsed(p) \/ Receipt(p) \/ NoReceipt(p)
  PROVE  AmendInv'
<1>1. TypeOK /\ TypeOK'
  BY SendType DEF AmendInv, SendStep
<1>2. UNCHANGED <<chainVars, dbVars>> /\ proc[p].pc \in {"broadcast", "wait"}
  BY DEF NonceUsed, Receipt, NoReceipt, Reconcile
<1>3. CASE Finish(p)
  BY <1>1, <1>2, <1>3, EndsInv DEF Finish, Goto
<1>4. CASE ~Finish(p)
  <2>0. PICK x : x = proc[p]
    OBVIOUS
  <2>1. x \in Request /\ x # Idle /\ (x.pc = "wait" => x.tx \in DOMAIN txs)
    BY <1>1, <1>2, <2>0, ThreadIs
  <2>2. /\ ThreadOK(x) /\ IsShown(x.on, x.prev) /\ (x.op = "amend" <=> x.new # x.prev)
        /\ x.prev = Current(x.on).hash /\ ~Ended(x.on)
        /\ (x.op = "amend" /\ OnRegistry(x.new) => x.new \in Live(x.on))
    BY <1>2, <2>0, <2>1 DEF AmendInv, ThreadOK, Engaged
  <2>3. To(p, "apply") /\ Recorded(x)
    <3>1. CASE NonceUsed(p) \/ NoReceipt(p)
      BY <1>4, <2>0, <3>1 DEF NonceUsed, NoReceipt, Reconcile
    <3>2. CASE Receipt(p)
      <4>1. To(p, "apply") /\ x.pc = "wait" /\ txs[x.tx].state = "mined"
        BY <1>4, <2>0, <3>2 DEF Receipt
      <4>2. txs[x.tx].call = CallOf(x) /\ Recorded(txs[x.tx].call)
        BY <2>1, <2>2, <4>1 DEF ThreadOK, AmendInv, CallOK
      <4>3. QED
        BY <4>1, <4>2 DEF Recorded, CallOf
    <3>3. QED
      BY <3>1, <3>2
  <2>4. PICK y : y = [x EXCEPT !.pc = "apply"]
    OBVIOUS
  <2>5. y \in Request /\ y.pc = "apply" /\ y.on = x.on /\ y.prev = x.prev /\ y.new = x.new /\ y.op = x.op
    BY <2>1, <2>4 DEF Request
  <2>6. proc' = [proc EXCEPT ![p] = y]
    BY <1>1, <2>0, <2>3, <2>4 DEF To, TypeOK
  <2>7. proc'[p] = y /\ \A q \in Threads \ {p} : proc'[q] = proc[q]
    BY <1>1, <2>6 DEF TypeOK
  <2>8. confirmations' = confirmations /\ events' = events /\ booking' = booking /\ txs' = txs
    BY <1>2 DEF chainVars, dbVars
  <2>9. /\ IsShown(x.on, x.prev)' /\ Current(x.on)' = Current(x.on) /\ Ended(x.on)' = Ended(x.on)
        /\ Live(x.on)' = Live(x.on) /\ OnRegistry(x.new)' = OnRegistry(x.new)
    BY <2>2, <2>8, EventsFrame DEF IsShown, Current, Ended, Live, OnRegistry
  <2>10. ThreadOK(proc[p])'
    BY <2>2, <2>3, <2>5, <2>7, <2>8, <2>9 DEF ThreadOK, Recorded, OnRegistry
  <2>11. \A q \in Threads \ {p} : proc[q].pc \in Engaged => proc[q].on # x.on
    BY <1>2, <2>0 DEF AmendInv, Alone, Engaged
  <2>12. QED
    BY <1>1, <2>5, <2>7, <2>8, <2>10, <2>11, StillInv
<1>5. QED
  BY <1>3, <1>4

LEMMA OthersInv ==
  ASSUME AmendInv, (\E p \in Threads : Abandon(p) \/ CommitFails(p)) \/ Crash
                   \/ \E t \in Trades : CreateLeg(t) \/ PutTerms(t) \/ AppendCompression(t)
  PROVE  AmendInv'
<1>1. TypeOK /\ TypeOK'
  BY OthersType DEF AmendInv
<1>2. ASSUME NEW p \in Threads, Abandon(p) \/ CommitFails(p)
      PROVE  AmendInv'
  BY <1>1, <1>2, EndsInv DEF Abandon, CommitFails, Finish, Goto
<1>3. ASSUME UNCHANGED <<chainVars, events>>, \A u \in Trades : RowOK(u)',
             \A p \in Threads : ThreadOK(proc[p])', Alone'
      PROVE  AmendInv'
  <2>1. confirmations' = confirmations /\ events' = events /\ txs' = txs
    BY <1>3 DEF chainVars
  <2>2. \A u \in Trades : Phase(u)' /\ StreamOK(u)'
    BY <2>1, PhaseFrame, RegistryFrame, EventsFrame DEF AmendInv
  <2>3. \A i \in DOMAIN txs' : CallOK(txs[i])'
    BY <2>1, CallFrame DEF AmendInv, IsShown
  <2>4. QED
    BY <1>1, <1>3, <2>2, <2>3 DEF AmendInv
<1>4. CASE Crash
  <2>1. UNCHANGED <<chainVars, dbVars>> /\ proc' = [p \in Threads |-> Idle]
    BY <1>4 DEF Crash
  <2>2. events' = events /\ booking' = booking /\ \A p \in Threads : proc'[p] = Idle
    BY <2>1 DEF dbVars
  <2>3. \A u \in Trades : RowOK(u)'
    BY <2>2, RowFrame DEF AmendInv
  <2>4. \A p \in Threads : ThreadOK(proc[p])'
    BY <2>2 DEF ThreadOK
  <2>5. Alone'
    BY <2>2, IdleFacts DEF Alone, Engaged
  <2>6. QED
    BY <1>3, <2>1, <2>2, <2>3, <2>4, <2>5
<1>5. ASSUME NEW t \in Trades, CreateLeg(t) \/ PutTerms(t) \/ AppendCompression(t)
      PROVE  AmendInv'
  <2>1. UNCHANGED <<chainVars, events, proc>> /\ confirmations' = confirmations /\ txs' = txs /\ events' = events
        /\ proc' = proc
    BY <1>5 DEF CreateLeg, PutTerms, WriteTerms, AppendCompression, chainVars
  <2>2. \A p \in Threads : ThreadOK(proc[p])'
    BY <1>1, <2>1, ThreadFrame DEF AmendInv
  <2>3. Alone'
    BY <2>1 DEF AmendInv, Alone
  <2>4. \A u \in Trades : RowOK(u)'
    <3>1. CASE CreateLeg(t) \/ PutTerms(t)
      <4>1. PICK y \in Terms : WriteTerms(t, y)
        BY <1>1, <3>1, WrittenTerms
      <4>2. /\ booking'[t].status = booking[t].status /\ booking'[t].drifted
            /\ \A u \in Trades \ {t} : booking'[u] = booking[u]
        BY <1>1, <4>1 DEF WriteTerms, TypeOK
      <4>3. Ended(t)' = Ended(t)
        BY <2>1, EventsFrame DEF Ended, Current
      <4>4. RowOK(t)'
        BY <4>2, <4>3 DEF AmendInv, RowOK
      <4>5. QED
        BY <2>1, <4>2, <4>4, RowFrame DEF AmendInv
    <3>2. CASE AppendCompression(t)
      BY <2>1, <3>2, RowFrame DEF AmendInv, AppendCompression
    <3>3. QED
      BY <1>5, <3>1, <3>2
  <2>5. QED
    BY <1>3, <2>1, <2>2, <2>3, <2>4
<1>6. QED
  BY <1>2, <1>4, <1>5

LEMMA InvNext == AmendInv /\ [Next]_vars => AmendInv'
<1>. SUFFICES ASSUME AmendInv, [Next]_vars PROVE AmendInv'
  OBVIOUS
<1>0. TypeOK /\ TypeOK'
  BY TypeNext DEF AmendInv
<1>1. CASE UNCHANGED vars
  <2>1. UNCHANGED <<confirmations, txs, booking, events, proc>>
    BY <1>1 DEF vars, chainVars, dbVars
  <2>2. \A u \in Trades : Phase(u)' /\ StreamOK(u)' /\ RowOK(u)'
    BY <2>1, PhaseFrame, RegistryFrame, EventsFrame, RowFrame DEF AmendInv
  <2>3. \A i \in DOMAIN txs' : CallOK(txs[i])'
    BY <2>1, CallFrame DEF AmendInv, IsShown
  <2>4. \A p \in Threads : ThreadOK(proc[p])'
    BY <1>0, <2>1, ThreadFrame DEF AmendInv
  <2>5. Alone'
    BY <2>1 DEF AmendInv, Alone
  <2>6. QED
    BY <1>0, <2>2, <2>3, <2>4, <2>5 DEF AmendInv
<1>2. ASSUME NEW p \in Threads, NEW t \in Trades, NEW k \in Keys \union {NoKey},
             TerminateArrives(p, t, k) \/ \E f \in Changes : AmendArrives(p, t, f, k)
      PROVE  AmendInv'
  BY <1>0, <1>2, Arrivals, ArrivesInv
<1>3. ASSUME NEW p \in Threads, Build(p) \/ Submit(p) \/ NonceUsed(p) \/ Receipt(p) \/ NoReceipt(p)
      PROVE  AmendInv'
  BY <1>3, BuildInv, SubmitInv, SettlesInv
<1>4. ASSUME NEW p \in Threads, AmendCommits(p) \/ TerminateCommits(p)
      PROVE  AmendInv'
  BY <1>4, CommitInv
<1>5. CASE (\E p \in Threads : Abandon(p) \/ CommitFails(p)) \/ Crash
           \/ \E t \in Trades : CreateLeg(t) \/ PutTerms(t) \/ AppendCompression(t)
  BY <1>5, OthersInv
<1>6. CASE Chain
  BY <1>6, ChainInv
<1>7. CASE Next
  BY <1>2, <1>3, <1>4, <1>5, <1>6, <1>7 DEF Next
<1>8. QED
  BY <1>1, <1>7


(***************************************************************************)
(* Initially every trade is level: a root record and the event of it.      *)
(***************************************************************************)
LEMMA InvInit == Init => AmendInv
<1>. SUFFICES ASSUME Init PROVE AmendInv
  OBVIOUS
<1>. DEFINE root == Registry!Recorded(Own, Cp, ZeroHash)
            none == Registry!NoRecord
            ev(t, h) == <<[type |-> "CONFIRMED", hash |-> h, prev |-> ZeroHash]>>
<1>1. root \in Conf /\ none \in Conf /\ root.status = "Confirmed" /\ root.prevHash = ZeroHash
      /\ none.status = "None"
  BY DEF Conf, Registry!Confirmation, Registry!Recorded, Registry!NoRecord, Registry!Bytes32, Registry!Status
<1>. HIDE DEF root, none
<1>2. PICK x \in [Trades -> Terms] :
        /\ booking = [t \in Trades |-> [status |-> "CONFIRMED", terms |-> x[t], drifted |-> FALSE]]
        /\ confirmations = [h \in TradeHashes \union {ZeroHash} |->
             IF \E t \in Trades : h = HashOf(t, x[t]) THEN root ELSE none]
        /\ events = [t \in Trades |-> ev(t, HashOf(t, x[t]))]
  BY DEF Init, root, none
<1>3. txs = <<>> /\ foldable = [t \in Trades |-> TRUE] /\ keys = {} /\ writes = 0 /\ proc = [p \in Threads |-> Idle]
      /\ sender = NoOne /\ faults = 0
  BY DEF Init
<1>4. \A t \in Trades : HashOf(t, x[t]) \in TradeHashes /\ HashOf(t, x[t])[1] = t
  BY HashFacts
<1>5. \A h \in TradeHashes : confirmations[h] = IF h = HashOf(h[1], x[h[1]]) THEN root ELSE none
  <2>1. ASSUME NEW h \in TradeHashes
        PROVE  (\E t \in Trades : h = HashOf(t, x[t])) <=> h = HashOf(h[1], x[h[1]])
    BY <1>4, HashFacts
  <2>2. QED
    BY <1>2, <2>1
<1>6. ASSUME NEW t \in Trades
      PROVE  /\ events[t] \in Seq(Event) /\ Len(events[t]) = 1 /\ DOMAIN events[t] = {1}
             /\ events[t][1].hash = HashOf(t, x[t]) /\ events[t][1].prev = ZeroHash
             /\ events[t][1].type = "CONFIRMED" /\ Current(t) = events[t][1]
  <2>. DEFINE e == [type |-> "CONFIRMED", hash |-> HashOf(t, x[t]), prev |-> ZeroHash]
  <2>1. e \in Event /\ e.type = "CONFIRMED" /\ e.hash = HashOf(t, x[t]) /\ e.prev = ZeroHash
    BY <1>4 DEF Event
  <2>2. events[t] = <<e>>
    BY <1>2
  <2>. HIDE DEF e
  <2>3. events[t] \in Seq(Event) /\ Len(events[t]) = 1 /\ DOMAIN events[t] = {1} /\ events[t][1] = e
    BY <2>1, <2>2
  <2>4. QED
    BY <2>1, <2>3 DEF Current
<1>. HIDE DEF ev
<1>7. TypeOK
  <2>1. ChainType
    <3>1. confirmations \in [TradeHashes \union {ZeroHash} -> Conf]
      BY <1>1, <1>2
    <3>2. txs \in Seq([call : Calls, state : TxState]) /\ Len(txs) = 0
      BY <1>3
    <3>3. QED
      BY <3>1, <3>2, AmendmentAssumption DEF ChainType, Conf
  <2>2. DeskType
    <3>1. booking \in [Trades -> RowType]
      BY <1>2 DEF RowType
    <3>2. events \in [Trades -> Seq(Event)]
      BY <1>2, <1>6
    <3>3. \A t \in Trades : Len(events[t]) > 0 /\ \A i \in DOMAIN events[t] : events[t][i].hash[1] = t
      BY <1>4, <1>6
    <3>4. QED
      BY <1>3, <3>1, <3>2, <3>3, AmendmentAssumption DEF DeskType
  <2>3. ThreadType
    BY <1>3, IdleFacts, AmendmentAssumption DEF ThreadType
  <2>4. QED
    BY <2>1, <2>2, <2>3 DEF TypeOK, ChainType, DeskType, ThreadType, RowType
<1>8. ASSUME NEW t \in Trades
      PROVE  Phase(t) /\ StreamOK(t) /\ RowOK(t)
  <2>1. Live(t) = {HashOf(t, x[t])} /\ Closed(t) = {} /\ Registered(t) = {HashOf(t, x[t])}
    BY <1>1, <1>4, <1>5 DEF Live, Closed, Registered, OnRegistry
  <2>2. Signed(t) = {Act(HashOf(t, x[t]), ZeroHash, FALSE)}
    <3>1. confirmations[HashOf(t, x[t])].prevHash = ZeroHash
      BY <1>1, <1>4, <1>5
    <3>2. QED
      BY <2>1, <3>1, SignedActs
  <2>3. Shown(t) = {Act(HashOf(t, x[t]), ZeroHash, FALSE)}
    <3>1. Shown(t) = {Act(events[t][1].hash, events[t][1].prev, events[t][1].type = "TERMINATED")}
      BY <1>6 DEF Shown
    <3>2. QED
      BY <1>6, <3>1 DEF Act
  <2>4. Phase(t)
    BY <1>6, <2>1, <2>2, <2>3 DEF Phase, Open, Ended
  <2>5. StreamOK(t)
    BY <1>6 DEF StreamOK
  <2>6. RowOK(t)
    BY <1>2, <1>6 DEF RowOK, Ended, Derived
  <2>7. QED
    BY <2>4, <2>5, <2>6
<1>9. (\A i \in DOMAIN txs : CallOK(txs[i])) /\ (\A p \in Threads : ThreadOK(proc[p])) /\ Alone
  BY <1>3, IdleFacts DEF ThreadOK, Alone, Engaged
<1>10. QED
  BY <1>7, <1>8, <1>9 DEF AmendInv

LEMMA InvAlways == Spec => []AmendInv
BY InvInit, InvNext, PTL DEF Spec

(* Bookings, records, transactions and threads are well formed in every    *)
(* reachable state; a request is about hashes of its own trade and holds   *)
(* the send lock exactly between its build and its receipt.                *)
THEOREM AmendmentTypeCorrect == Spec => []TypeOK
<1>1. AmendInv => TypeOK
  BY DEF AmendInv
<1>2. QED
  BY <1>1, InvAlways, PTL

(* No act is written twice, whatever is retried or overlaps.               *)
THEOREM AmendmentOneEventEach == Spec => []OneEventEach
<1>1. AmendInv => OneEventEach
  BY DEF AmendInv, StreamOK, OneEventEach
<1>2. QED
  BY <1>1, InvAlways, PTL

(* A row is TERMINATED exactly when its newest attestation ends it, and    *)
(* the booking hashes to what both parties signed unless POST of a leg or  *)
(* PUT of terms, which ask nobody for a signature, wrote it since.         *)
THEOREM AmendmentRowIsAttested == Spec => []RowIsAttested
<1>1. AmendInv => RowIsAttested
  BY DEF AmendInv, RowOK, RowIsAttested, Ended
<1>2. QED
  BY <1>1, InvAlways, PTL

(***************************************************************************)
(* The desk and the registry implement the signed record.                  *)
(***************************************************************************)
LEMMA SignedIn ==
  ASSUME TypeOK, NEW t, NEW a \in Signed(t)
  PROVE  a \in AllActs /\ (a.end => a.hash \in Closed(t)) /\ a.hash \in Registered(t)
<1>1. \A h \in TradeHashes : confirmations[h].prevHash \in TradeHashes \union {ZeroHash}
  <2>1. \A h \in TradeHashes : confirmations[h] \in Registry!Confirmation
    BY DEF TypeOK
  <2>2. QED
    BY <2>1 DEF Registry!Confirmation, Registry!Bytes32
<1>2. CASE a \in {Act(h, confirmations[h].prevHash, FALSE) : h \in Registered(t)}
  <2>1. PICK h \in Registered(t) : a = Act(h, confirmations[h].prevHash, FALSE)
    BY <1>2
  <2>2. a.hash = h /\ a.end = FALSE /\ h \in TradeHashes
    BY <2>1 DEF Act, Registered
  <2>3. a \in AllActs
    BY <1>1, <2>1, <2>2 DEF Act, AllActs
  <2>4. QED
    BY <2>1, <2>2, <2>3
<1>3. CASE a \in {Act(h, ZeroHash, TRUE) : h \in Closed(t)}
  <2>1. PICK h \in Closed(t) : a = Act(h, ZeroHash, TRUE)
    BY <1>3
  <2>2. a.hash = h /\ h \in TradeHashes /\ h \in Registered(t)
    BY <2>1 DEF Act, Closed, Registered, OnRegistry
  <2>3. a \in AllActs
    BY <2>1, <2>2 DEF Act, AllActs
  <2>4. QED
    BY <2>1, <2>2, <2>3
<1>4. QED
  BY <1>2, <1>3, SignedActs

(* An accepted call signs: the trade was level and open, the act is new.   *)
LEMMA AcceptedSigns ==
  ASSUME AmendInv, NEW i \in DOMAIN txs, Accepted(i), events' = events
  PROVE  Abstract!Next
<1>1. PICK c, t : c = txs[i].call /\ t = c.prev[1]
  OBVIOUS
<1>2. Advances(t, c)
  BY <1>1, AcceptedAdvances
<1>3. TypeOK /\ t \in Trades /\ Open(t) /\ c.prev = Current(t).hash /\ c.new[1] = t
  BY <1>2 DEF AmendInv, Advances
<1>4. c.prev \in TradeHashes /\ c.new \in TradeHashes /\ c.op \in {"amend", "terminate"}
  BY <1>1, <1>3, CallTypes
<1>5. PICK a : a = IF c.op = "amend" THEN Act(c.new, c.prev, FALSE) ELSE Act(c.prev, ZeroHash, TRUE)
  OBVIOUS
<1>6. Signed(t)' = Signed(t) \union {a} /\ \A u : u # t => Signed(u)' = Signed(u)
  BY <1>2, <1>5 DEF Advances
<1>7. \A u : Shown(u)' = Shown(u)
  BY EventsFrame DEF Shown, Act
<1>8. a \in AllActs /\ a \notin Signed(t)
  <2>1. CASE c.op = "amend"
    <3>1. a.hash = c.new /\ a \in AllActs
      BY <1>4, <1>5, <2>1 DEF Act, AllActs
    <3>2. c.new \notin Registered(t)
      BY <1>1, <2>1 DEF Accepted, Registry!Amend, Registered, OnRegistry
    <3>3. QED
      BY <1>3, <3>1, <3>2, SignedIn
  <2>2. CASE c.op = "terminate"
    <3>1. a.hash = c.prev /\ a.end /\ a \in AllActs
      BY <1>4, <1>5, <2>2 DEF Act, AllActs
    <3>2. Closed(t) = {}
      BY <1>3 DEF Open
    <3>3. QED
      BY <1>3, <3>1, <3>2, SignedIn
  <2>3. QED
    BY <1>4, <2>1, <2>2
<1>9. Signed(t) = Shown(t) /\ Signed(t) \intersect {b \in AllActs : b.end} = {}
  BY <1>3, SignedIn DEF Open
<1>10. Abstract!Sign(t)
  <2>1. [u \in Trades |-> Shown(u)]' = [u \in Trades |-> Shown(u)]
    BY <1>7
  <2>2. [u \in Trades |-> Signed(u)]' = [[u \in Trades |-> Signed(u)] EXCEPT ![t] = @ \union {a}]
    BY <1>3, <1>6
  <2>3. [u \in Trades |-> Signed(u)][t] = Signed(t) /\ [u \in Trades |-> Shown(u)][t] = Shown(t)
    BY <1>3
  <2>4. QED
    BY <1>8, <1>9, <2>1, <2>2, <2>3 DEF Abstract!Sign
<1>11. QED
  BY <1>3, <1>10 DEF Abstract!Next

(* A commit shows what was signed.                                         *)
LEMMA CommitShows ==
  ASSUME AmendInv, NEW p \in Threads, AmendCommits(p) \/ TerminateCommits(p)
  PROVE  Abstract!Next
<1>1. PICK e \in Event : Committed(p, e)
  BY Commits DEF AmendInv
<1>2. PICK x, t : x = proc[p] /\ t = x.on
  OBVIOUS
<1>3. /\ t \in Trades /\ Shown(t)' = Signed(t) /\ \A u \in Trades \ {t} : Shown(u)' = Shown(u)
      /\ \A u : Signed(u)' = Signed(u)
  BY <1>1, <1>2, CommitLevels
<1>4. Abstract!Show(t)
  <2>1. [u \in Trades |-> Signed(u)]' = [u \in Trades |-> Signed(u)]
    BY <1>3
  <2>2. [u \in Trades |-> Shown(u)]' = [[u \in Trades |-> Shown(u)] EXCEPT ![t] = [u \in Trades |-> Signed(u)][t]]
    BY <1>3
  <2>3. QED
    BY <2>1, <2>2 DEF Abstract!Show
<1>5. QED
  BY <1>3, <1>4 DEF Abstract!Next

LEMMA OthersStutter ==
  ASSUME confirmations' = confirmations, events' = events
  PROVE  UNCHANGED <<[t \in Trades |-> Signed(t)], [t \in Trades |-> Shown(t)]>>
<1>1. \A t : Signed(t)' = Signed(t) /\ Shown(t)' = Shown(t)
  BY RegistryFrame, EventsFrame DEF Signed, Shown, OnRegistry, Act
<1>2. QED
  BY <1>1

LEMMA RefinesInit == Init => Abstract!Init
<1>. SUFFICES ASSUME Init PROVE Abstract!Init
  OBVIOUS
<1>1. AmendInv /\ TypeOK
  BY InvInit DEF AmendInv
<1>2. ASSUME NEW t \in Trades
      PROVE  Signed(t) \in {{a} : a \in AllActs \ {b \in AllActs : b.end}} /\ Shown(t) = Signed(t)
  <2>1. DOMAIN events[t] = {1} /\ events[t][1].type = "CONFIRMED" /\ Current(t) = events[t][1]
    <3>1. PICK h : events[t] = <<[type |-> "CONFIRMED", hash |-> h, prev |-> ZeroHash]>>
      BY DEF Init
    <3>2. QED
      BY <3>1 DEF Current
  <2>2. PICK a : a = Act(events[t][1].hash, events[t][1].prev, FALSE)
    OBVIOUS
  <2>3. Shown(t) = {a} /\ ~a.end
    BY <2>1, <2>2 DEF Shown, Act
  <2>4. Signed(t) = Shown(t)
    <3>1. \A h \in TradeHashes : confirmations[h].status \in {"Confirmed", "None"}
      BY DEF Init, Registry!Recorded, Registry!NoRecord
    <3>2. Closed(t) = {} /\ ~Ended(t)
      BY <2>1, <3>1 DEF Closed, Ended
    <3>3. Current(t).hash \in Live(t)
      BY <1>1, <3>1, <3>2, CurrentShown, ShownRegistered DEF AmendInv, Registered, OnRegistry, Live
    <3>4. IsShown(t, Current(t).hash)
      BY <1>1, CurrentShown
    <3>5. QED
      BY <1>1, <3>2, <3>3, <3>4 DEF AmendInv, Phase, Open, Done, Ending, Ahead
  <2>5. a \in AllActs
    BY <1>1, <2>3, <2>4, SignedIn
  <2>6. QED
    BY <2>3, <2>4, <2>5
<1>3. QED
  BY <1>2 DEF Abstract!Init

(* Every step signs an act, shows what was signed, or is neither.          *)
LEMMA RefinesNext == AmendInv /\ [Next]_vars =>
                       [Abstract!Next]_<<[t \in Trades |-> Signed(t)], [t \in Trades |-> Shown(t)]>>
<1>. DEFINE Step == [Abstract!Next]_<<[t \in Trades |-> Signed(t)], [t \in Trades |-> Shown(t)]>>
<1>. SUFFICES ASSUME AmendInv, [Next]_vars PROVE Step
  OBVIOUS
<1>0. TypeOK
  BY DEF AmendInv
<1>1. CASE confirmations' = confirmations /\ events' = events
  BY <1>1, OthersStutter
<1>2. ASSUME NEW p \in Threads, NEW t \in Trades, NEW k \in Keys \union {NoKey},
             TerminateArrives(p, t, k) \/ \E f \in Changes : AmendArrives(p, t, f, k)
      PROVE  Step
  BY <1>1, <1>2 DEF TerminateArrives, AmendArrives, chainVars, dbVars
<1>3. ASSUME NEW p \in Threads, Build(p) \/ Submit(p) \/ NonceUsed(p) \/ Receipt(p) \/ NoReceipt(p)
      PROVE  Step
  BY <1>1, <1>3 DEF Build, Submit, NonceUsed, Receipt, NoReceipt, Reconcile, chainVars, dbVars
<1>4. ASSUME NEW p \in Threads, AmendCommits(p) \/ TerminateCommits(p)
      PROVE  Step
  BY <1>4, CommitShows
<1>5. CASE (\E p \in Threads : Abandon(p) \/ CommitFails(p)) \/ Crash
           \/ \E t \in Trades : CreateLeg(t) \/ PutTerms(t) \/ AppendCompression(t)
  BY <1>1, <1>5 DEF Abandon, CommitFails, Crash, CreateLeg, PutTerms, WriteTerms, AppendCompression, chainVars, dbVars
<1>6. CASE Chain
  <2>1. events' = events
    BY <1>6 DEF Chain, dbVars
  <2>2. QED
    BY <1>0, <1>1, <1>6, <2>1, ChainSteps, AcceptedSigns DEF Accepted
<1>7. CASE UNCHANGED vars
  BY <1>1, <1>7 DEF vars, chainVars, dbVars
<1>8. CASE Next
  <2>. HIDE DEF Step
  <2>1. QED
    BY <1>2, <1>3, <1>4, <1>5, <1>6, <1>8 DEF Next
<1>9. QED
  BY <1>7, <1>8

(* Amending and terminating implement the signed record: nothing is signed *)
(* on a record the desk has left behind or after an end, and the desk      *)
(* shows nothing but what was signed.                                      *)
THEOREM AmendmentInStep == Spec => InStep
BY RefinesInit, RefinesNext, InvAlways, PTL DEF Spec, InStep, Abstract!Spec
==============================================================================
