-------------------------- MODULE ConfirmationProofs --------------------------
(* Theorems about confirming a trade, for every set of trades, request     *)
(* threads, UTIs and terms, and any number of transactions and faults.     *)
EXTENDS Confirmation, SequenceTheorems, FiniteSetTheorems, TLAPS

(* The parts of TypeOK: what the chain, the tables and a thread look like. *)
ChainType ==
  /\ confirmations \in [TradeHashes \union {ZeroHash} -> Registry!Confirmation]
  /\ txs \in Seq(Tx)

TableType ==
  /\ booking \in [Trades -> [status : Statuses, uti : Utis \union {NoUti}, terms : Terms,
                             put : BOOLEAN]]
  /\ events \in [Trades -> Seq(EventType) \ {<< >>}]
  /\ anchors \in Seq(Row)
  /\ \A i \in DOMAIN anchors : anchors[i].tx \in DOMAIN txs

ThreadOK(x) ==
  /\ x \in Thread
  /\ x.pc # "idle" => x.on \in Trades
  /\ x.pc \in {"resolve", "check", "settle"} =>
       x.row \in DOMAIN anchors /\ anchors[x.row].trade = x.on
  /\ x.pc \in {"wait", "record"} => x.tx \in DOMAIN txs
  /\ x.pc = "put" => x.op \in Statuses
  /\ x.pc = "append" => x.op \in Appends
  /\ SignsHash(x) => x.hash \in TradeHashes

ThreadType == proc \in [Procs -> Thread] /\ \A p \in Procs : ThreadOK(proc[p])

CounterType ==
  /\ sender \in Requests \union {Scheduler, NoOne}
  /\ arrivals \in [Trades -> 0..MaxArrivals]
  /\ faults \in 0..MaxFaults

(* TypeOK is these four parts.                                             *)
LEMMA TypeParts == TypeOK <=> ChainType /\ TableType /\ ThreadType /\ CounterType
BY DEF TypeOK, ChainType, TableType, ThreadType, ThreadOK, CounterType, SignsHash

(* Transactions and rows are never removed, and a row stays with its trade. *)
Grows ==
  /\ DOMAIN txs \subseteq DOMAIN txs'
  /\ DOMAIN anchors \subseteq DOMAIN anchors'
  /\ \A i \in DOMAIN anchors : anchors'[i].trade = anchors[i].trade

(* What a thread must look like after a step.                              *)
Fits(x) ==
  /\ x \in Thread
  /\ x.pc # "idle" => x.on \in Trades
  /\ x.pc \in {"resolve", "check", "settle"} =>
       x.row \in DOMAIN anchors' /\ anchors'[x.row].trade = x.on
  /\ x.pc \in {"wait", "record"} => x.tx \in DOMAIN txs'
  /\ x.pc = "put" => x.op \in Statuses
  /\ x.pc = "append" => x.op \in Appends
  /\ SignsHash(x) => x.hash \in TradeHashes

(* A thread that holds no row and knows nothing of the chain.              *)
Fresh(x) == Fits(x) /\ x.pc \notin {"check", "settle", "wait", "record", "apply"}

(* An idle thread fits any state.                                          *)
LEMMA IdleOK == ThreadOK(Idle) /\ Fits(Idle) /\ Fresh(Idle)
BY DEF ThreadOK, Fits, Fresh, Idle, Thread, SignsHash

(* A step that changes one thread leaves the others well formed.           *)
LEMMA OneThread ==
  ASSUME ThreadType, Grows, NEW p \in Procs, Fits(proc'[p]), proc' = [proc EXCEPT ![p] = proc'[p]]
  PROVE  ThreadType'
<1>1. \A q \in Procs \ {p} : proc'[q] = proc[q]
  BY DEF ThreadType
<1>2. \A q \in Procs : Fits(proc'[q])
  BY <1>1 DEF ThreadType, ThreadOK, Grows, Fits, SignsHash
<1>3. proc' \in [Procs -> Thread]
  BY <1>2 DEF ThreadType, Fits
<1>4. QED
  BY <1>2, <1>3 DEF ThreadType, ThreadOK, Fits, SignsHash

(* A step that changes no thread leaves them well formed.                  *)
LEMMA NoThread ==
  ASSUME ThreadType, Grows, UNCHANGED proc
  PROVE  ThreadType'
BY DEF ThreadType, ThreadOK, Grows, SignsHash

-----------------------------------------------------------------------------
(* What each group of operations leaves alone.                             *)
LEMMA ArrivalFrame == Arrival => UNCHANGED <<chainVars, dbVars, sender, faults>>
BY DEF Arrival, ConfirmArrives, CountersignArrives, Arrive, ReconcileArrives, RequestArrives,
       EditArrives, PutArrives, AppendArrives

(* Arrivals are counted, never beyond the bound.                           *)
LEMMA ArrivalCounts ==
  Arrival => \/ UNCHANGED arrivals
             \/ \E t \in Trades : /\ arrivals[t] < MaxArrivals
                                  /\ arrivals' = [arrivals EXCEPT ![t] = @ + 1]
<1> SUFFICES ASSUME NEW p \in Requests, NEW t \in Trades,
                    \/ ConfirmArrives(p, t) \/ CountersignArrives(p, t)
                    \/ Arrive(p, t, "offchain", "offchain") \/ Arrive(p, t, "cancel", "cancel")
                    \/ ReconcileArrives(p, t) \/ RequestArrives(p, t) \/ EditArrives(p, t)
                    \/ (\E status \in Statuses : PutArrives(p, t, status))
                    \/ (\E type \in Appends : AppendArrives(p, t, type))
             PROVE  \/ UNCHANGED arrivals
                    \/ arrivals[t] < MaxArrivals /\ arrivals' = [arrivals EXCEPT ![t] = @ + 1]
  BY Zenon DEF Arrival
<1>1. CASE ConfirmArrives(p, t)
  BY <1>1 DEF ConfirmArrives
<1>2. CASE CountersignArrives(p, t)
  BY <1>2 DEF CountersignArrives
<1>3. QED
  BY <1>1, <1>2 DEF Arrive, ReconcileArrives, RequestArrives, EditArrives, PutArrives, AppendArrives

(* Resolving a row writes no transaction and no counter,                   *)
LEMMA ResolveFrame ==
  ASSUME NEW p, Resolve(p)
  PROVE  /\ UNCHANGED <<chainVars, sender, arrivals, faults>>
         /\ Settle(p) \/ (UNCHANGED events /\ (booking' = UtiFlushed(p) \/ booking' = booking))
         /\ UNCHANGED anchors \/ CheckFailed(p) \/ CheckAnchored(p) \/ Settle(p)
BY DEF Resolve, LockRow, CheckPending, CheckFailed, CheckAnchored, Settle

(* anchoring writes the tables only when it records or applies,            *)
LEMMA AnchorFrame ==
  ASSUME NEW p, Anchor(p)
  PROVE  /\ UNCHANGED <<arrivals, faults>>
         /\ UNCHANGED chainVars \/ Send(p)
         /\ Apply(p) \/ (UNCHANGED events /\ (booking' = UtiFlushed(p) \/ booking' = booking))
         /\ UNCHANGED anchors \/ RecordPending(p)
         /\ sender' \in {sender, p, NoOne}
BY DEF Anchor, dbVars, InFlightGuard, Send, SendRefused, SendRecorded, Receipt, ReceiptTimeout,
       RecordPending, Apply

(* and the remaining routes write a trade and its events.                  *)
LEMMA WriteFrame ==
  ASSUME NEW p, Write(p)
  PROVE  /\ UNCHANGED <<chainVars, anchors, sender, arrivals, faults>>
         /\ Finish(p)
         /\ \/ OffchainConfirm(p) \/ Cancel(p) \/ UpdateLeg(p) \/ PutStatus(p) \/ AppendEvent(p)
            \/ UNCHANGED events /\ booking' = UtiFlushed(p)
BY DEF Write, OffchainConfirm, Cancel, IssueUti, UpdateLeg, PutStatus, AppendEvent

(* A step is one of these, or a failure, a sweep, an hour, a leg or the    *)
(* chain, which each write one part of the state.                          *)
LEMMA StepCases ==
  [Next]_vars =>
    \/ UNCHANGED vars
    \/ Arrival
    \/ \E p \in Procs : Resolve(p) \/ Anchor(p) \/ Write(p)
    \/ \E p \in Procs : /\ FoldFails(p) /\ Finish(p)
                        /\ UNCHANGED <<chainVars, dbVars, sender, arrivals, faults>>
    \/ \E p \in Procs : /\ CommitFails(p) /\ Finish(p)
                        /\ UNCHANGED <<chainVars, dbVars, sender, arrivals>>
    \/ \E i \in DOMAIN anchors : Sweep(i) /\ UNCHANGED <<chainVars, dbVars, sender, arrivals, faults>>
    \/ \E i \in DOMAIN anchors : /\ Age(i)
                                 /\ UNCHANGED <<chainVars, booking, events, proc, sender, arrivals, faults>>
    \/ \E t \in Trades : /\ CreateLeg(t) \/ PutTerms(t)
                         /\ UNCHANGED <<chainVars, events, anchors, proc, sender, arrivals, faults>>
    \/ Chain /\ UNCHANGED <<dbVars, proc, sender, arrivals, faults>>
    \/ Crash /\ UNCHANGED <<chainVars, dbVars, arrivals>>
BY Zenon DEF Next, FoldFails, CommitFails, Sweep, Age, CreateLeg, PutTerms, Chain, Crash

(* The chain.  Only a send, the node and the miners touch it.              *)
LEMMA ChainSteps ==
  [Next]_vars => UNCHANGED chainVars \/ (\E p \in Procs : Send(p)) \/ Chain
BY StepCases, ArrivalFrame, ResolveFrame, AnchorFrame, WriteFrame DEF vars

(* A transaction keeps its hash, and once included its fate.  A record of  *)
(* the registry is never lost, and an included one was recorded.           *)
ChainGrows ==
  /\ DOMAIN txs \subseteq DOMAIN txs'
  /\ \A i \in DOMAIN txs : txs'[i].hash = txs[i].hash
  /\ \A h \in TradeHashes : OnRegistry(h) => OnRegistry(h)'

(* A transaction changes state and keeps its hash.                         *)
LEMMA SentInType ==
  ASSUME NEW s \in Seq(Tx), NEW i \in DOMAIN s, NEW state \in TxState
  PROVE  /\ [s EXCEPT ![i].state = state] \in Seq(Tx)
         /\ DOMAIN [s EXCEPT ![i].state = state] = DOMAIN s
         /\ \A j \in DOMAIN s : [s EXCEPT ![i].state = state][j].hash = s[j].hash
<1>1. s[i] \in Tx /\ s \in [1..Len(s) -> Tx] /\ Len(s) \in Nat /\ DOMAIN s = 1..Len(s)
  BY LenProperties
<1>2. [s[i] EXCEPT !.state = state] \in Tx
  BY <1>1 DEF Tx
<1>3. [s EXCEPT ![i].state = state] \in [1..Len(s) -> Tx]
  BY <1>1, <1>2
<1>4. QED
  BY <1>1, <1>3, SeqDef DEF Tx

(* Every step keeps the chain well formed and only adds to it.             *)
LEMMA ChainStep ==
  ASSUME TypeOK, [Next]_vars
  PROVE  ChainType' /\ ChainGrows
<1>1. ChainType
  BY TypeParts
<1>2. CASE UNCHANGED chainVars
  BY <1>1, <1>2 DEF chainVars, ChainType, ChainGrows, OnRegistry
<1>3. ASSUME NEW p \in Procs, Send(p) PROVE ChainType' /\ ChainGrows
  <2>1. proc[p].hash \in TradeHashes
    BY <1>3, TypeParts DEF ThreadType, ThreadOK, Send, SignsHash
  <2>2. /\ txs' = Append(txs, [hash |-> proc[p].hash, state |-> "pending"])
        /\ [hash |-> proc[p].hash, state |-> "pending"] \in Tx
        /\ UNCHANGED confirmations
    BY <1>3, <2>1 DEF Send, Broadcast, Tx, TxState
  <2>3. QED
    BY <1>1, <2>2, AppendProperties, LenProperties DEF ChainType, ChainGrows, OnRegistry
<1>4. ASSUME NEW i \in DOMAIN txs, Mine(i) \/ Drop(i) PROVE ChainType' /\ ChainGrows
  <2>1. \E state \in TxState : txs' = [txs EXCEPT ![i].state = state]
    BY <1>4 DEF Mine, Drop, TxState
  <2>2. txs' \in Seq(Tx) /\ DOMAIN txs' = DOMAIN txs /\ \A j \in DOMAIN txs : txs'[j].hash = txs[j].hash
    BY <1>1, <2>1, SentInType DEF ChainType
  <2>3. CASE UNCHANGED confirmations
    BY <1>1, <2>2, <2>3 DEF ChainType, ChainGrows, OnRegistry
  <2>4. CASE Registry!Confirm(txs[i].hash, Own, Cp)
    <3> DEFINE rec == Registry!Recorded(Own, Cp, ZeroHash)
    <3>1. confirmations' = [confirmations EXCEPT ![txs[i].hash] = rec]
      BY <2>4 DEF Registry!Confirm
    <3>2. rec \in Registry!Confirmation /\ rec.status = "Confirmed"
      BY DEF Registry!Recorded, Registry!Confirmation, Registry!Status, Registry!Bytes32
    <3>3. QED
      BY <1>1, <2>2, <3>1, <3>2 DEF ChainType, ChainGrows, OnRegistry
  <2>5. QED
    BY <1>4, <2>3, <2>4 DEF Mine, Drop
<1>5. QED
  BY <1>2, <1>3, <1>4, ChainSteps DEF Chain

-----------------------------------------------------------------------------
(* pending_anchors.  How a step may change a row: an open row that nobody  *)
(* holds is refreshed, the thread that holds a row closes it, time passes. *)
Held(i, p) == proc[p].pc \in {"check", "settle"} /\ proc[p].row = i

Refreshed(i) ==
  /\ anchors[i].status = "PENDING" /\ ~Locked(i)
  /\ \E p \in Procs : /\ proc[p].pc = "record"
                       /\ anchors'[i] = [anchors[i] EXCEPT !.att = proc[p].hash, !.tx = proc[p].tx]

ClosedBy(i, p, status) ==
  /\ Held(i, p)
  /\ proc' = [proc EXCEPT ![p] = proc'[p]] /\ proc'[p].pc \notin {"check", "settle"}
  /\ anchors'[i] = [anchors[i] EXCEPT !.status = status]
  /\ status = "ANCHORED" => /\ booking'[anchors[i].trade].status # "PENDING"
                            /\ Check(p, "anchored") \/ proc[p].pc = "settle"

Aged(i) ==
  /\ anchors[i].status = "PENDING" /\ anchors[i].age < 2
  /\ anchors'[i] = [anchors[i] EXCEPT !.age = @ + 1]

RowStep(i) ==
  \/ anchors'[i] = anchors[i]
  \/ Refreshed(i)
  \/ \E p \in Procs, status \in {"ANCHORED", "FAILED"} : ClosedBy(i, p, status)
  \/ Aged(i)

(* At most one row is added, open, for a trade without an open one.        *)
NewRow(i) ==
  /\ i = Len(anchors) + 1
  /\ anchors'[i].status = "PENDING" /\ anchors'[i].age = 0
  /\ \E p \in Procs : /\ proc[p].pc = "record"
                       /\ anchors'[i].att = proc[p].hash /\ anchors'[i].tx = proc[p].tx
  /\ OpenRows(anchors'[i].trade) = {}
  /\ \A j \in DOMAIN anchors : anchors'[j] = anchors[j]

AnchorStep ==
  /\ anchors' \in Seq(Row)
  /\ DOMAIN anchors \subseteq DOMAIN anchors'
  /\ \A i \in DOMAIN anchors' : anchors'[i].tx \in DOMAIN txs'
  /\ \A i \in DOMAIN anchors : RowStep(i)
  /\ \A i \in DOMAIN anchors' \ DOMAIN anchors : NewRow(i)

(* A step that leaves the table alone is a step of the table.              *)
LEMMA AnchorsKept ==
  ASSUME TableType, ChainGrows, UNCHANGED anchors
  PROVE  AnchorStep
BY DEF TableType, ChainGrows, AnchorStep, RowStep

(* So is one that changes a single row in one of the four ways.            *)
LEMMA RowChanged ==
  ASSUME TableType, ChainGrows, NEW i \in DOMAIN anchors, NEW x \in Row, x.tx \in DOMAIN txs',
         anchors' = [anchors EXCEPT ![i] = x], anchors'[i] = x => RowStep(i)
  PROVE  AnchorStep
<1>1. anchors \in [1..Len(anchors) -> Row] /\ Len(anchors) \in Nat /\ DOMAIN anchors = 1..Len(anchors)
  BY LenProperties DEF TableType
<1>2. /\ anchors' \in [1..Len(anchors) -> Row]
      /\ DOMAIN anchors' = DOMAIN anchors
      /\ \A j \in DOMAIN anchors : anchors'[j] = IF j = i THEN x ELSE anchors[j]
  BY <1>1
<1>3. anchors' \in Seq(Row)
  BY <1>1, <1>2, SeqDef
<1>4. QED
  BY <1>2, <1>3 DEF TableType, ChainGrows, AnchorStep, RowStep

(* Four operations and the passing of time write the table.                *)
LEMMA AnchorsSteps ==
  [Next]_vars =>
    \/ UNCHANGED anchors
    \/ \E p \in Procs : CheckFailed(p) \/ CheckAnchored(p) \/ Settle(p) \/ RecordPending(p)
    \/ \E i \in DOMAIN anchors : Age(i)
BY StepCases, ArrivalFrame, ResolveFrame, AnchorFrame, WriteFrame DEF vars, dbVars

(* trades and trade_events.  A step leaves every status and event alone, or *)
(* decides one trade: one event and the status that goes with it; or it is *)
(* one of the routes that write the status alone, or the event alone.      *)
StatusesKept == \A s \in Trades : /\ booking'[s].status = booking[s].status
                                  /\ booking'[s].put = booking[s].put

Decides(t, type, hash, att) ==
  /\ \A s \in Trades : booking'[s].status = IF s = t THEN type ELSE booking[s].status
  /\ \A s \in Trades : booking'[s].put = booking[s].put
  /\ events' = [events EXCEPT ![t] = Append(@, Event(type, hash, att))]

SetsStatus(t) ==
  /\ booking'[t].put
  /\ \A s \in Trades \ {t} : booking'[s].status = booking[s].status /\ booking'[s].put = booking[s].put
  /\ UNCHANGED events

Appended(t, type) ==
  /\ StatusesKept
  /\ events' = [events EXCEPT ![t] = Append(@, Event(type, NoHash, NoHash))]

BookStep ==
  \/ StatusesKept /\ UNCHANGED events
  \/ \E p \in Procs :
       \/ Settle(p) /\ Decides(proc[p].on, "CONFIRMED", anchors[proc[p].row].hash, anchors[proc[p].row].att)
       \/ Apply(p) /\ Decides(proc[p].on, "CONFIRMED", proc[p].hash, proc[p].hash)
       \/ OffchainConfirm(p) /\ Decides(proc[p].on, "CONFIRMED", NoHash, NoHash)
       \/ Cancel(p) /\ Decides(proc[p].on, "CANCELLED", NoHash, NoHash)
       \/ PutStatus(p) /\ SetsStatus(proc[p].on)
       \/ AppendEvent(p) /\ Appended(proc[p].on, proc[p].op)

BookingType == [Trades -> [status : Statuses, uti : Utis \union {NoUti}, terms : Terms, put : BOOLEAN]]

(* The operations that write trades or their events.                       *)
LEMMA BookSteps ==
  [Next]_vars =>
    \/ UNCHANGED <<booking, events>>
    \/ \E p \in Procs : /\ booking' = UtiFlushed(p) \/ booking' = booking
                        /\ UNCHANGED events
    \/ \E p \in Procs : Settle(p) \/ Apply(p) \/ OffchainConfirm(p) \/ Cancel(p)
    \/ \E p \in Procs : UpdateLeg(p) \/ PutStatus(p) \/ AppendEvent(p)
    \/ \E t \in Trades : CreateLeg(t) \/ PutTerms(t)
BY StepCases, ArrivalFrame, ResolveFrame, AnchorFrame, WriteFrame DEF vars, dbVars

(* Flushing a generated UTI changes no status.                             *)
LEMMA UtiKeepsStatus ==
  ASSUME TypeOK, NEW p \in Procs
  PROVE  /\ UtiFlushed(p) \in BookingType
         /\ \A s \in Trades : /\ UtiFlushed(p)[s].status = booking[s].status
                             /\ UtiFlushed(p)[s].put = booking[s].put
<1>1. booking \in BookingType
  BY DEF TypeOK, BookingType
<1>2. CASE proc[p].newUti
  <2>1. proc[p].hash \in TradeHashes
    BY <1>2, TypeParts DEF ThreadType, ThreadOK, SignsHash
  <2>2. proc[p].hash[2] \in Utis
    BY <2>1 DEF TradeHashes, TradeHash
  <2>3. QED
    BY <1>1, <1>2, <2>2 DEF UtiFlushed, BookingType
<1>3. CASE ~proc[p].newUti
  BY <1>1, <1>3 DEF UtiFlushed
<1>4. QED
  BY <1>2, <1>3

(* _apply_lifecycle_transition writes the event and its status.            *)
LEMMA TransitionDecides ==
  ASSUME TypeOK, NEW p \in Procs, NEW type \in {"CONFIRMED", "CANCELLED"},
         NEW hash \in TradeHashes \union {NoHash}, NEW att \in TradeHashes \union {NoHash},
         proc[p].pc # "idle", Transition(p, type, hash, att)
  PROVE  /\ booking' \in BookingType
         /\ events' \in [Trades -> Seq(EventType) \ {<< >>}]
         /\ Decides(proc[p].on, type, hash, att)
<1> DEFINE t == proc[p].on
<1>1. t \in Trades
  BY TypeParts DEF ThreadType, ThreadOK
<1>2. /\ UtiFlushed(p) \in BookingType
      /\ \A s \in Trades : /\ UtiFlushed(p)[s].status = booking[s].status
                          /\ UtiFlushed(p)[s].put = booking[s].put
  BY UtiKeepsStatus
<1>3. booking' = [UtiFlushed(p) EXCEPT ![t].status = type]
  BY DEF Transition
<1>4. /\ booking' \in BookingType
      /\ \A s \in Trades : /\ booking'[s].status = IF s = t THEN type ELSE booking[s].status
                          /\ booking'[s].put = booking[s].put
  BY <1>1, <1>2, <1>3 DEF BookingType, Statuses
<1>5. events' = [events EXCEPT ![t] = Append(@, Event(type, hash, att))]
  BY DEF Transition
<1>6. events \in [Trades -> Seq(EventType) \ {<< >>}]
  BY DEF TypeOK
<1>7. Event(type, hash, att) \in EventType
  BY DEF Event, EventType
<1>8. Append(events[t], Event(type, hash, att)) \in Seq(EventType) \ {<< >>}
  BY <1>1, <1>6, <1>7, AppendProperties, LenProperties
<1>9. QED
  BY <1>1, <1>4, <1>5, <1>6, <1>8 DEF Decides

(* Every step of the system is a step of trades and events.                *)
LEMMA BookStepHolds ==
  ASSUME TypeOK, [Next]_vars
  PROVE  /\ booking' \in BookingType
         /\ events' \in [Trades -> Seq(EventType) \ {<< >>}]
         /\ BookStep
<1>1. booking \in BookingType /\ events \in [Trades -> Seq(EventType) \ {<< >>}]
  BY DEF TypeOK, BookingType
<1>2. CASE UNCHANGED <<booking, events>>
  BY <1>1, <1>2 DEF BookStep, StatusesKept
<1>3. ASSUME NEW p \in Procs, booking' = UtiFlushed(p) \/ booking' = booking, UNCHANGED events
      PROVE booking' \in BookingType /\ UNCHANGED events /\ BookStep
  BY <1>1, <1>3, UtiKeepsStatus DEF BookStep, StatusesKept
<1>4. ASSUME NEW p \in Procs, Settle(p) \/ Apply(p) \/ OffchainConfirm(p) \/ Cancel(p)
      PROVE  booking' \in BookingType /\ events' \in [Trades -> Seq(EventType) \ {<< >>}] /\ BookStep
  <2>1. ThreadOK(proc[p])
    BY TypeParts DEF ThreadType
  <2>2. CASE Settle(p)
    <3>1. anchors[proc[p].row] \in Row
      BY <2>1, <2>2, LenProperties DEF ThreadOK, Settle, TypeOK
    <3>2. anchors[proc[p].row].hash \in TradeHashes /\ anchors[proc[p].row].att \in TradeHashes
      BY <3>1 DEF Row
    <3>3. QED
      BY <2>2, <3>2, TransitionDecides DEF Settle, BookStep
  <2>3. CASE Apply(p)
    <3>1. proc[p].hash \in TradeHashes
      BY <2>1, <2>3 DEF ThreadOK, Apply, SignsHash
    <3>2. QED
      BY <2>3, <3>1, TransitionDecides DEF Apply, BookStep
  <2>4. CASE OffchainConfirm(p)
    BY <2>4, TransitionDecides DEF OffchainConfirm, BookStep
  <2>5. CASE Cancel(p)
    BY <2>5, TransitionDecides DEF Cancel, BookStep
  <2>6. QED
    BY <1>4, <2>2, <2>3, <2>4, <2>5
<1>5. ASSUME NEW t \in Trades, NEW x \in Terms, NewTerms(t, x), UNCHANGED events
      PROVE booking' \in BookingType /\ UNCHANGED events /\ BookStep
  BY <1>1, <1>5 DEF NewTerms, BookingType, BookStep, StatusesKept
<1>6. ASSUME NEW p \in Procs, UpdateLeg(p)
      PROVE \E t \in Trades, x \in Terms : NewTerms(t, x) /\ UNCHANGED events
  <2>1. proc[p].on \in Trades
    BY <1>6, TypeParts DEF ThreadType, ThreadOK, UpdateLeg
  <2>2. QED
    BY <1>6, <2>1 DEF UpdateLeg
<1>7. ASSUME NEW t \in Trades, CreateLeg(t) \/ PutTerms(t)
      PROVE \E x \in Terms : NewTerms(t, x) /\ UNCHANGED events
  BY <1>7 DEF CreateLeg, PutTerms
<1>8. ASSUME NEW p \in Procs, PutStatus(p)
      PROVE  booking' \in BookingType /\ UNCHANGED events /\ BookStep
  <2>1. proc[p].on \in Trades /\ proc[p].op \in Statuses
    BY <1>8, TypeParts DEF ThreadType, ThreadOK, PutStatus
  <2>2. booking' = [booking EXCEPT ![proc[p].on].status = proc[p].op, ![proc[p].on].put = TRUE]
        /\ UNCHANGED events
    BY <1>8 DEF PutStatus
  <2>3. booking' \in BookingType /\ SetsStatus(proc[p].on)
    BY <1>1, <2>1, <2>2 DEF BookingType, SetsStatus
  <2>4. QED
    BY <1>8, <2>2, <2>3 DEF BookStep
<1>9. ASSUME NEW p \in Procs, AppendEvent(p)
      PROVE  /\ UNCHANGED booking /\ events' \in [Trades -> Seq(EventType) \ {<< >>}]
             /\ BookStep
  <2> DEFINE t == proc[p].on
             e == Event(proc[p].op, NoHash, NoHash)
  <2>1. t \in Trades /\ proc[p].op \in Appends
    BY <1>9, TypeParts DEF ThreadType, ThreadOK, AppendEvent
  <2>2. e \in EventType
    BY <2>1 DEF Event, EventType
  <2>3. UNCHANGED booking /\ events' = [events EXCEPT ![t] = Append(@, e)]
    BY <1>9 DEF AppendEvent
  <2>4. Appended(t, proc[p].op)
    BY <2>3 DEF Appended, StatusesKept
  <2> HIDE DEF e
  <2>5. Append(events[t], e) \in Seq(EventType) \ {<< >>}
    BY <1>1, <2>1, <2>2, AppendProperties, LenProperties
  <2>6. QED
    BY <1>1, <1>9, <2>1, <2>3, <2>4, <2>5 DEF BookStep
<1>10. QED
  BY <1>1, <1>2, <1>3, <1>4, <1>5, <1>6, <1>7, <1>8, <1>9, BookSteps

(* Every step of the system is a step of pending_anchors.                  *)
LEMMA AnchorStepHolds ==
  ASSUME TypeOK, [Next]_vars
  PROVE  AnchorStep
<1>1. ChainGrows /\ ChainType'
  BY ChainStep
<1>2. TableType /\ ThreadType
  BY TypeParts
<1>3. \A i \in DOMAIN anchors : anchors[i] \in Row /\ anchors[i].tx \in DOMAIN txs'
  BY <1>1, <1>2, LenProperties DEF TableType, ChainGrows
<1>4. CASE UNCHANGED anchors
  BY <1>1, <1>2, <1>4, AnchorsKept
<1>5. ASSUME NEW p \in Procs, CheckFailed(p) \/ CheckAnchored(p) \/ Settle(p),
             NEW status \in {"ANCHORED", "FAILED"},
             anchors' = [anchors EXCEPT ![proc[p].row].status = status],
             proc' = [proc EXCEPT ![p] = proc'[p]], proc'[p].pc \notin {"check", "settle"},
             status = "ANCHORED" => /\ booking'[proc[p].on].status # "PENDING"
                                    /\ Check(p, "anchored") \/ proc[p].pc = "settle"
      PROVE  AnchorStep
  <2> DEFINE i == proc[p].row
             x == [anchors[i] EXCEPT !.status = status]
  <2>1. proc[p].pc \in {"check", "settle"}
    BY <1>5 DEF CheckFailed, CheckAnchored, Check, Settle
  <2>2. i \in DOMAIN anchors /\ anchors[i].trade = proc[p].on
    BY <1>2, <2>1 DEF ThreadType, ThreadOK
  <2>3. x \in Row /\ x.tx \in DOMAIN txs'
    BY <1>3, <2>2 DEF Row
  <2>4. anchors' = [anchors EXCEPT ![i] = x]
    BY <1>5
  <2>5. anchors'[i] = x => RowStep(i)
    BY <1>5, <2>1, <2>2 DEF RowStep, ClosedBy, Held
  <2> HIDE DEF x, i
  <2>6. QED
    BY <1>1, <1>2, <2>2, <2>3, <2>4, <2>5, RowChanged
<1>6. ASSUME NEW p \in Procs, CheckFailed(p) PROVE AnchorStep
  <2>1. AfterResolve(p)
    BY <1>6 DEF CheckFailed
  <2>2. proc' = [proc EXCEPT ![p] = proc'[p]] /\ proc'[p].pc \notin {"check", "settle"}
    BY <1>2, <2>1 DEF AfterResolve, Finish, Idle, ThreadType, Thread
  <2>3. QED
    BY <1>5, <1>6, <2>2 DEF CheckFailed
<1>7. ASSUME NEW p \in Procs, CheckAnchored(p), ~UNCHANGED anchors PROVE AnchorStep
  <2>1. proc' = [proc EXCEPT ![p] = Idle] /\ booking[proc[p].on].status # "PENDING" /\ booking' = booking
        /\ anchors' = [anchors EXCEPT ![proc[p].row].status = "ANCHORED"]
    BY <1>7 DEF CheckAnchored, Finish
  <2>2. proc' = [proc EXCEPT ![p] = proc'[p]] /\ proc'[p].pc \notin {"check", "settle"}
    BY <1>2, <2>1 DEF Idle, ThreadType
  <2>3. QED
    BY <1>5, <1>7, <2>1, <2>2 DEF CheckAnchored
<1>8. ASSUME NEW p \in Procs, Settle(p) PROVE AnchorStep
  <2>1. proc' = [proc EXCEPT ![p] = proc'[p]] /\ proc'[p].pc \notin {"check", "settle"}
    BY <1>2, <1>8 DEF Settle, Finish, Idle, ThreadType
  <2>2. booking'[proc[p].on].status = "CONFIRMED"
    <3>1. proc[p].on \in Trades /\ proc[p].row \in DOMAIN anchors
      BY <1>2, <1>8 DEF ThreadType, ThreadOK, Settle
    <3>2. anchors[proc[p].row].hash \in TradeHashes /\ anchors[proc[p].row].att \in TradeHashes
      BY <1>3, <3>1 DEF Row
    <3>3. Decides(proc[p].on, "CONFIRMED", anchors[proc[p].row].hash, anchors[proc[p].row].att)
      BY <1>8, <3>2, TransitionDecides DEF Settle
    <3>4. QED
      BY <3>1, <3>3 DEF Decides
  <2>3. QED
    BY <1>5, <1>8, <2>1, <2>2 DEF Settle
<1>9. ASSUME NEW p \in Procs, RecordPending(p) PROVE AnchorStep
  <2> DEFINE t == proc[p].on
  <2>1. t \in Trades /\ proc[p].hash \in TradeHashes /\ proc[p].tx \in DOMAIN txs' /\ proc[p].tx \in Nat \ {0}
        /\ proc[p].tx \in DOMAIN txs
    BY <1>1, <1>2, <1>9, LenProperties DEF ThreadType, ThreadOK, RecordPending, ChainGrows, Thread, TypeOK, SignsHash
  <2>2. CASE OpenRows(t) = {} /\ anchors' = Append(anchors, [trade |-> t, status |-> "PENDING",
               hash |-> proc[p].hash, att |-> proc[p].hash, tx |-> proc[p].tx, age |-> 0])
    <3> DEFINE x == [trade |-> t, status |-> "PENDING", hash |-> proc[p].hash,
                     att |-> proc[p].hash, tx |-> proc[p].tx, age |-> 0]
    <3>1. x \in Row
      BY <2>1 DEF Row
    <3>2. /\ anchors' \in Seq(Row)
          /\ DOMAIN anchors = 1..Len(anchors) /\ Len(anchors) \in Nat
          /\ DOMAIN anchors' = 1..(Len(anchors) + 1)
          /\ \A j \in DOMAIN anchors : anchors'[j] = anchors[j]
          /\ anchors'[Len(anchors) + 1] = x
      BY <1>2, <2>2, <3>1, AppendProperties, LenProperties DEF TableType
    <3>3. \A i \in DOMAIN anchors' \ DOMAIN anchors : NewRow(i)
      BY <1>9, <2>2, <3>2 DEF NewRow, RecordPending
    <3>4. \A i \in DOMAIN anchors' : anchors'[i].tx \in DOMAIN txs'
      BY <1>3, <2>1, <3>2
    <3>5. QED
      BY <3>2, <3>3, <3>4 DEF AnchorStep, RowStep
  <2>3. ASSUME NEW i \in OpenRows(t),
               anchors' = [anchors EXCEPT ![i].att = proc[p].hash, ![i].tx = proc[p].tx]
        PROVE  AnchorStep
    <3> DEFINE x == [anchors[i] EXCEPT !.att = proc[p].hash, !.tx = proc[p].tx]
    <3>1. i \in DOMAIN anchors /\ anchors[i].status = "PENDING" /\ ~Locked(i)
      BY <1>9, <2>3 DEF OpenRows, RecordPending
    <3>2. x \in Row /\ x.tx \in DOMAIN txs'
      BY <1>3, <2>1, <3>1 DEF Row
    <3>3. anchors' = [anchors EXCEPT ![i] = x]
      BY <1>3, <2>3, <3>1 DEF Row
    <3>4. anchors'[i] = x => RowStep(i)
      BY <1>9, <3>1 DEF RowStep, Refreshed, RecordPending
    <3> HIDE DEF x
    <3>5. QED
      BY <1>1, <1>2, <3>1, <3>2, <3>3, <3>4, RowChanged
  <2>4. QED
    BY <1>9, <2>2, <2>3 DEF RecordPending
<1>10. ASSUME NEW i \in DOMAIN anchors, Age(i) PROVE AnchorStep
  <2> DEFINE x == [anchors[i] EXCEPT !.age = @ + 1]
  <2>1. x \in Row /\ x.tx \in DOMAIN txs'
    <3>1. anchors[i].age + 1 \in 0..2
      BY <1>3, <1>10 DEF Age, Row
    <3>2. QED
      BY <1>3, <3>1 DEF Row
  <2>2. anchors' = [anchors EXCEPT ![i] = x]
    BY <1>10 DEF Age
  <2>3. anchors'[i] = x => RowStep(i)
    BY <1>10 DEF Age, RowStep, Aged
  <2> HIDE DEF x
  <2>4. QED
    BY <1>1, <1>2, <2>1, <2>2, <2>3, RowChanged
<1>11. QED
  BY <1>4, <1>6, <1>7, <1>8, <1>9, <1>10, AnchorsSteps

-----------------------------------------------------------------------------
(* The threads.                                                            *)
LEMMA GrowsHolds ==
  ASSUME TypeOK, [Next]_vars
  PROVE  Grows
<1>1. ChainGrows /\ AnchorStep /\ TableType
  BY ChainStep, AnchorStepHolds, TypeParts
<1>2. \A i \in DOMAIN anchors : anchors[i] \in Row
  BY <1>1, LenProperties DEF TableType
<1>3. \A i \in DOMAIN anchors : anchors'[i].trade = anchors[i].trade
  <2> SUFFICES ASSUME NEW i \in DOMAIN anchors PROVE anchors'[i].trade = anchors[i].trade
    OBVIOUS
  <2>1. RowStep(i) /\ anchors[i] \in Row
    BY <1>1, <1>2 DEF AnchorStep
  <2>2. QED
    BY <2>1 DEF RowStep, Refreshed, ClosedBy, Aged, Row
<1>4. QED
  BY <1>1, <1>3 DEF Grows, ChainGrows, AnchorStep

(* The operations that change what a thread is doing.                      *)
LEMMA ThreadsSteps ==
  [Next]_vars =>
    \/ UNCHANGED proc
    \/ Arrival
    \/ \E p \in Procs : Resolve(p) \/ Anchor(p) \/ Finish(p)
    \/ \E i \in DOMAIN anchors : Sweep(i)
    \/ Crash
BY StepCases, WriteFrame DEF vars

(* A request that arrives starts with nothing in hand.                     *)
LEMMA ArrivalMoves ==
  ASSUME TypeOK, Grows, Arrival
  PROVE  \E p \in Procs : Fresh(proc'[p]) /\ proc' = [proc EXCEPT ![p] = proc'[p]]
<1>1. PICK p \in Requests, t \in Trades :
         \/ ConfirmArrives(p, t)
         \/ CountersignArrives(p, t)
         \/ Arrive(p, t, "offchain", "offchain")
         \/ Arrive(p, t, "cancel", "cancel")
         \/ ReconcileArrives(p, t)
         \/ RequestArrives(p, t)
         \/ EditArrives(p, t)
         \/ \E status \in Statuses : PutArrives(p, t, status)
         \/ \E type \in Appends : AppendArrives(p, t, type)
  BY DEF Arrival
<1>2. p \in Procs /\ proc \in [Procs -> Thread]
  BY DEF Procs, TypeOK
<1>0. Idle \in Thread
  BY DEF Idle, Thread
<1>3. booking[t].uti \in Utis \union {NoUti} /\ booking[t].terms \in Terms
  BY DEF TypeOK
<1>4. \A u \in UtiChoices(t) : u \in Utis
  BY <1>3 DEF UtiChoices
<1>5. \A u \in Utis : TradeHash(t, u, booking[t].terms) \in TradeHashes
  BY <1>3 DEF TradeHashes
<1>6. CASE ConfirmArrives(p, t)
  <2> DEFINE x(u) == [Idle EXCEPT !.pc = "guard", !.op = "confirm", !.on = t,
                                  !.hash = TradeHash(t, u, booking[t].terms),
                                  !.newUti = (booking[t].uti = NoUti)]
  <2>1. PICK u \in UtiChoices(t) : proc' = [proc EXCEPT ![p] = x(u)]
    BY <1>6 DEF ConfirmArrives
  <2>2. \A h \in TradeHashes, new \in BOOLEAN :
           LET y == [Idle EXCEPT !.pc = "guard", !.op = "confirm", !.on = t, !.hash = h, !.newUti = new]
           IN  Fits(y) /\ y.pc = "guard"
    <3> SUFFICES ASSUME NEW h \in TradeHashes, NEW new \in BOOLEAN
                 PROVE  LET y == [Idle EXCEPT !.pc = "guard", !.op = "confirm", !.on = t, !.hash = h,
                                              !.newUti = new]
                        IN  Fits(y) /\ y.pc = "guard"
      OBVIOUS
    <3> DEFINE y == [Idle EXCEPT !.pc = "guard", !.op = "confirm", !.on = t, !.hash = h, !.newUti = new]
    <3>1. y \in Thread
      BY <1>0 DEF Thread, AllOps
    <3>2. y.pc = "guard" /\ y.on = t /\ y.hash = h
      BY <1>0 DEF Thread
    <3> HIDE DEF y
    <3>3. Fits(y) /\ y.pc = "guard"
      BY <3>1, <3>2 DEF Fits
    <3>4. QED
      BY <3>3 DEF y
  <2>3. Fresh(x(u))
    BY <1>4, <1>5, <2>2 DEF Fresh
  <2>4. QED
    BY <1>2, <2>1, <2>3
<1>7. CASE CountersignArrives(p, t)
  <2>1. booking[t].uti \in Utis
    BY <1>3, <1>7 DEF CountersignArrives
  <2>2. proc' = [proc EXCEPT ![p] = [Idle EXCEPT !.pc = "send", !.op = "countersign", !.on = t,
                                       !.hash = TradeHash(t, booking[t].uti, booking[t].terms)]]
    BY <1>7 DEF CountersignArrives
  <2>3. \A h \in TradeHashes :
           Fresh([Idle EXCEPT !.pc = "send", !.op = "countersign", !.on = t, !.hash = h])
    BY DEF Fresh, Fits, Idle, Thread, AllOps
  <2>4. QED
    BY <1>2, <1>5, <2>1, <2>2, <2>3
<1>8. \A pcn \in {"offchain", "cancel", "edit"} :
         Fresh([Idle EXCEPT !.pc = pcn, !.op = pcn, !.on = t])
  <2> SUFFICES ASSUME NEW pcn \in {"offchain", "cancel", "edit"}
               PROVE  Fresh([Idle EXCEPT !.pc = pcn, !.op = pcn, !.on = t])
    OBVIOUS
  <2> DEFINE y == [Idle EXCEPT !.pc = pcn, !.op = pcn, !.on = t]
  <2>1. y \in Thread
    BY <1>0 DEF Thread, AllOps
  <2>2. y.pc = pcn /\ y.op = pcn /\ y.on = t /\ y.newUti = FALSE
    BY DEF Idle
  <2> HIDE DEF y
  <2>3. Fresh(y)
    BY <2>1, <2>2 DEF Fresh, Fits, SignsHash
  <2>4. QED
    BY <2>3 DEF y
<1>9. CASE Arrive(p, t, "offchain", "offchain") \/ Arrive(p, t, "cancel", "cancel")
  BY <1>2, <1>8, <1>9 DEF Arrive
<1>10. CASE ReconcileArrives(p, t)
  <2>1. PICK i \in OpenRows(t) :
           proc' = [proc EXCEPT ![p] = [Idle EXCEPT !.pc = "resolve", !.op = "reconcile",
                                                    !.on = t, !.row = i]]
    BY <1>10 DEF ReconcileArrives
  <2>2. i \in DOMAIN anchors /\ i \in Nat /\ anchors[i].trade = t
    BY TypeParts, LenProperties DEF OpenRows, TableType
  <2>3. i \in DOMAIN anchors' /\ anchors'[i].trade = t
    BY <2>2 DEF Grows
  <2>4. Fresh([Idle EXCEPT !.pc = "resolve", !.op = "reconcile", !.on = t, !.row = i])
    BY <2>2, <2>3 DEF Fresh, Fits, Idle, Thread, AllOps, SignsHash
  <2>5. QED
    BY <1>2, <2>1, <2>4
<1>11. CASE RequestArrives(p, t)
  <2>1. PICK u \in UtiChoices(t) :
           proc' = [proc EXCEPT ![p] = [Idle EXCEPT !.pc = "request", !.op = "request", !.on = t,
                                        !.hash = TradeHash(t, u, booking[t].terms), !.newUti = TRUE]]
    BY <1>11 DEF RequestArrives
  <2>2. \A h \in TradeHashes :
           Fresh([Idle EXCEPT !.pc = "request", !.op = "request", !.on = t, !.hash = h, !.newUti = TRUE])
    BY DEF Fresh, Fits, Idle, Thread, AllOps, SignsHash
  <2>3. QED
    BY <1>2, <1>4, <1>5, <2>1, <2>2
<1>12. CASE EditArrives(p, t)
  BY <1>2, <1>8, <1>12 DEF EditArrives
<1>13. ASSUME NEW pcn \in {"put", "append"}, NEW opn \in Statuses \union Appends,
              pcn = "put" => opn \in Statuses, pcn = "append" => opn \in Appends
       PROVE  Fresh([Idle EXCEPT !.pc = pcn, !.op = opn, !.on = t])
  <2> DEFINE y == [Idle EXCEPT !.pc = pcn, !.op = opn, !.on = t]
  <2>1. y \in Thread
    BY <1>0 DEF Thread
  <2>2. y.pc = pcn /\ y.op = opn /\ y.on = t /\ y.newUti = FALSE
    BY DEF Idle
  <2>3. opn # "confirm"
    BY DEF Statuses, Appends
  <2> HIDE DEF y
  <2>4. Fresh(y)
    BY <1>13, <2>1, <2>2, <2>3 DEF Fresh, Fits, SignsHash
  <2>5. QED
    BY <2>4 DEF y
<1>14. ASSUME NEW status \in Statuses, PutArrives(p, t, status)
       PROVE  Fresh(proc'[p]) /\ proc' = [proc EXCEPT ![p] = proc'[p]]
  BY <1>2, <1>13, <1>14 DEF PutArrives
<1>15. ASSUME NEW type \in Appends, AppendArrives(p, t, type)
       PROVE  Fresh(proc'[p]) /\ proc' = [proc EXCEPT ![p] = proc'[p]]
  BY <1>2, <1>13, <1>15 DEF AppendArrives
<1>16. QED
  BY <1>1, <1>2, <1>6, <1>7, <1>9, <1>10, <1>11, <1>12, <1>14, <1>15

(* So does a thread that is done,                                          *)
LEMMA FinishMoves ==
  ASSUME TypeOK, NEW p \in Procs, Finish(p)
  PROVE  Fresh(proc'[p]) /\ proc' = [proc EXCEPT ![p] = proc'[p]]
BY IdleOK DEF Finish, TypeOK

(* and one that goes on to send after its row was resolved.                *)
LEMMA AfterResolveMoves ==
  ASSUME TypeOK, NEW p \in Procs, AfterResolve(p), proc[p].pc # "idle"
  PROVE  Fresh(proc'[p]) /\ proc' = [proc EXCEPT ![p] = proc'[p]]
<1>1. ThreadOK(proc[p]) /\ proc \in [Procs -> Thread]
  BY TypeParts DEF ThreadType
<1>2. CASE proc[p].op = "confirm"
  BY <1>1, <1>2 DEF AfterResolve, Fresh, Fits, ThreadOK, Thread, SignsHash
<1>3. CASE proc[p].op # "confirm"
  BY <1>3, FinishMoves DEF AfterResolve
<1>4. QED
  BY <1>2, <1>3

(* Thread p takes the row it resolves; it finds it anchored and keeps it.  *)
Takes(p) ==
  /\ proc[p].pc = "resolve" /\ ~Locked(proc[p].row) /\ anchors[proc[p].row].status = "PENDING"
  /\ proc' = [proc EXCEPT ![p].pc = "check"]
  /\ UNCHANGED anchors

Keeps(p) ==
  /\ Check(p, "anchored")
  /\ proc' = [proc EXCEPT ![p].pc = "settle"]
  /\ UNCHANGED anchors

Moves(p) == Fresh(proc'[p]) /\ proc' = [proc EXCEPT ![p] = proc'[p]]

(* A resolving thread takes its row, keeps it, or lets go.                 *)
LEMMA ResolveMoves ==
  ASSUME TypeOK, NEW p \in Procs, Resolve(p)
  PROVE  Takes(p) \/ Keeps(p) \/ Moves(p)
<1>1. proc[p].pc \in {"resolve", "check", "settle"}
  BY DEF Resolve, LockRow, CheckPending, CheckFailed, CheckAnchored, Check, Settle
<1>2. CASE AfterResolve(p)
  BY <1>1, <1>2, AfterResolveMoves DEF Moves
<1>3. CASE Finish(p)
  BY <1>3, FinishMoves DEF Moves
<1>4. QED
  BY <1>2, <1>3 DEF Resolve, LockRow, CheckPending, CheckFailed, CheckAnchored, Settle, Takes, Keeps

(* A thread that holds a row works on the trade of that row.               *)
LEMMA HolderFits ==
  ASSUME TypeOK, Grows, NEW p \in Procs, Takes(p) \/ Keeps(p)
  PROVE  Fits(proc'[p]) /\ proc' = [proc EXCEPT ![p] = proc'[p]]
<1>1. ThreadOK(proc[p]) /\ proc \in [Procs -> Thread]
  BY TypeParts DEF ThreadType
<1>2. proc[p].pc \in {"resolve", "check"}
  BY DEF Takes, Keeps, Check
<1>3. /\ proc[p].row \in DOMAIN anchors'
      /\ anchors'[proc[p].row].trade = proc[p].on
  BY <1>1, <1>2 DEF ThreadOK, Grows
<1>4. ASSUME NEW pcn \in {"check", "settle"}, proc' = [proc EXCEPT ![p].pc = pcn]
      PROVE  Fits(proc'[p]) /\ proc' = [proc EXCEPT ![p] = proc'[p]]
  BY <1>1, <1>2, <1>3, <1>4 DEF Fits, ThreadOK, Thread, SignsHash
<1>5. QED
  BY <1>4 DEF Takes, Keeps

(* A thread on its way to an anchor holds no row.                          *)
LEMMA AnchorFits ==
  ASSUME TypeOK, [Next]_vars, Grows, NEW p \in Procs, Anchor(p)
  PROVE  Fits(proc'[p]) /\ proc' = [proc EXCEPT ![p] = proc'[p]] /\ proc'[p].pc \notin {"check", "settle"}
<1>1. ThreadOK(proc[p]) /\ proc \in [Procs -> Thread] /\ TableType /\ ChainType
  BY TypeParts DEF ThreadType
<1>2. CASE Finish(p)
  BY <1>2, FinishMoves DEF Fresh
<1>3. CASE InFlightGuard(p)
  <2>1. CASE proc' = [proc EXCEPT ![p].pc = "send"]
    BY <1>1, <1>3, <2>1 DEF InFlightGuard, Fits, ThreadOK, Thread, SignsHash
  <2>2. ASSUME NEW i \in OpenRows(proc[p].on), proc' = [proc EXCEPT ![p].pc = "resolve", ![p].row = i]
        PROVE  Fits(proc'[p]) /\ proc' = [proc EXCEPT ![p] = proc'[p]] /\ proc'[p].pc \notin {"check", "settle"}
    <3>1. i \in DOMAIN anchors /\ i \in Nat /\ anchors[i].trade = proc[p].on
      BY <1>1, LenProperties DEF OpenRows, TableType
    <3>2. i \in DOMAIN anchors' /\ anchors'[i].trade = proc[p].on
      BY <3>1 DEF Grows
    <3>3. proc'[p] = [proc[p] EXCEPT !.pc = "resolve", !.row = i]
      BY <1>1, <2>2 DEF Thread
    <3>4. Fits([proc[p] EXCEPT !.pc = "resolve", !.row = i])
      BY <1>1, <1>3, <3>1, <3>2 DEF InFlightGuard, Fits, ThreadOK, Thread, SignsHash
    <3>5. proc'[p].pc = "resolve"
      BY <1>1, <3>3 DEF Thread
    <3>6. QED
      BY <1>1, <2>2, <3>3, <3>4, <3>5
  <2>3. QED
    BY <1>3, <2>1, <2>2 DEF InFlightGuard
<1>4. CASE Send(p)
  <2>1. Len(txs) + 1 \in DOMAIN txs' /\ Len(txs) + 1 \in Nat
    BY <1>1, <1>4, AppendProperties, LenProperties DEF Send, Broadcast, ChainType, ThreadOK, SignsHash, Tx, TxState
  <2>2. proc'[p] = [proc[p] EXCEPT !.pc = "wait", !.tx = Len(txs) + 1]
    BY <1>1, <1>4 DEF Send, Thread
  <2>3. Fits([proc[p] EXCEPT !.pc = "wait", !.tx = Len(txs) + 1])
    BY <1>1, <1>4, <2>1 DEF Send, Fits, ThreadOK, Thread, SignsHash
  <2>4. proc' = [proc EXCEPT ![p] = proc'[p]]
    BY <1>1, <1>4 DEF Send
  <2>5. QED
    BY <2>2, <2>3, <2>4
<1>5. CASE proc' = [proc EXCEPT ![p].pc = "apply"] /\ proc[p].pc \in {"wait", "send"}
  BY <1>1, <1>5 DEF Fits, ThreadOK, Thread, SignsHash
<1>6. CASE proc' = [proc EXCEPT ![p].pc = "record"] /\ proc[p].pc = "wait"
  BY <1>1, <1>6 DEF Grows, Fits, ThreadOK, Thread, SignsHash
<1>7. CASE SendRecorded(p)
  BY <1>5, <1>7 DEF SendRecorded
<1>8. CASE Receipt(p)
  BY <1>2, <1>5, <1>8 DEF Receipt
<1>9. CASE ReceiptTimeout(p)
  BY <1>2, <1>5, <1>6, <1>9 DEF ReceiptTimeout
<1>10. QED
  BY <1>2, <1>3, <1>4, <1>7, <1>8, <1>9 DEF Anchor, SendRefused, RecordPending, Apply

(* The scheduler's next row.                                               *)
LEMMA SweepMoves ==
  ASSUME TypeOK, Grows, NEW i \in DOMAIN anchors, Sweep(i)
  PROVE  Moves(Scheduler)
<1>1. anchors[i] \in Row /\ i \in Nat /\ proc \in [Procs -> Thread] /\ Scheduler \in Procs
  BY LenProperties DEF TypeOK, Procs
<1>2. i \in DOMAIN anchors' /\ anchors'[i].trade = anchors[i].trade /\ anchors[i].trade \in Trades
  BY <1>1 DEF Grows, Row
<1>3. Fresh([Idle EXCEPT !.pc = "resolve", !.op = "sweep", !.on = anchors[i].trade, !.row = i])
  BY <1>1, <1>2 DEF Fresh, Fits, Idle, Thread, SignsHash
<1>4. QED
  BY <1>1, <1>3 DEF Sweep, Moves

(* What a step does to the threads.                                        *)
ThreadStep ==
  \/ UNCHANGED proc
  \/ \E p \in Procs : Takes(p) \/ Keeps(p) \/ Moves(p)
  \/ \E p \in Procs : /\ Anchor(p) /\ Fits(proc'[p]) /\ proc'[p].pc \notin {"check", "settle"}
                      /\ proc' = [proc EXCEPT ![p] = proc'[p]]
  \/ Crash

(* Every step of the system is a step of the threads.                      *)
LEMMA ThreadStepHolds ==
  ASSUME TypeOK, [Next]_vars
  PROVE  ThreadStep
<1>1. Grows
  BY GrowsHolds
<1>2. CASE Arrival
  BY <1>1, <1>2, ArrivalMoves DEF Moves, ThreadStep
<1>3. ASSUME NEW p \in Procs, Resolve(p) PROVE ThreadStep
  BY <1>3, ResolveMoves DEF ThreadStep
<1>4. ASSUME NEW p \in Procs, Anchor(p) PROVE ThreadStep
  BY <1>1, <1>4, AnchorFits DEF ThreadStep
<1>5. ASSUME NEW p \in Procs, Finish(p) PROVE ThreadStep
  BY <1>5, FinishMoves DEF Moves, ThreadStep
<1>6. ASSUME NEW i \in DOMAIN anchors, Sweep(i) PROVE ThreadStep
  BY <1>1, <1>6, SweepMoves DEF ThreadStep, Procs
<1>7. QED
  BY <1>2, <1>3, <1>4, <1>5, <1>6, ThreadsSteps DEF ThreadStep

(* Every step keeps the threads well formed.                               *)
LEMMA ThreadTypeStep ==
  ASSUME TypeOK, [Next]_vars
  PROVE  ThreadType'
<1>1. ThreadType /\ Grows /\ ThreadStep
  BY TypeParts, GrowsHolds, ThreadStepHolds
<1>2. CASE UNCHANGED proc
  BY <1>1, <1>2, NoThread
<1>3. ASSUME NEW p \in Procs, Takes(p) \/ Keeps(p) PROVE ThreadType'
  BY <1>1, <1>3, HolderFits, OneThread
<1>4. ASSUME NEW p \in Procs, Fits(proc'[p]), proc' = [proc EXCEPT ![p] = proc'[p]] PROVE ThreadType'
  BY <1>1, <1>4, OneThread
<1>5. CASE Crash
  <2>1. proc' = [p \in Procs |-> Idle]
    BY <1>5 DEF Crash
  <2>2. QED
    BY <2>1, IdleOK DEF ThreadType, ThreadOK, Fits, SignsHash
<1>6. QED
  BY <1>1, <1>2, <1>3, <1>4, <1>5 DEF ThreadStep, Moves, Fresh

(* The send lock and the counters stay in their bounds.                    *)
LEMMA CounterTypeStep ==
  ASSUME TypeOK, [Next]_vars
  PROVE  CounterType'
<1>1. CounterType
  BY TypeParts
<1>2. \A p \in Procs : p \in Requests \union {Scheduler, NoOne}
  BY DEF Procs
<1>3. sender' \in {sender, NoOne} \/ \E p \in Procs : sender' = p
  BY StepCases, ArrivalFrame, ResolveFrame, AnchorFrame, WriteFrame DEF vars, Crash
<1>4. \/ UNCHANGED arrivals
      \/ \E t \in Trades : arrivals[t] < MaxArrivals /\ arrivals' = [arrivals EXCEPT ![t] = @ + 1]
  BY StepCases, ArrivalCounts, ResolveFrame, AnchorFrame, WriteFrame DEF vars
<1>5. UNCHANGED faults \/ (faults < MaxFaults /\ faults' = faults + 1)
  BY StepCases, ArrivalFrame, ResolveFrame, AnchorFrame, WriteFrame DEF vars, CommitFails, Crash
<1>6. arrivals' \in [Trades -> 0..MaxArrivals]
  <2>1. ASSUME NEW t \in Trades, arrivals[t] < MaxArrivals PROVE arrivals[t] + 1 \in 0..MaxArrivals
    BY <1>1, <2>1, ConfirmationAssumption DEF CounterType
  <2>2. QED
    BY <1>1, <1>4, <2>1 DEF CounterType
<1>7. faults' \in 0..MaxFaults
  BY <1>1, <1>5, ConfirmationAssumption DEF CounterType
<1>8. sender' \in Requests \union {Scheduler, NoOne}
  BY <1>1, <1>2, <1>3 DEF CounterType
<1>9. QED
  BY <1>6, <1>7, <1>8 DEF CounterType

(* The initial state is well formed.                                       *)
LEMMA InitType == Init => TypeOK
<1> SUFFICES ASSUME Init PROVE TypeOK
  OBVIOUS
<1>1. ChainType
  BY DEF Init, ChainInit, ChainType, Registry!Deployed,
         Registry!Confirmation, Registry!Status, Registry!NoRecord, Registry!Bytes32
<1>2. TableType
  <2>1. booking \in [Trades -> [status : Statuses, uti : Utis \union {NoUti}, terms : Terms, put : BOOLEAN]]
    <3>1. booking \in [Trades -> [status : {"PENDING"}, uti : InitUtis, terms : Terms, put : {FALSE}]]
      BY DEF Init
    <3>2. ASSUME NEW t \in Trades
          PROVE  booking[t] \in [status : Statuses, uti : Utis \union {NoUti}, terms : Terms, put : BOOLEAN]
      <4>1. booking[t] \in [status : {"PENDING"}, uti : InitUtis, terms : Terms, put : {FALSE}]
        BY <3>1
      <4>2. InitUtis \subseteq Utis \union {NoUti}
        BY ConfirmationAssumption
      <4>3. QED
        BY <4>1, <4>2 DEF Statuses
    <3>3. QED
      BY <3>1, <3>2
  <2>2. events \in [Trades -> Seq(EventType) \ {<< >>}] /\ anchors \in Seq(Row)
    BY DEF Init, Event, EventType
  <2>3. QED
    BY <2>1, <2>2 DEF Init, TableType
<1>3. ThreadType
  BY IdleOK DEF Init, ThreadType, ThreadOK
<1>4. CounterType
  BY ConfirmationAssumption DEF Init, CounterType
<1>5. QED
  BY <1>1, <1>2, <1>3, <1>4, TypeParts

(* The type invariant of the confirmation: threads and rows refer to       *)
(* transactions and rows that exist, a row a thread resolves is a row of   *)
(* the trade it works on, and whoever is about to send, wait or write has  *)
(* fixed a canonical hash, whatever handlers overlap, fail or die.         *)
THEOREM ConfirmationTypeCorrect == Spec => []TypeOK
<1>1. ASSUME TypeOK, [Next]_vars PROVE TypeOK'
  <2>1. ChainType' /\ AnchorStep /\ BookStep
        /\ booking' \in BookingType /\ events' \in [Trades -> Seq(EventType) \ {<< >>}]
    BY <1>1, ChainStep, AnchorStepHolds, BookStepHolds
  <2>2. TableType'
    BY <2>1 DEF TableType, AnchorStep, BookingType
  <2>3. ThreadType' /\ CounterType'
    BY <1>1, ThreadTypeStep, CounterTypeStep
  <2>4. QED
    BY <2>1, <2>2, <2>3 DEF TypeOK, ChainType, TableType, ThreadType, ThreadOK, CounterType, SignsHash
<1>2. QED
  BY <1>1, InitType, PTL DEF Spec

-----------------------------------------------------------------------------
(* The decisions.  A trade without a decision is PENDING, and a decision   *)
(* is never taken back.                                                    *)
PendingUndecided == \A t \in Trades : booking[t].status # "PENDING" => Decided(t)

(* What an event stream says, it says after another event.                 *)
LEMMA StreamGrows ==
  ASSUME TypeOK, NEW t \in Trades, NEW e \in EventType,
         events' = [events EXCEPT ![t] = Append(@, e)]
  PROVE  /\ events'[t][Len(events[t]) + 1] = e /\ Len(events[t]) + 1 \in DOMAIN events'[t]
         /\ DOMAIN events'[t] = DOMAIN events[t] \union {Len(events[t]) + 1}
         /\ \A s \in Trades : /\ DOMAIN events[s] \subseteq DOMAIN events'[s]
                             /\ \A i \in DOMAIN events[s] : events'[s][i] = events[s][i]
         /\ \A s \in Trades \ {t} : events'[s] = events[s]
<1>1. events \in [Trades -> Seq(EventType) \ {<< >>}] /\ events[t] \in Seq(EventType)
  BY DEF TypeOK
<1>2. events'[t] = Append(events[t], e) /\ \A s \in Trades \ {t} : events'[s] = events[s]
  BY <1>1
<1>3. QED
  BY <1>1, <1>2, AppendProperties, LenProperties

(* The events a step adds are of the types the table holds.                *)
LEMMA DecidesEvent ==
  ASSUME TypeOK, NEW p \in Procs,
         Settle(p) \/ Apply(p) \/ OffchainConfirm(p) \/ Cancel(p) \/ PutStatus(p) \/ AppendEvent(p)
  PROVE  /\ proc[p].on \in Trades
         /\ AppendEvent(p) => proc[p].op \in Appends /\ Event(proc[p].op, NoHash, NoHash) \in EventType
         /\ \A type \in {"CONFIRMED", "CANCELLED"}, hash, att \in TradeHashes \union {NoHash} :
              Event(type, hash, att) \in EventType
         /\ Apply(p) => proc[p].hash \in TradeHashes
         /\ Settle(p) => /\ anchors[proc[p].row].hash \in TradeHashes
                         /\ anchors[proc[p].row].att \in TradeHashes
<1>1. ThreadOK(proc[p])
  BY TypeParts DEF ThreadType
<1>2. proc[p].on \in Trades
  BY <1>1 DEF ThreadOK, Settle, Apply, OffchainConfirm, Cancel, PutStatus, AppendEvent
<1>3. AppendEvent(p) => proc[p].op \in Appends
  BY <1>1 DEF ThreadOK, AppendEvent
<1>4. Apply(p) => proc[p].hash \in TradeHashes
  BY <1>1 DEF ThreadOK, Apply, SignsHash
<1>5. Settle(p) => anchors[proc[p].row] \in Row
  BY <1>1, TypeParts, LenProperties DEF ThreadOK, Settle, TableType
<1>6. QED
  BY <1>2, <1>3, <1>4, <1>5 DEF Event, EventType, Row

(* A decision stands, whichever step follows.                              *)
LEMMA DecidedStep ==
  ASSUME TypeOK, [Next]_vars, NEW t \in Trades,
         Decided(t) \/ (booking'[t].status # "PENDING" /\ PendingUndecided)
  PROVE  Decided(t)'
<1>1. BookStep
  BY BookStepHolds
<1>2. CASE StatusesKept /\ UNCHANGED events
  BY <1>2 DEF StatusesKept, Decided, PendingUndecided
<1>3. ASSUME NEW s \in Trades, NEW type \in {"CONFIRMED", "CANCELLED"}, NEW hash, NEW att,
             Event(type, hash, att) \in EventType, Decides(s, type, hash, att)
      PROVE  Decided(t)'
  <2>1. /\ events'[s][Len(events[s]) + 1] = Event(type, hash, att)
        /\ Len(events[s]) + 1 \in DOMAIN events'[s]
        /\ DOMAIN events[t] \subseteq DOMAIN events'[t]
        /\ \A i \in DOMAIN events[t] : events'[t][i] = events[t][i]
    BY <1>3, StreamGrows DEF Decides
  <2>2. CASE s = t
    BY <2>1, <2>2 DEF Decided, Event
  <2>3. CASE s # t
    BY <1>3, <2>1, <2>3 DEF Decides, Decided, PendingUndecided
  <2>4. QED
    BY <2>2, <2>3
<1>4. ASSUME NEW s \in Trades, SetsStatus(s) PROVE Decided(t)'
  BY <1>4 DEF SetsStatus, Decided, PendingUndecided
<1>5. ASSUME NEW s \in Trades, NEW type, Event(type, NoHash, NoHash) \in EventType, Appended(s, type)
      PROVE  Decided(t)'
  <2>1. /\ DOMAIN events[t] \subseteq DOMAIN events'[t]
        /\ \A i \in DOMAIN events[t] : events'[t][i] = events[t][i]
    BY <1>5, StreamGrows DEF Appended
  <2>2. QED
    BY <1>5, <2>1 DEF Appended, StatusesKept, Decided, PendingUndecided
<1>6. QED
  BY <1>1, <1>2, <1>3, <1>4, <1>5, DecidesEvent DEF BookStep

(* Reconciliation loses no confirmation: a row is ANCHORED only once its   *)
(* trade has been decided, by an event of its stream or by a status set as *)
(* a field, whoever closed the row and whatever failed before.             *)
THEOREM AnchoredDecidesAlways == Spec => []AnchoredDecides
<1>1. Init => AnchoredDecides /\ PendingUndecided
  <2> SUFFICES ASSUME Init PROVE AnchoredDecides /\ PendingUndecided
    OBVIOUS
  <2>1. anchors = << >> /\ \A t \in Trades : booking[t].status = "PENDING"
    BY DEF Init
  <2>2. QED
    BY <2>1 DEF AnchoredDecides, PendingUndecided
<1>2. ASSUME TypeOK, [Next]_vars, AnchoredDecides, PendingUndecided
      PROVE  AnchoredDecides' /\ PendingUndecided'
  <2>1. AnchorStep /\ Grows /\ TableType
    BY <1>2, AnchorStepHolds, GrowsHolds, TypeParts
  <2>2. PendingUndecided'
    BY <1>2, DecidedStep DEF PendingUndecided
  <2>3. ASSUME NEW i \in DOMAIN anchors', anchors'[i].status = "ANCHORED"
        PROVE  LET t == anchors'[i].trade IN
                 booking'[t].put \/ \E n \in DOMAIN events'[t] :
                                      events'[t][n].type \in {"CONFIRMED", "CANCELLED"}
    <3>1. i \in DOMAIN anchors /\ RowStep(i)
      BY <2>1, <2>3 DEF AnchorStep, NewRow
    <3>2. anchors[i] \in Row /\ anchors'[i].trade = anchors[i].trade /\ anchors[i].trade \in Trades
      <4>1. anchors[i] \in Row
        BY <2>1, <3>1, LenProperties DEF TableType
      <4>2. QED
        BY <2>1, <3>1, <4>1 DEF Grows, Row
    <3>3. CASE anchors[i].status = "ANCHORED"
      BY <1>2, <3>1, <3>2, <3>3, DecidedStep DEF AnchoredDecides, Decided
    <3>4. CASE anchors[i].status # "ANCHORED"
      <4>1. PICK p \in Procs, status \in {"ANCHORED", "FAILED"} : ClosedBy(i, p, status)
        BY <2>3, <3>1, <3>2, <3>4 DEF RowStep, Refreshed, Aged, Row
      <4>2. status = "ANCHORED"
        BY <2>3, <3>2, <4>1 DEF ClosedBy, Row
      <4>3. booking'[anchors[i].trade].status # "PENDING"
        BY <4>1, <4>2 DEF ClosedBy
      <4>4. QED
        BY <1>2, <3>2, <4>3, DecidedStep DEF Decided
    <3>5. QED
      BY <3>3, <3>4
  <2>4. QED
    BY <2>2, <2>3 DEF AnchoredDecides, Decided
<1>3. QED
  BY <1>1, <1>2, ConfirmationTypeCorrect, PTL DEF Spec

-----------------------------------------------------------------------------
(* The row locks.  A row that a thread holds is open, and no other thread  *)
(* holds it; a trade has at most one open row.                             *)
HeldIsOpen ==
  \A i \in DOMAIN anchors, p \in Procs :
    Held(i, p) => anchors[i].status = "PENDING" /\ \A q \in Procs : Held(i, q) => q = p

OneOpenRow == \A t \in Trades : \A i, j \in OpenRows(t) : i = j

(* A row is held after a step only if it was, or was just taken.           *)
LEMMA HeldFrom ==
  ASSUME TypeOK, [Next]_vars, NEW p \in Procs, NEW i, Held(i, p)'
  PROVE  Held(i, p) \/ (Takes(p) /\ proc[p].row = i)
<1>1. proc \in [Procs -> Thread] /\ ThreadStep
  BY ThreadStepHolds DEF TypeOK
<1>2. CASE UNCHANGED proc
  BY <1>2 DEF Held
<1>3. ASSUME NEW q \in Procs, proc' = [proc EXCEPT ![q] = proc'[q]],
             proc'[q].pc \notin {"check", "settle"}
      PROVE  Held(i, p)
  BY <1>1, <1>3 DEF Held
<1>4. ASSUME NEW q \in Procs, Takes(q) PROVE Held(i, p) \/ (Takes(p) /\ proc[p].row = i)
  BY <1>1, <1>4 DEF Held, Takes, Thread
<1>5. ASSUME NEW q \in Procs, Keeps(q) PROVE Held(i, p)
  BY <1>1, <1>5 DEF Held, Keeps, Check, Thread
<1>6. CASE Crash
  BY <1>6 DEF Crash, Held, Idle
<1>7. QED
  BY <1>1, <1>2, <1>3, <1>4, <1>5, <1>6 DEF ThreadStep, Moves, Fresh

(* Nobody else touches a row while it is held.                             *)
LEMMA HeldStays ==
  ASSUME TypeOK, [Next]_vars, HeldIsOpen, NEW i \in DOMAIN anchors, NEW p \in Procs,
         Held(i, p), Held(i, p)'
  PROVE  anchors'[i] = anchors[i] \/ Aged(i)
<1>1. RowStep(i)
  BY AnchorStepHolds DEF AnchorStep
<1>2. ASSUME NEW q \in Procs, NEW status \in {"ANCHORED", "FAILED"}, ClosedBy(i, q, status) PROVE FALSE
  BY <1>2 DEF ClosedBy, HeldIsOpen, Held
<1>3. ~Refreshed(i)
  BY DEF Refreshed, Locked, Held
<1>4. QED
  BY <1>1, <1>2, <1>3 DEF RowStep

(* No step closes a row under the thread that holds it.                    *)
LEMMA HeldIsOpenStep ==
  ASSUME TypeOK, [Next]_vars, HeldIsOpen
  PROVE  HeldIsOpen'
<1>1. TableType /\ ThreadType
  BY TypeParts
<1>2. ASSUME NEW p \in Procs, NEW i, Held(i, p) \/ (Takes(p) /\ proc[p].row = i)
      PROVE  i \in DOMAIN anchors
  BY <1>1, <1>2 DEF Held, Takes, ThreadType, ThreadOK
<1>3. SUFFICES ASSUME NEW i \in DOMAIN anchors', NEW p \in Procs, Held(i, p)'
               PROVE  /\ anchors'[i].status = "PENDING"
                      /\ \A q \in Procs : Held(i, q)' => q = p
  BY DEF HeldIsOpen
<1>4. i \in DOMAIN anchors /\ anchors[i] \in Row
  <2>1. Held(i, p) \/ (Takes(p) /\ proc[p].row = i)
    BY <1>3, HeldFrom
  <2>2. i \in DOMAIN anchors
    BY <1>2, <2>1
  <2>3. QED
    BY <1>1, <2>2, LenProperties DEF TableType
<1>5. anchors'[i].status = "PENDING"
  <2>1. CASE Held(i, p)
    <3>1. anchors[i].status = "PENDING"
      BY <1>4, <2>1 DEF HeldIsOpen
    <3>2. anchors'[i] = anchors[i] \/ Aged(i)
      BY <1>3, <1>4, <2>1, HeldStays
    <3>3. QED
      BY <1>4, <3>1, <3>2 DEF Aged, Row
  <2>2. CASE Takes(p) /\ proc[p].row = i
    BY <2>2 DEF Takes
  <2>3. QED
    BY <1>3, <2>1, <2>2, HeldFrom
<1>6. ASSUME NEW q \in Procs, Held(i, q)' PROVE q = p
  <2>1. CASE Held(i, p) /\ Held(i, q)
    BY <1>4, <2>1 DEF HeldIsOpen
  <2>2. ASSUME NEW r \in Procs, Takes(r), proc[r].row = i PROVE p = r /\ q = r
    <3>1. \A s \in Procs : ~Held(i, s)
      BY <2>2 DEF Takes, Locked, Held
    <3>2. \A s \in Procs : Takes(s) => s = r
      BY <1>1, <2>2 DEF Takes, ThreadType, Thread
    <3>3. QED
      BY <1>3, <1>6, <3>1, <3>2, HeldFrom
  <2>3. QED
    BY <1>3, <1>6, <2>1, <2>2, HeldFrom
<1>7. QED
  BY <1>5, <1>6

(* A held row is open and has one holder, always.                          *)
LEMMA HeldIsOpenAlways == Spec => []HeldIsOpen
<1>1. Init => HeldIsOpen
  BY DEF Init, HeldIsOpen, Held, Idle
<1>2. QED
  BY <1>1, HeldIsOpenStep, ConfirmationTypeCorrect, PTL DEF Spec

(* Rows of pending_anchors are closed for good, an open one keeps its hash *)
(* and its deadline, however reconcilers, requests and failures overlap.   *)
THEOREM RowsOnlyCloseAlways == Spec => RowsOnlyClose
<1>1. ASSUME TypeOK, HeldIsOpen, [Next]_vars, NEW i \in DOMAIN anchors
      PROVE  /\ anchors[i].status # "PENDING" => anchors'[i] = anchors[i]
             /\ anchors'[i].hash = anchors[i].hash
             /\ anchors'[i].age >= anchors[i].age
  <2>1. anchors[i] \in Row /\ RowStep(i)
    BY <1>1, AnchorStepHolds, TypeParts, LenProperties DEF AnchorStep, TableType
  <2>2. anchors[i].age \in Nat
    BY <2>1 DEF Row
  <2>3. CASE anchors'[i] = anchors[i]
    BY <2>2, <2>3
  <2>4. CASE Refreshed(i)
    BY <2>1, <2>2, <2>4 DEF Refreshed, Row
  <2>5. ASSUME NEW p \in Procs, NEW status \in {"ANCHORED", "FAILED"}, ClosedBy(i, p, status)
        PROVE  /\ anchors[i].status = "PENDING"
               /\ anchors'[i].hash = anchors[i].hash
               /\ anchors'[i].age >= anchors[i].age
    BY <1>1, <2>1, <2>2, <2>5 DEF ClosedBy, HeldIsOpen, Row
  <2>6. CASE Aged(i)
    BY <2>1, <2>2, <2>6 DEF Aged, Row
  <2>7. QED
    BY <2>1, <2>3, <2>4, <2>5, <2>6 DEF RowStep
<1>2. TypeOK /\ HeldIsOpen /\ [Next]_vars =>
        [\A i \in DOMAIN anchors :
           /\ anchors[i].status # "PENDING" => anchors'[i] = anchors[i]
           /\ anchors'[i].hash = anchors[i].hash
           /\ anchors'[i].age >= anchors[i].age]_vars
  BY <1>1
<1>3. QED
  BY <1>2, ConfirmationTypeCorrect, HeldIsOpenAlways, PTL DEF Spec, RowsOnlyClose

(* No step opens a second row for a trade.                                 *)
LEMMA OneOpenRowStep ==
  ASSUME TypeOK, [Next]_vars, OneOpenRow
  PROVE  OneOpenRow'
<1>1. AnchorStep /\ Grows
  BY AnchorStepHolds, GrowsHolds
<1>2. ASSUME NEW i \in DOMAIN anchors, anchors'[i].status = "PENDING"
      PROVE  i \in OpenRows(anchors'[i].trade)
  <2>1. anchors[i] \in Row /\ RowStep(i) /\ anchors'[i].trade = anchors[i].trade
    BY <1>1, TypeParts, LenProperties DEF AnchorStep, TableType, Grows
  <2>2. anchors[i].status = "PENDING"
    BY <1>2, <2>1 DEF RowStep, Refreshed, ClosedBy, Aged, Row
  <2>3. QED
    BY <2>1, <2>2 DEF OpenRows
<1>3. SUFFICES ASSUME NEW t \in Trades, NEW i \in DOMAIN anchors', NEW j \in DOMAIN anchors',
                      anchors'[i].trade = t, anchors'[i].status = "PENDING",
                      anchors'[j].trade = t, anchors'[j].status = "PENDING"
               PROVE  i = j
  BY DEF OneOpenRow, OpenRows
<1>4. CASE i \in DOMAIN anchors /\ j \in DOMAIN anchors
  BY <1>2, <1>3, <1>4 DEF OneOpenRow
<1>5. CASE i \notin DOMAIN anchors /\ j \notin DOMAIN anchors
  BY <1>1, <1>5 DEF AnchorStep, NewRow
<1>6. ASSUME NEW k \in DOMAIN anchors, NEW n \in DOMAIN anchors' \ DOMAIN anchors,
             anchors'[k].trade = t, anchors'[k].status = "PENDING", anchors'[n].trade = t
      PROVE  FALSE
  <2>1. OpenRows(t) = {}
    BY <1>1, <1>6 DEF AnchorStep, NewRow
  <2>2. QED
    BY <1>2, <1>6, <2>1
<1>7. QED
  BY <1>3, <1>4, <1>5, <1>6

(* Reconciliation is exclusive: no trade has two anchors in flight in the  *)
(* table, and no two of the requests and the scheduler settle one row.     *)
THEOREM OneReconcilerAlways == Spec => []OneReconciler
<1>1. Init => OneOpenRow
  BY DEF Init, OneOpenRow, OpenRows
<1>2. TypeOK /\ HeldIsOpen /\ OneOpenRow => OneReconciler
  <2> SUFFICES ASSUME TypeOK, HeldIsOpen, OneOpenRow PROVE OneReconciler
    OBVIOUS
  <2>1. ASSUME NEW t \in Trades PROVE Cardinality(OpenRows(t)) <= 1
    <3>1. CASE OpenRows(t) = {}
      BY <3>1, FS_EmptySet
    <3>2. ASSUME NEW i \in OpenRows(t) PROVE Cardinality(OpenRows(t)) <= 1
      <4>1. OpenRows(t) = {i}
        BY <2>1, <3>2 DEF OneOpenRow
      <4>2. Cardinality({i}) = 1
        BY FS_Singleton
      <4>3. QED
        BY <4>1, <4>2
    <3>3. QED
      BY <3>1, <3>2
  <2>2. ASSUME NEW p \in Procs, NEW q \in Procs,
               {proc[p].pc, proc[q].pc} \subseteq {"check", "settle"}, proc[p].row = proc[q].row
        PROVE  p = q
    <3>1. proc[p].row \in DOMAIN anchors
      BY <2>2, TypeParts DEF ThreadType, ThreadOK
    <3>2. QED
      BY <2>2, <3>1 DEF HeldIsOpen, Held
  <2>3. QED
    BY <2>1, <2>2 DEF OneReconciler
<1>3. QED
  BY <1>1, <1>2, OneOpenRowStep, ConfirmationTypeCorrect, HeldIsOpenAlways, PTL DEF Spec

-----------------------------------------------------------------------------
(* What the desk may say of the chain.  An included transaction left its   *)
(* record; a thread that waits follows a transaction of its own hash, and  *)
(* one that applies or settles stands on a record; a row's transaction     *)
(* carries the row's attestation.                                          *)
MinedRecorded == \A n \in DOMAIN txs : txs[n].state = "mined" => OnRegistry(txs[n].hash)

RowsAttest == \A i \in DOMAIN anchors : txs[anchors[i].tx].hash = anchors[i].att

RowBacked(i) == OnRegistry(anchors[i].hash) \/ OnRegistry(anchors[i].att)

Stands(p) ==
  /\ proc[p].pc \in {"wait", "record"} => txs[proc[p].tx].hash = proc[p].hash
  /\ proc[p].pc = "apply" => OnRegistry(proc[p].hash)
  /\ proc[p].pc = "settle" => RowBacked(proc[p].row)

Backing == MinedRecorded /\ RowsAttest /\ \A p \in Procs : Stands(p)

(* The registry holds h after the step.                                    *)
OnRegistryNext(h) == confirmations'[h].status # "None"

(* An inclusion and its record are one step.                               *)
LEMMA MinedRecordedStep ==
  ASSUME TypeOK, [Next]_vars, MinedRecorded
  PROVE  MinedRecorded'
<1>1. ChainType /\ ChainGrows /\ ChainType'
  BY TypeParts, ChainStep
<1> USE DEF OnRegistryNext
<1>2. ASSUME NEW n \in DOMAIN txs, txs[n].state = "mined"
      PROVE  OnRegistryNext(txs'[n].hash)
  <2>1. txs[n].hash \in TradeHashes /\ txs'[n].hash = txs[n].hash
    <3>1. txs[n] \in Tx
      BY <1>1, LenProperties DEF ChainType
    <3>2. QED
      BY <1>1, <3>1 DEF ChainGrows, Tx
  <2>2. OnRegistry(txs[n].hash)
    BY <1>2 DEF MinedRecorded
  <2>3. OnRegistryNext(txs[n].hash)
    BY <1>1, <2>1, <2>2 DEF ChainGrows, OnRegistry
  <2>4. QED
    BY <2>1, <2>3
<1>3. CASE UNCHANGED chainVars
  BY <1>3 DEF chainVars, MinedRecorded, OnRegistry
<1>4. ASSUME NEW p \in Procs, Send(p) PROVE MinedRecorded'
  <2>1. txs \in Seq(Tx) /\ txs' = Append(txs, [hash |-> proc[p].hash, state |-> "pending"])
    BY <1>1, <1>4 DEF Send, Broadcast, ChainType
  <2>2. [hash |-> proc[p].hash, state |-> "pending"] \in Tx
    BY <1>4, TypeParts DEF Send, ThreadType, ThreadOK, SignsHash, Tx, TxState
  <2>3. \A n \in DOMAIN txs' : txs'[n].state = "mined" => n \in DOMAIN txs /\ txs'[n] = txs[n]
    BY <2>1, <2>2, LenProperties, AppendProperties
  <2>4. QED
    BY <1>2, <2>3 DEF MinedRecorded, OnRegistry
<1>5. ASSUME NEW i \in DOMAIN txs, Mine(i) \/ Drop(i) PROVE MinedRecorded'
  <2>1. txs \in [1..Len(txs) -> Tx] /\ DOMAIN txs = 1..Len(txs)
    BY <1>1, LenProperties DEF ChainType
  <2>2. DOMAIN txs' = DOMAIN txs /\ \A n \in DOMAIN txs \ {i} : txs'[n] = txs[n]
    BY <1>5, <2>1 DEF Mine, Drop
  <2>3. ASSUME txs'[i].state = "mined" PROVE OnRegistryNext(txs'[i].hash)
    <3>1. txs'[i].hash = txs[i].hash /\ txs[i].hash \in TradeHashes
      BY <1>5, <2>1 DEF Mine, Drop, Tx
    <3>2. Registry!Confirm(txs[i].hash, Own, Cp)
      BY <1>5, <2>1, <2>3 DEF Mine, Drop, Tx
    <3>3. QED
      BY <1>1, <3>1, <3>2 DEF Registry!Confirm, Registry!Recorded, ChainType
  <2>4. QED
    BY <1>2, <2>2, <2>3 DEF MinedRecorded, OnRegistry
<1>6. QED
  BY <1>3, <1>4, <1>5, ChainSteps DEF Chain

(* A row's transaction and attestation change together.                    *)
LEMMA RowsAttestStep ==
  ASSUME TypeOK, [Next]_vars, Backing
  PROVE  RowsAttest'
<1>1. ChainGrows /\ AnchorStep /\ TableType /\ ThreadType
  BY ChainStep, AnchorStepHolds, TypeParts
<1>2. ASSUME NEW n \in DOMAIN txs PROVE txs'[n].hash = txs[n].hash
  BY <1>1 DEF ChainGrows
<1>3. ASSUME NEW p \in Procs, proc[p].pc = "record" PROVE txs'[proc[p].tx].hash = proc[p].hash
  BY <1>1, <1>2, <1>3 DEF Backing, Stands, ThreadType, ThreadOK
<1>4. ASSUME NEW i \in DOMAIN anchors PROVE txs'[anchors'[i].tx].hash = anchors'[i].att
  <2>1. anchors[i] \in Row /\ anchors[i].tx \in DOMAIN txs /\ txs[anchors[i].tx].hash = anchors[i].att
    BY <1>1, LenProperties DEF TableType, Backing, RowsAttest
  <2>2. CASE anchors'[i].tx = anchors[i].tx /\ anchors'[i].att = anchors[i].att
    BY <1>2, <2>1, <2>2
  <2>3. CASE Refreshed(i)
    BY <1>3, <2>1, <2>3 DEF Refreshed, Row
  <2>4. QED
    BY <1>1, <2>1, <2>2, <2>3 DEF AnchorStep, RowStep, ClosedBy, Aged, Row
<1>5. ASSUME NEW i \in DOMAIN anchors' \ DOMAIN anchors PROVE txs'[anchors'[i].tx].hash = anchors'[i].att
  BY <1>1, <1>3 DEF AnchorStep, NewRow
<1>6. QED
  BY <1>4, <1>5 DEF RowsAttest

(* check() says "anchored" only of a row the registry backs.               *)
LEMMA AnchoredIsBacked ==
  ASSUME TypeOK, Backing, NEW p \in Procs, Check(p, "anchored")
  PROVE  RowBacked(proc[p].row)
<1> DEFINE row == anchors[proc[p].row]
<1>1. proc[p].row \in DOMAIN anchors /\ row.tx \in DOMAIN txs
  BY TypeParts DEF Check, ThreadType, ThreadOK, TableType
<1>2. PICK rec \in {OnRegistry(row.hash), FALSE}, state \in {NodeState(row.tx), "error"} :
         Verdict(row, rec, state) = "anchored"
  BY DEF Check
<1>3. rec \/ state = "mined"
  BY <1>2 DEF Verdict
<1>4. CASE rec
  BY <1>2, <1>4 DEF RowBacked
<1>5. CASE state = "mined"
  <2>1. txs[row.tx].state = "mined"
    BY <1>2, <1>5 DEF NodeState
  <2>2. OnRegistry(txs[row.tx].hash) /\ txs[row.tx].hash = row.att
    BY <1>1, <2>1 DEF Backing, MinedRecorded, RowsAttest
  <2>3. QED
    BY <2>2 DEF RowBacked
<1>6. QED
  BY <1>3, <1>4, <1>5

(* What backs an unchanged row is never lost.                              *)
LEMMA RowStaysBacked ==
  ASSUME TypeOK, [Next]_vars, NEW i \in DOMAIN anchors, RowBacked(i),
         anchors'[i].hash = anchors[i].hash, anchors'[i].att = anchors[i].att
  PROVE  RowBacked(i)'
<1>1. anchors[i].hash \in TradeHashes /\ anchors[i].att \in TradeHashes
  <2>1. anchors[i] \in Row
    BY TypeParts, LenProperties DEF TableType
  <2>2. QED
    BY <2>1 DEF Row
<1>2. \A h \in TradeHashes : OnRegistry(h) => OnRegistryNext(h)
  BY ChainStep DEF ChainGrows, OnRegistry, OnRegistryNext
<1>3. QED
  BY <1>1, <1>2 DEF RowBacked, OnRegistry, OnRegistryNext

(* A thread applies only what it has seen recorded.                        *)
LEMMA AnchorStands ==
  ASSUME TypeOK, [Next]_vars, Backing, NEW p \in Procs, Anchor(p), proc'[p].pc \notin {"check", "settle"}
  PROVE  Stands(p)'
<1>1. proc \in [Procs -> Thread] /\ ChainType /\ ThreadOK(proc[p]) /\ Stands(p) /\ ChainGrows
  BY TypeParts, ChainStep DEF ThreadType, Backing
<1>2. \A h \in TradeHashes : OnRegistry(h) => OnRegistryNext(h)
  BY <1>1 DEF ChainGrows, OnRegistry, OnRegistryNext
<1> USE DEF OnRegistry, OnRegistryNext
<1>3. CASE proc'[p].pc \notin {"wait", "record", "apply"}
  BY <1>3 DEF Stands
<1>4. CASE Send(p)
  <2>1. [hash |-> proc[p].hash, state |-> "pending"] \in Tx /\ txs \in Seq(Tx)
    BY <1>1, <1>4 DEF ChainType, Send, ThreadOK, SignsHash, Tx, TxState
  <2>2. txs'[Len(txs) + 1].hash = proc[p].hash
    BY <1>4, <2>1, AppendProperties DEF Send, Broadcast
  <2>3. proc'[p].pc = "wait" /\ proc'[p].tx = Len(txs) + 1 /\ proc'[p].hash = proc[p].hash
    BY <1>1, <1>4 DEF Send, Thread
  <2>4. QED
    BY <2>2, <2>3 DEF Stands
<1>5. ASSUME proc' = [proc EXCEPT ![p].pc = "apply"], OnRegistry(proc[p].hash),
             proc[p].pc \in {"send", "wait"}
      PROVE  Stands(p)'
  <2>1. proc'[p].pc = "apply" /\ proc'[p].hash = proc[p].hash /\ proc[p].hash \in TradeHashes
    BY <1>1, <1>5 DEF Thread, ThreadOK, SignsHash
  <2>2. QED
    BY <1>2, <1>5, <2>1 DEF Stands
<1>6. CASE proc' = [proc EXCEPT ![p].pc = "record"] /\ proc[p].pc = "wait"
  <2>1. /\ proc'[p].pc = "record" /\ proc'[p].hash = proc[p].hash /\ proc'[p].tx = proc[p].tx
        /\ proc[p].tx \in DOMAIN txs
    BY <1>1, <1>6 DEF Thread, ThreadOK
  <2>2. QED
    BY <1>1, <1>6, <2>1 DEF Stands, ChainGrows
<1>7. CASE SendRecorded(p)
  BY <1>5, <1>7 DEF SendRecorded
<1>8. CASE Receipt(p)
  <2>1. proc[p].pc = "wait" /\ proc[p].tx \in DOMAIN txs /\ txs[proc[p].tx].hash = proc[p].hash
    BY <1>1, <1>8 DEF Receipt, ThreadOK, Stands
  <2>2. txs[proc[p].tx].state = "mined" => OnRegistry(proc[p].hash)
    BY <2>1 DEF Backing, MinedRecorded
  <2>3. CASE Finish(p)
    BY <1>1, <1>3, <2>3 DEF Finish, Idle
  <2>4. QED
    BY <1>5, <1>8, <2>1, <2>2, <2>3 DEF Receipt
<1>9. CASE ReceiptTimeout(p)
  <2>1. CASE Finish(p)
    BY <1>1, <1>3, <2>1 DEF Finish, Idle
  <2>2. QED
    BY <1>5, <1>6, <1>9, <2>1 DEF ReceiptTimeout
<1>10. CASE InFlightGuard(p) \/ Finish(p)
  <2>1. proc'[p].pc \in {"send", "resolve", "idle"}
    BY <1>1, <1>10 DEF InFlightGuard, Finish, Idle, Thread
  <2>2. QED
    BY <1>3, <2>1
<1>11. QED
  BY <1>4, <1>7, <1>8, <1>9, <1>10 DEF Anchor, SendRefused, RecordPending, Apply

(* Every step keeps threads and rows standing on the chain.                *)
LEMMA BackingStep ==
  ASSUME TypeOK, HeldIsOpen, [Next]_vars, Backing
  PROVE  Backing'
<1>1. proc \in [Procs -> Thread] /\ ThreadStep /\ ThreadType /\ ChainGrows /\ TableType
  BY TypeParts, ThreadStepHolds, ChainStep DEF ThreadType
<1>2. ASSUME NEW q \in Procs, proc'[q] = proc[q] PROVE Stands(q)'
  <2>1. ThreadOK(proc[q]) /\ Stands(q)
    BY <1>1 DEF ThreadType, Backing
  <2>2. CASE proc[q].pc \in {"wait", "record"}
    BY <1>1, <1>2, <2>1, <2>2 DEF Stands, ThreadOK, ChainGrows
  <2>3. CASE proc[q].pc = "apply"
    <3>1. proc[q].hash \in TradeHashes /\ OnRegistry(proc[q].hash)
      BY <2>1, <2>3 DEF Stands, ThreadOK, SignsHash
    <3>2. OnRegistryNext(proc[q].hash)
      BY <1>1, <3>1 DEF ChainGrows, OnRegistry, OnRegistryNext
    <3>3. QED
      BY <1>2, <2>3, <3>2 DEF Stands, OnRegistry, OnRegistryNext
  <2>4. CASE proc[q].pc = "settle"
    <3>1. PICK i \in DOMAIN anchors : i = proc[q].row /\ RowBacked(i) /\ anchors[i] \in Row
      BY <1>1, <2>1, <2>4, LenProperties DEF Stands, ThreadOK, TableType
    <3>2. Held(i, q) /\ Held(i, q)'
      BY <1>2, <2>4, <3>1 DEF Held
    <3>3. anchors'[i].hash = anchors[i].hash /\ anchors'[i].att = anchors[i].att
      <4>1. anchors'[i] = anchors[i] \/ Aged(i)
        BY <3>1, <3>2, HeldStays
      <4>2. QED
        BY <3>1, <4>1 DEF Aged, Row
    <3>4. RowBacked(i)'
      BY <3>1, <3>3, RowStaysBacked
    <3>5. QED
      BY <1>2, <2>4, <3>1, <3>4 DEF Stands, RowBacked
  <2>5. QED
    BY <1>2, <2>2, <2>3, <2>4 DEF Stands
<1>3. ASSUME NEW p \in Procs, proc' = [proc EXCEPT ![p] = proc'[p]], Stands(p)'
      PROVE  \A q \in Procs : Stands(q)'
  BY <1>1, <1>2, <1>3
<1>4. ASSUME NEW p \in Procs, Takes(p) PROVE Stands(p)' /\ proc' = [proc EXCEPT ![p] = proc'[p]]
  BY <1>1, <1>4 DEF Takes, Stands, Thread
<1>5. ASSUME NEW p \in Procs, Keeps(p) PROVE Stands(p)' /\ proc' = [proc EXCEPT ![p] = proc'[p]]
  <2> DEFINE i == proc[p].row
  <2>1. i \in DOMAIN anchors /\ anchors' = anchors
    BY <1>1, <1>5 DEF Keeps, Check, ThreadType, ThreadOK
  <2>2. RowBacked(i)
    BY <1>5, AnchoredIsBacked DEF Keeps
  <2>3. confirmations'[anchors[i].hash].status # "None" \/ confirmations'[anchors[i].att].status # "None"
    BY <2>1, <2>2, RowStaysBacked DEF RowBacked, OnRegistry
  <2>4. proc'[p].pc = "settle" /\ proc'[p].row = i /\ proc' = [proc EXCEPT ![p] = proc'[p]]
    BY <1>1, <1>5 DEF Keeps, Thread
  <2>5. QED
    BY <2>1, <2>3, <2>4 DEF Stands, RowBacked, OnRegistry
<1>6. ASSUME NEW p \in Procs, Moves(p) PROVE Stands(p)' /\ proc' = [proc EXCEPT ![p] = proc'[p]]
  BY <1>6 DEF Moves, Fresh, Stands
<1>7. ASSUME Crash, NEW q \in Procs PROVE Stands(q)'
  BY <1>7 DEF Crash, Stands, Idle
<1>8. ASSUME UNCHANGED proc, NEW q \in Procs PROVE Stands(q)'
  BY <1>2, <1>8
<1>9. ASSUME NEW p \in Procs, Anchor(p), proc'[p].pc \notin {"check", "settle"}
      PROVE  Stands(p)'
  BY <1>9, AnchorStands
<1>10. \A q \in Procs : Stands(q)'
  BY <1>1, <1>3, <1>4, <1>5, <1>6, <1>7, <1>8, <1>9 DEF ThreadStep
<1>11. QED
  BY <1>10, MinedRecordedStep, RowsAttestStep DEF Backing

(* EventsBacked, and an attested event has a trade hash as well.           *)
SignedBacked == EventsBacked /\ \A t \in Trades : \A n \in DOMAIN events[t] :
                  events[t][n].att # NoHash => events[t][n].hash \in TradeHashes

(* A row is closed as ANCHORED only on a record.                           *)
LEMMA ClosedRowsBacked ==
  ASSUME TypeOK, [Next]_vars, HeldIsOpen, Backing, EventsBacked, NEW i \in DOMAIN anchors',
         anchors'[i].status = "ANCHORED"
  PROVE  RowBacked(i)'
<1>1. AnchorStep /\ TableType
  BY AnchorStepHolds, TypeParts
<1>2. i \in DOMAIN anchors /\ RowStep(i)
  BY <1>1 DEF AnchorStep, NewRow
<1>3. anchors[i] \in Row
  BY <1>1, <1>2, LenProperties DEF TableType
<1>4. CASE anchors'[i] = anchors[i]
  <2>1. RowBacked(i)
    BY <1>2, <1>4 DEF EventsBacked, RowBacked
  <2>2. QED
    BY <1>2, <1>4, <2>1, RowStaysBacked
<1>5. ASSUME NEW p \in Procs, NEW status \in {"ANCHORED", "FAILED"}, ClosedBy(i, p, status)
      PROVE  RowBacked(i)'
  <2>1. status = "ANCHORED" /\ proc[p].row = i
    BY <1>3, <1>5 DEF ClosedBy, Held, Row
  <2>2. anchors'[i].hash = anchors[i].hash /\ anchors'[i].att = anchors[i].att
    BY <1>3, <1>5 DEF ClosedBy, Row
  <2>3. CASE Check(p, "anchored")
    BY <1>2, <2>1, <2>2, <2>3, AnchoredIsBacked, RowStaysBacked
  <2>4. CASE proc[p].pc = "settle"
    <3>1. RowBacked(i)
      BY <2>1, <2>4 DEF Backing, Stands
    <3>2. QED
      BY <1>2, <2>2, <3>1, RowStaysBacked
  <2>5. QED
    BY <1>5, <2>1, <2>3, <2>4 DEF ClosedBy
<1>6. ~Refreshed(i) /\ ~Aged(i)
  BY <1>3 DEF Refreshed, Aged, Row
<1>7. QED
  BY <1>2, <1>4, <1>5, <1>6 DEF RowStep

(* An event the step adds with an attestation has the hash of a record.    *)
LEMMA NewEventBacked ==
  ASSUME TypeOK, [Next]_vars, SignedBacked, NEW t \in Trades, NEW type,
         NEW hash \in TradeHashes \union {NoHash}, NEW att \in TradeHashes \union {NoHash},
         events' = [events EXCEPT ![t] = Append(@, Event(type, hash, att))],
         Event(type, hash, att) \in EventType,
         att # NoHash => hash \in TradeHashes /\ (OnRegistry(att) \/ OnRegistry(hash))
  PROVE  \A s \in Trades : \A n \in DOMAIN events'[s] :
           events'[s][n].att # NoHash =>
             /\ events'[s][n].hash \in TradeHashes
             /\ OnRegistryNext(events'[s][n].att) \/ OnRegistryNext(events'[s][n].hash)
<1>1. events[t] \in Seq(EventType) /\ events'[t] = Append(events[t], Event(type, hash, att))
      /\ Event(type, hash, att) \in EventType
  BY DEF TypeOK
<1>2. /\ DOMAIN events[t] = 1..Len(events[t]) /\ DOMAIN events'[t] = 1..(Len(events[t]) + 1)
      /\ Len(events[t]) \in Nat
      /\ \A n \in DOMAIN events[t] : events'[t][n] = events[t][n]
      /\ events'[t][Len(events[t]) + 1] = Event(type, hash, att)
  BY <1>1, AppendProperties, LenProperties
<1>3. \A s \in Trades \ {t} : events'[s] = events[s]
  BY DEF TypeOK
<1>4. \A h \in TradeHashes : OnRegistry(h) => OnRegistryNext(h)
  BY ChainStep DEF ChainGrows, OnRegistry, OnRegistryNext
<1>5. ASSUME NEW s \in Trades, NEW n \in DOMAIN events[s], events[s][n].att # NoHash
      PROVE  /\ events[s][n].hash \in TradeHashes
             /\ OnRegistryNext(events[s][n].att) \/ OnRegistryNext(events[s][n].hash)
  <2>1. events[s][n] \in EventType
    <3>1. events[s] \in Seq(EventType)
      BY DEF TypeOK
    <3>2. QED
      BY <3>1, LenProperties
  <2>2. events[s][n].att \in TradeHashes
    BY <1>5, <2>1 DEF EventType
  <2>3. QED
    BY <1>4, <1>5, <2>2 DEF SignedBacked, EventsBacked
<1>6. att # NoHash => OnRegistryNext(att) \/ OnRegistryNext(hash)
  BY <1>4
<1>7. Event(type, hash, att).att = att /\ Event(type, hash, att).hash = hash
  BY DEF Event
<1>8. ASSUME NEW n \in DOMAIN events'[t], events'[t][n].att # NoHash
      PROVE  /\ events'[t][n].hash \in TradeHashes
             /\ OnRegistryNext(events'[t][n].att) \/ OnRegistryNext(events'[t][n].hash)
  <2>1. CASE n \in DOMAIN events[t]
    BY <1>2, <1>5, <1>8, <2>1
  <2>2. CASE n = Len(events[t]) + 1
    BY <1>2, <1>6, <1>7, <1>8, <2>2
  <2>3. QED
    BY <1>2, <2>1, <2>2
<1>9. QED
  BY <1>3, <1>5, <1>8

(* A confirmation never says more than the chain does: no event carries an *)
(* attestation, and no row is closed as ANCHORED, without a record of the  *)
(* registry, whether the request, a poll or the scheduler wrote it.        *)
THEOREM EventsBackedAlways == Spec => []EventsBacked
<1>1. Init => Backing /\ SignedBacked
  BY DEF Init, ChainInit, Backing, MinedRecorded, RowsAttest, Stands, SignedBacked, EventsBacked,
         Event, Idle
<1>2. ASSUME TypeOK, HeldIsOpen, [Next]_vars, Backing, SignedBacked
      PROVE  Backing' /\ SignedBacked'
  <2>1. BookStep /\ TableType /\ ThreadType
    BY <1>2, BookStepHolds, TypeParts
  <2>2. \A i \in DOMAIN anchors' : anchors'[i].status = "ANCHORED" =>
           OnRegistryNext(anchors'[i].hash) \/ OnRegistryNext(anchors'[i].att)
    BY <1>2, ClosedRowsBacked DEF SignedBacked, RowBacked, OnRegistry, OnRegistryNext
  <2> DEFINE EventsNext ==
        \A s \in Trades : \A n \in DOMAIN events'[s] :
           events'[s][n].att # NoHash =>
             /\ events'[s][n].hash \in TradeHashes
             /\ OnRegistryNext(events'[s][n].att) \/ OnRegistryNext(events'[s][n].hash)
  <2>3. ASSUME UNCHANGED events PROVE EventsNext
    <3>1. \A h \in TradeHashes : OnRegistry(h) => OnRegistryNext(h)
      BY <1>2, ChainStep DEF ChainGrows, OnRegistry, OnRegistryNext
    <3>2. ASSUME NEW s \in Trades, NEW n \in DOMAIN events[s], events[s][n].att # NoHash
          PROVE  events[s][n].att \in TradeHashes
      <4>1. events[s] \in Seq(EventType)
        BY <2>1 DEF TableType
      <4>2. events[s][n] \in EventType
        BY <4>1, LenProperties
      <4>3. QED
        BY <3>2, <4>2 DEF EventType
    <3>3. QED
      BY <1>2, <2>3, <3>1, <3>2 DEF SignedBacked, EventsBacked
  <2>4. ASSUME NEW p \in Procs,
               Settle(p) \/ Apply(p) \/ OffchainConfirm(p) \/ Cancel(p) \/ AppendEvent(p)
        PROVE  proc[p].on \in Trades /\ ThreadOK(proc[p]) /\ Stands(p)
    BY <1>2, <2>1, <2>4 DEF Settle, Apply, OffchainConfirm, Cancel, AppendEvent, ThreadType, ThreadOK, Backing
  <2>5. ASSUME NEW p \in Procs, Settle(p),
               Decides(proc[p].on, "CONFIRMED", anchors[proc[p].row].hash, anchors[proc[p].row].att)
        PROVE  EventsNext
    <3>1. proc[p].row \in DOMAIN anchors /\ RowBacked(proc[p].row)
      BY <2>4, <2>5 DEF Settle, ThreadOK, Stands
    <3>2. anchors[proc[p].row] \in Row
      BY <2>1, <3>1, LenProperties DEF TableType
    <3>3. /\ anchors[proc[p].row].hash \in TradeHashes /\ anchors[proc[p].row].att \in TradeHashes
          /\ OnRegistry(anchors[proc[p].row].att) \/ OnRegistry(anchors[proc[p].row].hash)
      BY <3>1, <3>2 DEF Row, RowBacked
    <3>4. QED
      BY <1>2, <2>4, <2>5, <3>3, NewEventBacked DEF Decides, Event, EventType
  <2>6. ASSUME NEW p \in Procs, Apply(p), Decides(proc[p].on, "CONFIRMED", proc[p].hash, proc[p].hash)
        PROVE  EventsNext
    <3>1. proc[p].hash \in TradeHashes /\ OnRegistry(proc[p].hash)
      BY <2>4, <2>6 DEF Apply, Stands, ThreadOK, SignsHash
    <3>2. QED
      BY <1>2, <2>4, <2>6, <3>1, NewEventBacked DEF Decides, Event, EventType
  <2>7. ASSUME NEW p \in Procs, OffchainConfirm(p) \/ Cancel(p), NEW type \in {"CONFIRMED", "CANCELLED"},
               Decides(proc[p].on, type, NoHash, NoHash)
        PROVE  EventsNext
    BY <1>2, <2>4, <2>7, NewEventBacked DEF Decides, Event, EventType
  <2>8. ASSUME NEW p \in Procs, AppendEvent(p), Appended(proc[p].on, proc[p].op) PROVE EventsNext
    <3>1. proc[p].op \in Appends
      BY <2>4, <2>8 DEF AppendEvent, ThreadOK
    <3>2. QED
      BY <1>2, <2>4, <2>8, <3>1, NewEventBacked DEF Appended, Event, EventType
  <2>9. EventsNext
    BY <2>1, <2>3, <2>5, <2>6, <2>7, <2>8 DEF BookStep, SetsStatus
  <2>10. SignedBacked'
    BY <2>2, <2>9 DEF SignedBacked, EventsBacked, OnRegistry, OnRegistryNext
  <2>11. QED
    BY <1>2, <2>10, BackingStep
<1>3. SignedBacked => EventsBacked
  BY DEF SignedBacked
<1>4. QED
  BY <1>1, <1>2, <1>3, ConfirmationTypeCorrect, HeldIsOpenAlways, PTL DEF Spec


-----------------------------------------------------------------------------
(* One confirmation of a trade, asked for on the chain.  A thread works on *)
(* it from its arrival until it has an anchor, a row to follow, or nothing.*)
OneRequest == MaxArrivals = 1 /\ Ops \intersect {"offchain", "cancel", "put"} = {}

AnchorPc == {"guard", "send", "wait", "apply", "record"}

Works(x) == x.op \in {"confirm", "countersign"}

RoleOK(x) ==
  /\ x.pc \in AnchorPc <=> Works(x)
  /\ x.pc \notin {"offchain", "cancel", "put"}
  /\ Works(x) => x.hash[1] = x.on

Roles == \A p \in Procs : RoleOK(proc[p])

(* What exists of a trade was asked for,                                   *)
Asked ==
  /\ \A p \in Procs : Works(proc[p]) => arrivals[proc[p].on] > 0
  /\ \A i \in DOMAIN anchors : arrivals[anchors[i].trade] > 0
  /\ \A n \in DOMAIN txs : arrivals[txs[n].hash[1]] > 0

(* there is one of each,                                                   *)
OneAttempt ==
  /\ \A p, q \in Procs : Works(proc[p]) /\ Works(proc[q]) /\ proc[p].on = proc[q].on => p = q
  /\ \A i, j \in DOMAIN anchors : anchors[i].trade = anchors[j].trade => i = j
  /\ \A m, n \in DOMAIN txs : txs[m].hash[1] = txs[n].hash[1] => m = n

(* nothing is decided while the thread works or its row is open,           *)
Undecided ==
  /\ \A p \in Procs : Works(proc[p]) =>
       /\ booking[proc[p].on].status = "PENDING"
       /\ \A i \in DOMAIN anchors : anchors[i].trade # proc[p].on
       /\ proc[p].pc \in {"guard", "send"} => \A n \in DOMAIN txs : txs[n].hash[1] # proc[p].on
  /\ \A i \in DOMAIN anchors :
       anchors[i].status = "PENDING" => booking[anchors[i].trade].status = "PENDING"

(* and rows and records speak of their own trade.                          *)
RowsSigned == \A i \in DOMAIN anchors :
                anchors[i].hash[1] = anchors[i].trade /\ anchors[i].att[1] = anchors[i].trade

RecordsMined == \A h \in TradeHashes : OnRegistry(h) =>
                  \E n \in DOMAIN txs : txs[n].hash = h /\ txs[n].state = "mined"

OnceInv == Roles /\ Asked /\ OneAttempt /\ Undecided /\ RowsSigned /\ RecordsMined

(* How a step changes what a thread works on: it takes on a trade nobody   *)
(* asked for before, goes further with the one it has, or does not work.   *)
TakesOn(p, t) ==
  /\ proc' = [proc EXCEPT ![p] = proc'[p]]
  /\ RoleOK(proc'[p]) /\ Works(proc'[p]) /\ proc'[p].on = t
  /\ booking[t].status = "PENDING" /\ arrivals[t] = 0
  /\ arrivals' = [arrivals EXCEPT ![t] = 1]
  /\ UNCHANGED <<chainVars, dbVars>>

Left(x) == RoleOK(x) /\ ~Works(x)

Further(x, y) ==
  /\ Works(x)
  /\ y.op = x.op /\ y.on = x.on /\ y.hash = x.hash
  /\ y.pc \in AnchorPc
  /\ y.pc \in {"guard", "send"} => x.pc \in {"guard", "send"}

Goes(p) == proc'[p] = proc[p] \/ Left(proc'[p]) \/ Further(proc[p], proc'[p])

RoleStep ==
  \/ \E p \in Procs, t \in Trades : TakesOn(p, t)
  \/ UNCHANGED arrivals /\ \A p \in Procs : Goes(p)

(* A thread that is done, and one that was never confirming, does not work.*)
LEMMA IdleLeft == Left(Idle)
BY DEF Left, RoleOK, Works, AnchorPc, Idle

(* A request that arrives takes its trade on, or does other work.          *)
LEMMA ArrivalRole ==
  ASSUME OneRequest, TypeOK, Arrival
  PROVE  RoleStep
<1>1. PICK p \in Requests, t \in Trades :
         \/ ConfirmArrives(p, t)
         \/ CountersignArrives(p, t)
         \/ Arrive(p, t, "offchain", "offchain")
         \/ Arrive(p, t, "cancel", "cancel")
         \/ ReconcileArrives(p, t)
         \/ RequestArrives(p, t)
         \/ EditArrives(p, t)
         \/ \E status \in Statuses : PutArrives(p, t, status)
         \/ \E type \in Appends : AppendArrives(p, t, type)
  BY DEF Arrival
<1>2. p \in Procs /\ proc \in [Procs -> Thread] /\ arrivals[t] \in 0..1
  BY DEF Procs, TypeOK, OneRequest
<1>3. \A u, x : TradeHash(t, u, x)[1] = t
  BY DEF TradeHash
<1>4. ASSUME NEW x, proc' = [proc EXCEPT ![p] = x], Left(x), UNCHANGED arrivals PROVE RoleStep
  BY <1>2, <1>4 DEF RoleStep, Goes
<1>5. ASSUME NEW x, proc' = [proc EXCEPT ![p] = x], RoleOK(x), Works(x), x.on = t,
             booking[t].status = "PENDING", arrivals[t] < MaxArrivals,
             arrivals' = [arrivals EXCEPT ![t] = @ + 1], UNCHANGED <<chainVars, dbVars>>
      PROVE  RoleStep
  <2>1. arrivals[t] = 0
    BY <1>2, <1>5 DEF OneRequest
  <2>2. arrivals' = [arrivals EXCEPT ![t] = 1]
    BY <1>5, <2>1
  <2>3. TakesOn(p, t)
    BY <1>2, <1>5, <2>1, <2>2 DEF TakesOn
  <2>4. QED
    BY <1>2, <2>3 DEF RoleStep
<1>6. CASE ConfirmArrives(p, t)
  <2>1. PICK u \in UtiChoices(t) :
           proc' = [proc EXCEPT ![p] = [Idle EXCEPT !.pc = "guard", !.op = "confirm", !.on = t,
                                                    !.hash = TradeHash(t, u, booking[t].terms),
                                                    !.newUti = (booking[t].uti = NoUti)]]
    BY <1>6 DEF ConfirmArrives
  <2> DEFINE x == [Idle EXCEPT !.pc = "guard", !.op = "confirm", !.on = t,
                               !.hash = TradeHash(t, u, booking[t].terms),
                               !.newUti = (booking[t].uti = NoUti)]
  <2>2. RoleOK(x) /\ Works(x) /\ x.on = t
    BY <1>3 DEF RoleOK, Works, AnchorPc, Idle
  <2> HIDE DEF x
  <2>3. QED
    BY <1>5, <1>6, <2>1, <2>2 DEF ConfirmArrives, x
<1>7. CASE CountersignArrives(p, t)
  <2>1. PICK h : /\ h[1] = t
                 /\ proc' = [proc EXCEPT ![p] = [Idle EXCEPT !.pc = "send", !.op = "countersign",
                                                             !.on = t, !.hash = h]]
    BY <1>3, <1>7 DEF CountersignArrives
  <2> DEFINE x == [Idle EXCEPT !.pc = "send", !.op = "countersign", !.on = t, !.hash = h]
  <2>2. RoleOK(x) /\ Works(x) /\ x.on = t
    BY <2>1 DEF RoleOK, Works, AnchorPc, Idle
  <2> HIDE DEF x
  <2>3. QED
    BY <1>5, <1>7, <2>1, <2>2 DEF CountersignArrives, x
<1>8. CASE Arrive(p, t, "offchain", "offchain") \/ Arrive(p, t, "cancel", "cancel")
  BY <1>8 DEF Arrive, OneRequest
<1>9. CASE ReconcileArrives(p, t)
  <2>1. PICK i : proc' = [proc EXCEPT ![p] = [Idle EXCEPT !.pc = "resolve", !.op = "reconcile",
                                                          !.on = t, !.row = i]]
    BY <1>9 DEF ReconcileArrives
  <2>2. Left([Idle EXCEPT !.pc = "resolve", !.op = "reconcile", !.on = t, !.row = i])
    BY DEF Left, RoleOK, Works, AnchorPc, Idle
  <2>3. QED
    BY <1>4, <1>9, <2>1, <2>2 DEF ReconcileArrives
<1>10. CASE RequestArrives(p, t)
  <2>1. PICK h : proc' = [proc EXCEPT ![p] = [Idle EXCEPT !.pc = "request", !.op = "request", !.on = t,
                                                          !.hash = h, !.newUti = TRUE]]
    BY <1>10 DEF RequestArrives
  <2>2. Left([Idle EXCEPT !.pc = "request", !.op = "request", !.on = t, !.hash = h, !.newUti = TRUE])
    BY DEF Left, RoleOK, Works, AnchorPc, Idle
  <2>3. QED
    BY <1>4, <1>10, <2>1, <2>2 DEF RequestArrives
<1>11. CASE EditArrives(p, t)
  <2>1. Left([Idle EXCEPT !.pc = "edit", !.op = "edit", !.on = t])
    BY DEF Left, RoleOK, Works, AnchorPc, Idle
  <2>2. QED
    BY <1>4, <1>11, <2>1 DEF EditArrives
<1>12. ~\E status \in Statuses : PutArrives(p, t, status)
  BY DEF PutArrives, OneRequest
<1>13. ASSUME NEW type \in Appends, AppendArrives(p, t, type) PROVE RoleStep
  <2>1. Left([Idle EXCEPT !.pc = "append", !.op = type, !.on = t])
    BY DEF Left, RoleOK, Works, AnchorPc, Idle, Appends
  <2>2. QED
    BY <1>4, <1>13, <2>1 DEF AppendArrives
<1>14. QED
  BY <1>1, <1>6, <1>7, <1>8, <1>9, <1>10, <1>11, <1>12, <1>13

(* Every step is a step of what the threads work on.                       *)
LEMMA RoleStepHolds ==
  ASSUME OneRequest, TypeOK, OnceInv, [Next]_vars
  PROVE  RoleStep
<1>1. proc \in [Procs -> Thread] /\ Roles
  BY DEF TypeOK, OnceInv
<1>2. ASSUME NEW p \in Procs, NEW x, proc' = [proc EXCEPT ![p] = x], Left(x) \/ Further(proc[p], x),
             UNCHANGED arrivals
      PROVE  RoleStep
  BY <1>1, <1>2 DEF RoleStep, Goes
<1>3. ASSUME NEW p \in Procs, Finish(p), UNCHANGED arrivals PROVE RoleStep
  BY <1>2, <1>3, IdleLeft DEF Finish
<1>4. ASSUME NEW p \in Procs, Resolve(p) PROVE RoleStep
  <2>1. UNCHANGED arrivals /\ proc[p].pc \in {"resolve", "check", "settle"}
    BY <1>4, ResolveFrame DEF Resolve, LockRow, CheckPending, CheckFailed, CheckAnchored, Check, Settle
  <2>2. ~Works(proc[p]) /\ RoleOK(proc[p])
    BY <1>1, <2>1 DEF Roles, RoleOK, AnchorPc
  <2>3. AfterResolve(p) => Finish(p)
    BY <2>2 DEF AfterResolve, Works
  <2>4. ASSUME NEW pcn \in {"check", "settle"}, proc' = [proc EXCEPT ![p].pc = pcn] PROVE RoleStep
    <3>1. Left([proc[p] EXCEPT !.pc = pcn])
      BY <1>1, <2>2 DEF Left, RoleOK, Works, AnchorPc, Thread
    <3>2. QED
      BY <1>2, <2>1, <2>4, <3>1
  <2>5. QED
    BY <1>3, <1>4, <2>1, <2>3, <2>4 DEF Resolve, LockRow, CheckPending, CheckFailed, CheckAnchored, Settle
<1>5. ASSUME NEW p \in Procs, Anchor(p) PROVE RoleStep
  <2>1. UNCHANGED arrivals /\ proc[p].pc \in AnchorPc
    BY <1>5, AnchorFrame DEF AnchorPc, Anchor, InFlightGuard, Send, SendRefused, SendRecorded, Receipt,
       ReceiptTimeout, RecordPending, Apply
  <2>2. Works(proc[p]) /\ RoleOK(proc[p])
    BY <1>1, <2>1 DEF Roles, RoleOK
  <2>3. ASSUME NEW pcn \in {"send", "apply", "record"}, proc' = [proc EXCEPT ![p].pc = pcn],
               pcn = "send" => proc[p].pc = "guard"
        PROVE  RoleStep
    <3>1. Further(proc[p], [proc[p] EXCEPT !.pc = pcn])
      BY <1>1, <2>2, <2>3 DEF Further, AnchorPc, Thread
    <3>2. QED
      BY <1>2, <2>1, <2>3, <3>1
  <2>4. CASE InFlightGuard(p)
    <3>1. OpenRows(proc[p].on) = {}
      BY <2>2 DEF OnceInv, Undecided, OpenRows
    <3>2. QED
      BY <2>3, <2>4, <3>1 DEF InFlightGuard
  <2>5. CASE Send(p)
    <3>1. Further(proc[p], [proc[p] EXCEPT !.pc = "wait", !.tx = Len(txs) + 1])
      BY <1>1, <2>2 DEF Further, AnchorPc, Thread
    <3>2. proc' = [proc EXCEPT ![p] = [proc[p] EXCEPT !.pc = "wait", !.tx = Len(txs) + 1]]
      BY <1>1, <2>5 DEF Send
    <3>3. QED
      BY <1>2, <2>1, <3>1, <3>2
  <2>6. QED
    BY <1>3, <1>5, <2>1, <2>3, <2>4, <2>5
       DEF Anchor, SendRefused, SendRecorded, Receipt, ReceiptTimeout, RecordPending, Apply
<1>6. ASSUME NEW p \in Procs, Write(p) PROVE RoleStep
  BY <1>3, <1>6, WriteFrame
<1>7. ASSUME NEW i \in DOMAIN anchors, Sweep(i) PROVE RoleStep
  <2>1. Left([Idle EXCEPT !.pc = "resolve", !.op = "sweep", !.on = anchors[i].trade, !.row = i])
    BY DEF Left, RoleOK, Works, AnchorPc, Idle
  <2>2. Scheduler \in Procs
    BY DEF Procs
  <2>3. QED
    BY <1>2, <1>7, <2>1, <2>2 DEF Sweep
<1>8. CASE Crash
  BY <1>8, IdleLeft DEF Crash, RoleStep, Goes
<1>9. UNCHANGED <<proc, arrivals>> => RoleStep
  BY DEF RoleStep, Goes
<1>10. QED
  BY <1>3, <1>4, <1>5, <1>6, <1>7, <1>8, <1>9, StepCases, ArrivalRole DEF vars

(* How a step changes the rows: they keep what they say and none reopens,  *)
(* or the thread that records adds the row of its trade.                   *)
RowsKept ==
  /\ DOMAIN anchors' = DOMAIN anchors
  /\ \A i \in DOMAIN anchors :
       /\ anchors'[i].trade = anchors[i].trade
       /\ anchors'[i].hash = anchors[i].hash
       /\ anchors'[i].att = anchors[i].att
       /\ anchors'[i].status = "PENDING" => anchors[i].status = "PENDING"

RowAdded(p, n) ==
  /\ Works(proc[p]) /\ proc' = [proc EXCEPT ![p] = Idle]
  /\ DOMAIN anchors' = DOMAIN anchors \union {n} /\ n \notin DOMAIN anchors
  /\ \A i \in DOMAIN anchors : anchors'[i] = anchors[i]
  /\ anchors'[n].trade = proc[p].on
  /\ anchors'[n].hash[1] = proc[p].on /\ anchors'[n].att[1] = proc[p].on
  /\ UNCHANGED <<chainVars, events, arrivals>>
  /\ \A s \in Trades : booking'[s].status = booking[s].status

(* A step that writes one row and neither its trade nor its hashes.        *)
LEMMA RowKept ==
  ASSUME TypeOK, NEW i \in DOMAIN anchors, NEW x \in Row, anchors' = [anchors EXCEPT ![i] = x],
         x.trade = anchors[i].trade, x.hash = anchors[i].hash, x.att = anchors[i].att,
         x.status = "PENDING" => anchors[i].status = "PENDING"
  PROVE  RowsKept
<1>1. anchors \in Seq(Row)
  BY DEF TypeOK
<1>2. DOMAIN anchors = 1..Len(anchors) /\ anchors \in [1..Len(anchors) -> Row]
  BY <1>1, LenProperties
<1>3. QED
  BY <1>2 DEF RowsKept

(* Every step is a step of the rows.                                       *)
LEMMA RowsStepHolds ==
  ASSUME TypeOK, OnceInv, [Next]_vars
  PROVE  RowsKept \/ \E p \in Procs, n \in Nat : RowAdded(p, n)
<1>1. /\ proc \in [Procs -> Thread] /\ ThreadType /\ TableType
      /\ \A i \in DOMAIN anchors : anchors[i] \in Row
  BY TypeParts, LenProperties DEF ThreadType, TableType
<1>2. ASSUME NEW p \in Procs, NEW status \in {"ANCHORED", "FAILED"}, proc[p].pc \in {"check", "settle"},
             anchors' = [anchors EXCEPT ![proc[p].row].status = status]
      PROVE  RowsKept
  <2>1. PICK i \in DOMAIN anchors : i = proc[p].row
    BY <1>1, <1>2 DEF ThreadType, ThreadOK
  <2> DEFINE x == [anchors[i] EXCEPT !.status = status]
  <2>2. x \in Row /\ x.trade = anchors[i].trade /\ x.hash = anchors[i].hash /\ x.att = anchors[i].att
        /\ x.status = status
    BY <1>1 DEF Row
  <2>3. anchors' = [anchors EXCEPT ![i] = x]
    BY <1>2, <2>1
  <2> HIDE DEF x
  <2>4. QED
    BY <1>2, <2>2, <2>3, RowKept
<1>3. ASSUME NEW p \in Procs, CheckFailed(p) \/ CheckAnchored(p) \/ Settle(p) PROVE RowsKept
  BY <1>2, <1>3 DEF CheckFailed, CheckAnchored, Check, Settle, RowsKept
<1>4. ASSUME NEW i \in DOMAIN anchors, Age(i) PROVE RowsKept
  <2> DEFINE x == [anchors[i] EXCEPT !.age = @ + 1]
  <2>1. anchors[i].age + 1 \in 0..2
    BY <1>1, <1>4 DEF Age, Row
  <2>2. x \in Row /\ x.trade = anchors[i].trade /\ x.hash = anchors[i].hash /\ x.att = anchors[i].att
        /\ x.status = anchors[i].status
    BY <1>1, <2>1 DEF Row
  <2>3. anchors' = [anchors EXCEPT ![i] = x]
    BY <1>4 DEF Age
  <2> HIDE DEF x
  <2>4. QED
    BY <2>2, <2>3, RowKept
<1>5. ASSUME NEW p \in Procs, RecordPending(p) PROVE \E n \in Nat : RowAdded(p, n)
  <2> DEFINE n == Len(anchors) + 1
             x == [trade |-> proc[p].on, status |-> "PENDING", hash |-> proc[p].hash,
                   att |-> proc[p].hash, tx |-> proc[p].tx, age |-> 0]
  <2>1. Works(proc[p]) /\ proc[p].hash[1] = proc[p].on
    BY <1>5 DEF RecordPending, OnceInv, Roles, RoleOK, AnchorPc
  <2>2. OpenRows(proc[p].on) = {}
    BY <2>1 DEF OnceInv, Undecided, OpenRows
  <2>3. anchors' = Append(anchors, x)
    BY <1>5, <2>2 DEF RecordPending
  <2>4. x \in Row
    BY <1>1, <1>5, LenProperties DEF ThreadType, ThreadOK, RecordPending, Thread, Row, SignsHash, TypeOK
  <2> HIDE DEF x
  <2>5. /\ n \in Nat /\ n \notin DOMAIN anchors /\ DOMAIN anchors' = DOMAIN anchors \union {n}
        /\ \A i \in DOMAIN anchors : anchors'[i] = anchors[i]
        /\ anchors'[n] = x
    BY <1>1, <2>3, <2>4, AppendProperties, LenProperties DEF TableType
  <2>6. \A s \in Trades : booking'[s].status = booking[s].status
    BY <1>5, UtiKeepsStatus DEF RecordPending
  <2>7. UNCHANGED <<chainVars, events, arrivals>> /\ proc' = [proc EXCEPT ![p] = Idle]
    BY <1>5 DEF RecordPending, Finish
  <2>8. x.trade = proc[p].on /\ x.hash = proc[p].hash /\ x.att = proc[p].hash
    BY DEF x
  <2> HIDE DEF n
  <2>9. RowAdded(p, n)
    BY <2>1, <2>5, <2>6, <2>7, <2>8 DEF RowAdded
  <2>10. QED
    BY <2>5, <2>9
<1>6. UNCHANGED anchors => RowsKept
  BY DEF RowsKept
<1>7. QED
  BY <1>3, <1>4, <1>5, <1>6, AnchorsSteps

(* How a step changes the transactions: a pending one is included or       *)
(* dropped, or the thread that sends adds one for its trade.               *)
TxsKept ==
  /\ DOMAIN txs' = DOMAIN txs
  /\ \A n \in DOMAIN txs : /\ txs'[n].hash = txs[n].hash
                           /\ txs[n].state = "mined" => txs'[n].state = "mined"

TxAdded(p, n) ==
  /\ Works(proc[p]) /\ proc[p].pc = "send"
  /\ proc' = [proc EXCEPT ![p] = proc'[p]] /\ proc'[p].pc = "wait"
  /\ DOMAIN txs' = DOMAIN txs \union {n} /\ n \notin DOMAIN txs
  /\ \A m \in DOMAIN txs : txs'[m] = txs[m]
  /\ txs'[n].hash[1] = proc[p].on
  /\ UNCHANGED <<confirmations, booking, events, anchors, arrivals>>

(* Inclusion records the hash of a transaction that was not included yet.  *)
Included(n) ==
  /\ txs[n].state # "mined" /\ txs'[n].state = "mined"
  /\ ~OnRegistry(txs[n].hash) /\ OnRegistryNext(txs[n].hash)
  /\ \A h \in TradeHashes : h # txs[n].hash => confirmations'[h] = confirmations[h]
  /\ UNCHANGED <<booking, events>>

(* Every step is a step of the transactions, and the registry records what *)
(* it includes.                                                            *)
LEMMA TxsStepHolds ==
  ASSUME TypeOK, OnceInv, [Next]_vars
  PROVE  \/ TxsKept /\ (UNCHANGED confirmations \/ \E n \in DOMAIN txs : Included(n))
         \/ \E p \in Procs, n \in Nat : TxAdded(p, n)
<1>1. /\ txs \in Seq(Tx) /\ DOMAIN txs = 1..Len(txs) /\ Len(txs) \in Nat
      /\ \A n \in DOMAIN txs : txs[n] \in Tx
  <2>1. txs \in Seq(Tx)
    BY DEF TypeOK
  <2>2. QED
    BY <2>1, LenProperties
<1>2. CASE UNCHANGED chainVars
  BY <1>2 DEF chainVars, TxsKept
<1>3. ASSUME NEW p \in Procs, Send(p) PROVE \E n \in Nat : TxAdded(p, n)
  <2> DEFINE n == Len(txs) + 1
             x == [hash |-> proc[p].hash, state |-> "pending"]
  <2>1. Works(proc[p]) /\ proc[p].hash[1] = proc[p].on
    BY <1>3 DEF Send, OnceInv, Roles, RoleOK, AnchorPc
  <2>2. x \in Tx
    BY <1>3, TypeParts DEF ThreadType, ThreadOK, Send, SignsHash, Tx, TxState
  <2>3. txs' = Append(txs, x)
    BY <1>3 DEF Send, Broadcast
  <2>4. x.hash = proc[p].hash
    OBVIOUS
  <2> HIDE DEF x
  <2>5. /\ n \in Nat /\ n \notin DOMAIN txs /\ DOMAIN txs' = DOMAIN txs \union {n}
        /\ \A i \in DOMAIN txs : txs'[i] = txs[i]
        /\ txs'[n] = x
    BY <1>1, <2>2, <2>3, AppendProperties, LenProperties
  <2>6. proc' = [proc EXCEPT ![p] = proc'[p]] /\ proc'[p].pc = "wait"
    BY <1>3 DEF Send, TypeOK, Thread
  <2>7. UNCHANGED <<confirmations, booking, events, anchors, arrivals>>
    BY <1>3 DEF Send, dbVars
  <2> HIDE DEF n
  <2>8. TxAdded(p, n)
    BY <1>3, <2>1, <2>4, <2>5, <2>6, <2>7 DEF TxAdded, Send
  <2>9. QED
    BY <2>5, <2>8
<1>4. ASSUME NEW i \in DOMAIN txs, Mine(i) \/ Drop(i), UNCHANGED dbVars
      PROVE  TxsKept /\ (UNCHANGED confirmations \/ Included(i))
  <2>1. PICK state \in TxState : txs' = [txs EXCEPT ![i].state = state]
    BY <1>4 DEF Mine, Drop, TxState
  <2>2. /\ DOMAIN txs' = DOMAIN txs /\ \A n \in DOMAIN txs : txs'[n].hash = txs[n].hash
        /\ \A n \in DOMAIN txs \ {i} : txs'[n] = txs[n]
    BY <1>1, <2>1, SentInType
  <2>3. txs[i].state # "mined"
    BY <1>4 DEF Mine, Drop
  <2>4. TxsKept
    BY <2>2, <2>3 DEF TxsKept
  <2>5. CASE UNCHANGED confirmations
    BY <2>4, <2>5
  <2>6. CASE Registry!Confirm(txs[i].hash, Own, Cp) /\ txs' = [txs EXCEPT ![i].state = "mined"]
    <3>1. /\ confirmations' = [confirmations EXCEPT ![txs[i].hash] = Registry!Recorded(Own, Cp, ZeroHash)]
          /\ confirmations[txs[i].hash].status = "None"
      BY <2>6 DEF Registry!Confirm, Registry!ConfirmAccepted
    <3>2. txs[i].hash \in TradeHashes /\ txs'[i].state = "mined"
      BY <1>1, <2>6 DEF Tx
    <3>3. confirmations'[txs[i].hash].status = "Confirmed"
      BY <3>1, <3>2 DEF Registry!Recorded, TypeOK
    <3>4. Included(i)
      BY <1>4, <2>3, <3>1, <3>2, <3>3 DEF Included, OnRegistry, OnRegistryNext, TypeOK, dbVars
    <3>5. QED
      BY <2>4, <3>4
  <2>7. QED
    BY <1>4, <2>5, <2>6 DEF Mine, Drop
<1>5. QED
  BY <1>2, <1>3, <1>4, ChainSteps, StepCases DEF Chain, Send, chainVars, dbVars, vars

(* How a step changes what the desk says of its trades: no status and no   *)
(* confirmation, or the thread that applies its anchor, or the one that    *)
(* settles an open row, confirms the trade.                                *)
EventAppended(t, type) == events' = [events EXCEPT ![t] = Append(@, Event(type, NoHash, NoHash))]

StatusKept == /\ \A s \in Trades : booking'[s].status = booking[s].status
              /\ UNCHANGED events \/ \E t \in Trades, type \in Appends : EventAppended(t, type)

SettlesRow(p, i) ==
  /\ ~Works(proc[p]) /\ proc[p].pc = "settle" /\ proc[p].row = i
  /\ anchors[i].trade = proc[p].on
  /\ anchors[i].status = "PENDING" /\ anchors'[i].status # "PENDING"

Confirms(p) ==
  /\ proc[p].on \in Trades
  /\ proc' = [proc EXCEPT ![p] = Idle]
  /\ UNCHANGED <<chainVars, arrivals>>
  /\ \E hash, att \in TradeHashes : Decides(proc[p].on, "CONFIRMED", hash, att)
  /\ \/ Works(proc[p]) /\ proc[p].pc = "apply" /\ UNCHANGED anchors
     \/ \E i \in DOMAIN anchors : SettlesRow(p, i)

(* Every step is one of these; nothing is confirmed or cancelled off the   *)
(* chain, and no status is set as a field.                                 *)
LEMMA StatusStepHolds ==
  ASSUME TypeOK, HeldIsOpen, OnceInv, [Next]_vars
  PROVE  StatusKept \/ \E p \in Procs : Confirms(p)
<1>1. BookStep /\ Roles /\ ThreadType
  BY BookStepHolds, TypeParts DEF OnceInv
<1>2. ASSUME NEW p \in Procs, OffchainConfirm(p) \/ Cancel(p) \/ PutStatus(p) PROVE FALSE
  BY <1>1, <1>2 DEF OffchainConfirm, Cancel, PutStatus, Roles, RoleOK
<1>3. ASSUME NEW p \in Procs, Apply(p), Decides(proc[p].on, "CONFIRMED", proc[p].hash, proc[p].hash)
      PROVE  Confirms(p)
  <2>1. proc[p].on \in Trades /\ proc[p].hash \in TradeHashes /\ Works(proc[p])
    BY <1>1, <1>3 DEF Apply, ThreadType, ThreadOK, SignsHash, Roles, RoleOK, AnchorPc
  <2>2. QED
    BY <1>3, <2>1 DEF Confirms, Apply, Finish
<1>4. ASSUME NEW p \in Procs, Settle(p),
             Decides(proc[p].on, "CONFIRMED", anchors[proc[p].row].hash, anchors[proc[p].row].att)
      PROVE  Confirms(p)
  <2>1. PICK i \in DOMAIN anchors : i = proc[p].row /\ anchors[i].trade = proc[p].on
    BY <1>1, <1>4 DEF Settle, ThreadType, ThreadOK
  <2>2. proc[p].on \in Trades /\ ~Works(proc[p])
    BY <1>1, <1>4 DEF Settle, ThreadType, ThreadOK, Roles, RoleOK, AnchorPc
  <2>3. anchors[i] \in Row /\ anchors[i].hash \in TradeHashes /\ anchors[i].att \in TradeHashes
    <3>1. anchors[i] \in Row
      BY TypeParts, LenProperties DEF TableType
    <3>2. QED
      BY <3>1 DEF Row
  <2>4. anchors[i].status = "PENDING"
    BY <1>4, <2>1 DEF HeldIsOpen, Held, Settle
  <2>5. anchors'[i].status = "ANCHORED"
    BY <1>4, <2>1, <2>3 DEF Settle, Row
  <2>6. SettlesRow(p, i)
    BY <1>4, <2>1, <2>2, <2>4, <2>5 DEF SettlesRow, Settle
  <2>7. QED
    BY <1>4, <2>1, <2>2, <2>3, <2>6 DEF Confirms, Settle, Finish
<1>5. ASSUME NEW p \in Procs, AppendEvent(p), Appended(proc[p].on, proc[p].op) PROVE StatusKept
  <2>1. proc[p].on \in Trades /\ proc[p].op \in Appends
    BY <1>1, <1>5 DEF AppendEvent, ThreadType, ThreadOK
  <2>2. QED
    BY <1>5, <2>1 DEF Appended, StatusesKept, StatusKept, EventAppended
<1>6. StatusesKept /\ UNCHANGED events => StatusKept
  BY DEF StatusesKept, StatusKept
<1>7. QED
  BY <1>1, <1>2, <1>3, <1>4, <1>5, <1>6 DEF BookStep

(* A thread that works after a step worked on the same trade before it, or *)
(* takes it on.                                                            *)
Carried(q) ==
  /\ Works(proc[q]) /\ proc'[q].on = proc[q].on
  /\ proc'[q].pc \in {"guard", "send"} => proc[q].pc \in {"guard", "send"}

LEMMA WorkFrom ==
  ASSUME TypeOK, RoleStep, NEW q \in Procs, Works(proc'[q])
  PROVE  Carried(q) \/ (proc'[q].on \in Trades /\ TakesOn(q, proc'[q].on))
<1>1. proc \in [Procs -> Thread]
  BY DEF TypeOK
<1>2. ASSUME Goes(q) PROVE Carried(q)
  BY <1>2 DEF Goes, Left, Further, Carried
<1>3. ASSUME NEW p \in Procs, NEW t \in Trades, TakesOn(p, t)
      PROVE  Carried(q) \/ (proc'[q].on \in Trades /\ TakesOn(q, proc'[q].on))
  <2>1. CASE q = p
    BY <1>3, <2>1 DEF TakesOn
  <2>2. CASE q # p
    BY <1>1, <1>3, <2>2 DEF TakesOn, Carried
  <2>3. QED
    BY <2>1, <2>2
<1>4. QED
  BY <1>2, <1>3 DEF RoleStep

(* Nothing of a trade exists before it is taken on,                        *)
LEMMA TakenFirst ==
  ASSUME TypeOK, Asked, NEW p \in Procs, NEW t \in Trades, TakesOn(p, t)
  PROVE  /\ \A q \in Procs : Works(proc[q]) => proc[q].on # t
         /\ \A i \in DOMAIN anchors : anchors[i].trade # t
         /\ \A n \in DOMAIN txs : txs[n].hash[1] # t
         /\ UNCHANGED <<chainVars, dbVars>>
         /\ \A q \in Procs : Works(proc'[q]) /\ proc'[q].on = t => q = p
<1>1. \A q \in Procs : Works(proc[q]) => proc[q].on # t
  BY DEF Asked, TakesOn
<1>2. \A q \in Procs : q # p => proc'[q] = proc[q]
  BY DEF TakesOn, TypeOK
<1>3. QED
  BY <1>1, <1>2 DEF Asked, TakesOn

(* and while a thread works on it nobody else sends, records or confirms.  *)
LEMMA WorksAlone ==
  ASSUME TypeOK, OnceInv, NEW q \in Procs, Works(proc'[q]), Carried(q),
         NEW p \in Procs, proc[p].on = proc[q].on
  PROVE  /\ \A n \in Nat : ~RowAdded(p, n)
         /\ proc'[q].pc \in {"guard", "send"} => \A n \in Nat : ~TxAdded(p, n)
         /\ ~Confirms(p)
<1>1. proc \in [Procs -> Thread] /\ ~Works(Idle)
  BY DEF TypeOK, Works, Idle
<1>2. Works(proc[p]) => p = q
  BY DEF OnceInv, OneAttempt, Carried
<1>3. ASSUME proc' = [proc EXCEPT ![p] = Idle], Works(proc[p]) PROVE FALSE
  BY <1>1, <1>2, <1>3
<1>4. ASSUME NEW i \in DOMAIN anchors, SettlesRow(p, i) PROVE FALSE
  BY <1>4 DEF SettlesRow, OnceInv, Undecided, Carried
<1>5. ASSUME proc'[q].pc \in {"guard", "send"}, NEW n \in Nat, TxAdded(p, n) PROVE FALSE
  BY <1>2, <1>5 DEF TxAdded
<1>6. QED
  BY <1>3, <1>4, <1>5 DEF RowAdded, Confirms

(* The threads keep their roles.                                           *)
LEMMA RolesNext ==
  ASSUME TypeOK, Roles, RoleStep
  PROVE  Roles'
<1>1. proc \in [Procs -> Thread]
  BY DEF TypeOK
<1>2. ASSUME NEW q \in Procs, Goes(q) PROVE RoleOK(proc'[q])
  <2>1. RoleOK(proc[q])
    BY DEF Roles
  <2>2. Further(proc[q], proc'[q]) => RoleOK(proc'[q])
    BY <2>1 DEF Further, RoleOK, Works, AnchorPc
  <2>3. QED
    BY <1>2, <2>1, <2>2 DEF Goes, Left
<1>3. ASSUME NEW p \in Procs, NEW t \in Trades, TakesOn(p, t), NEW q \in Procs PROVE RoleOK(proc'[q])
  BY <1>1, <1>3 DEF TakesOn, Roles
<1>4. \A q \in Procs : RoleOK(proc'[q])
  BY <1>2, <1>3 DEF RoleStep
<1>5. QED
  BY <1>4 DEF Roles, RoleOK, Works

(* What exists of a trade was asked for.                                   *)
LEMMA AskedNext ==
  ASSUME TypeOK, OnceInv, RoleStep,
         RowsKept \/ \E p \in Procs, n \in Nat : RowAdded(p, n),
         TxsKept \/ \E p \in Procs, n \in Nat : TxAdded(p, n)
  PROVE  Asked'
<1>1. arrivals \in [Trades -> 0..MaxArrivals] /\ Asked /\ MaxArrivals \in Nat
  BY ConfirmationAssumption DEF TypeOK, OnceInv
<1>2. /\ \A i \in DOMAIN anchors : anchors[i].trade \in Trades
      /\ \A n \in DOMAIN txs : txs[n].hash[1] \in Trades
      /\ \A p \in Procs : Works(proc[p]) => proc[p].on \in Trades
  <2>1. \A i \in DOMAIN anchors : anchors[i] \in Row
    BY TypeParts, LenProperties DEF TableType
  <2>2. \A n \in DOMAIN txs : txs[n] \in Tx
    BY TypeParts, LenProperties DEF ChainType
  <2>3. \A h \in TradeHashes : h[1] \in Trades
    BY DEF TradeHashes, TradeHash
  <2>4. \A p \in Procs : Works(proc[p]) => proc[p].pc # "idle"
    BY DEF OnceInv, Roles, RoleOK, AnchorPc
  <2>5. QED
    BY <2>1, <2>2, <2>3, <2>4, TypeParts DEF Row, Tx, ThreadType, ThreadOK
<1>3. \A t \in Trades : arrivals[t] > 0 => arrivals'[t] > 0
  BY <1>1 DEF RoleStep, TakesOn
<1>4. ASSUME NEW q \in Procs, Works(proc'[q]) PROVE arrivals'[proc'[q].on] > 0
  <2>1. CASE Carried(q)
    BY <1>1, <1>2, <1>3, <2>1 DEF Asked, Carried
  <2>2. CASE TakesOn(q, proc'[q].on) /\ proc'[q].on \in Trades
    BY <1>1, <2>2 DEF TakesOn
  <2>3. QED
    BY <1>4, <2>1, <2>2, WorkFrom
<1>5. ASSUME NEW i \in DOMAIN anchors' PROVE arrivals'[anchors'[i].trade] > 0
  <2>1. CASE i \in DOMAIN anchors /\ anchors'[i].trade = anchors[i].trade
    <3>1. anchors[i].trade \in Trades /\ arrivals[anchors[i].trade] > 0
      BY <1>1, <1>2, <2>1 DEF Asked
    <3>2. QED
      BY <1>3, <2>1, <3>1
  <2>2. ASSUME NEW p \in Procs, RowAdded(p, i) PROVE arrivals'[anchors'[i].trade] > 0
    BY <1>1, <2>2 DEF Asked, RowAdded
  <2>3. QED
    BY <1>5, <2>1, <2>2 DEF RowsKept, RowAdded
<1>6. ASSUME NEW n \in DOMAIN txs' PROVE arrivals'[txs'[n].hash[1]] > 0
  <2>1. CASE n \in DOMAIN txs /\ txs'[n].hash = txs[n].hash
    <3>1. txs[n].hash[1] \in Trades /\ arrivals[txs[n].hash[1]] > 0
      BY <1>1, <1>2, <2>1 DEF Asked
    <3>2. QED
      BY <1>3, <2>1, <3>1
  <2>2. ASSUME NEW p \in Procs, TxAdded(p, n) PROVE arrivals'[txs'[n].hash[1]] > 0
    BY <1>1, <1>2, <1>3, <2>2 DEF Asked, TxAdded
  <2>3. QED
    BY <1>6, <2>1, <2>2 DEF TxsKept, TxAdded
<1>7. QED
  BY <1>4, <1>5, <1>6 DEF Asked, Works

(* What a step does to the four parts of the state the invariant is about. *)
OnceStep ==
  /\ RoleStep
  /\ RowsKept \/ \E p \in Procs, n \in Nat : RowAdded(p, n)
  /\ \/ TxsKept /\ (UNCHANGED confirmations \/ \E n \in DOMAIN txs : Included(n))
     \/ \E p \in Procs, n \in Nat : TxAdded(p, n)
  /\ StatusKept \/ \E p \in Procs : Confirms(p)

(* There is still one of each.                                             *)
LEMMA OneAttemptNext ==
  ASSUME TypeOK, OnceInv, OnceStep
  PROVE  OneAttempt'
<1>1. ASSUME NEW p \in Procs, NEW q \in Procs, Works(proc'[p]), Works(proc'[q]), proc'[p].on = proc'[q].on
      PROVE  p = q
  <2>1. Carried(p) \/ (proc'[p].on \in Trades /\ TakesOn(p, proc'[p].on))
    BY <1>1, WorkFrom DEF OnceStep
  <2>2. Carried(q) \/ (proc'[q].on \in Trades /\ TakesOn(q, proc'[q].on))
    BY <1>1, WorkFrom DEF OnceStep
  <2>3. ASSUME NEW r \in Procs, NEW t \in Trades, TakesOn(r, t), proc'[p].on = t PROVE p = q
    <3>1. \A x \in Procs : Works(proc'[x]) /\ proc'[x].on = t => x = r
      BY <2>3, TakenFirst DEF OnceInv
    <3>2. QED
      BY <1>1, <2>3, <3>1
  <2>4. CASE Carried(p) /\ Carried(q)
    BY <1>1, <2>4 DEF Carried, OnceInv, OneAttempt
  <2>5. QED
    BY <1>1, <2>1, <2>2, <2>3, <2>4
<1>2. ASSUME NEW i \in DOMAIN anchors', NEW j \in DOMAIN anchors', anchors'[i].trade = anchors'[j].trade
      PROVE  i = j
  <2>1. CASE RowsKept
    BY <1>2, <2>1 DEF RowsKept, OnceInv, OneAttempt
  <2>2. ASSUME NEW p \in Procs, NEW n \in Nat, RowAdded(p, n) PROVE i = j
    <3>1. \A k \in DOMAIN anchors : anchors'[k] = anchors[k] /\ anchors[k].trade # proc[p].on
      BY <2>2 DEF RowAdded, OnceInv, Undecided
    <3>2. QED
      BY <1>2, <2>2, <3>1 DEF RowAdded, OnceInv, OneAttempt
  <2>3. QED
    BY <2>1, <2>2 DEF OnceStep
<1>3. ASSUME NEW m \in DOMAIN txs', NEW n \in DOMAIN txs', txs'[m].hash[1] = txs'[n].hash[1]
      PROVE  m = n
  <2>1. CASE TxsKept
    BY <1>3, <2>1 DEF TxsKept, OnceInv, OneAttempt
  <2>2. ASSUME NEW p \in Procs, NEW k \in Nat, TxAdded(p, k) PROVE m = n
    <3>1. \A l \in DOMAIN txs : txs'[l] = txs[l] /\ txs[l].hash[1] # proc[p].on
      BY <2>2 DEF TxAdded, OnceInv, Undecided
    <3>2. QED
      BY <1>3, <2>2, <3>1 DEF TxAdded, OnceInv, OneAttempt
  <2>3. QED
    BY <2>1, <2>2 DEF OnceStep
<1>4. QED
  BY <1>1, <1>2, <1>3 DEF OneAttempt, Works

(* A working thread still finds its trade undecided.                       *)
LEMMA StillUndecided ==
  ASSUME TypeOK, OnceInv, OnceStep, NEW q \in Procs, Works(proc'[q])
  PROVE  /\ booking'[proc'[q].on].status = "PENDING"
         /\ \A i \in DOMAIN anchors' : anchors'[i].trade # proc'[q].on
         /\ proc'[q].pc \in {"guard", "send"} => \A n \in DOMAIN txs' : txs'[n].hash[1] # proc'[q].on
<1>1. CASE proc'[q].on \in Trades /\ TakesOn(q, proc'[q].on)
  <2>1. UNCHANGED <<booking, anchors, txs>>
    BY <1>1 DEF TakesOn, chainVars, dbVars
  <2>2. /\ \A i \in DOMAIN anchors : anchors[i].trade # proc'[q].on
        /\ \A n \in DOMAIN txs : txs[n].hash[1] # proc'[q].on
    BY <1>1, TakenFirst DEF OnceInv
  <2>3. QED
    BY <1>1, <2>1, <2>2 DEF TakesOn
<1>2. CASE Carried(q)
  <2> DEFINE t == proc[q].on
  <2>1. /\ proc'[q].on = t /\ Works(proc[q])
        /\ t \in Trades
        /\ booking[t].status = "PENDING"
        /\ \A i \in DOMAIN anchors : anchors[i].trade # t
        /\ proc'[q].pc \in {"guard", "send"} => \A n \in DOMAIN txs : txs[n].hash[1] # t
    <3>1. Works(proc[q]) /\ proc[q].pc # "idle"
      BY <1>2 DEF Carried, OnceInv, Roles, RoleOK, AnchorPc
    <3>2. t \in Trades
      BY <3>1, TypeParts DEF ThreadType, ThreadOK
    <3>3. QED
      BY <1>2, <3>1, <3>2 DEF Carried, OnceInv, Undecided
  <2>2. ASSUME NEW p \in Procs, Confirms(p) PROVE booking'[t].status = booking[t].status
    <3>1. proc[p].on # t
      BY <1>2, <2>2, WorksAlone
    <3>2. QED
      BY <2>1, <2>2, <3>1 DEF Confirms, Decides
  <2>3. booking'[t].status = "PENDING"
    BY <2>1, <2>2 DEF OnceStep, StatusKept
  <2>4. ASSUME NEW i \in DOMAIN anchors' PROVE anchors'[i].trade # t
    <3>1. ASSUME NEW p \in Procs, NEW n \in Nat, RowAdded(p, n) PROVE anchors'[i].trade # t
      <4>1. proc[p].on # t
        BY <1>2, <3>1, WorksAlone
      <4>2. QED
        BY <2>1, <2>4, <3>1, <4>1 DEF RowAdded
    <3>2. RowsKept => anchors'[i].trade # t
      BY <2>1, <2>4 DEF RowsKept
    <3>3. QED
      BY <3>1, <3>2 DEF OnceStep
  <2>5. ASSUME proc'[q].pc \in {"guard", "send"}, NEW n \in DOMAIN txs' PROVE txs'[n].hash[1] # t
    <3>1. ASSUME NEW p \in Procs, NEW m \in Nat, TxAdded(p, m) PROVE txs'[n].hash[1] # t
      <4>1. proc[p].on # t
        BY <1>2, <2>5, <3>1, WorksAlone
      <4>2. QED
        BY <2>1, <2>5, <3>1, <4>1 DEF TxAdded
    <3>2. TxsKept => txs'[n].hash[1] # t
      BY <2>1, <2>5 DEF TxsKept
    <3>3. QED
      BY <3>1, <3>2 DEF OnceStep
  <2>6. QED
    BY <2>1, <2>3, <2>4, <2>5
<1>3. QED
  BY <1>1, <1>2, WorkFrom DEF OnceStep

(* So does an open row.                                                    *)
LEMMA UndecidedNext ==
  ASSUME TypeOK, OnceInv, OnceStep
  PROVE  Undecided'
<1>1. ASSUME NEW i \in DOMAIN anchors', anchors'[i].status = "PENDING"
      PROVE  booking'[anchors'[i].trade].status = "PENDING"
  <2>1. \A j \in DOMAIN anchors : anchors[j].trade \in Trades
    <3>1. \A j \in DOMAIN anchors : anchors[j] \in Row
      BY TypeParts, LenProperties DEF TableType
    <3>2. QED
      BY <3>1 DEF Row
  <2>2. ASSUME NEW p \in Procs, NEW n \in Nat, RowAdded(p, n)
        PROVE  booking'[anchors'[i].trade].status = "PENDING"
    <3>1. booking[proc[p].on].status = "PENDING" /\ proc[p].on \in Trades
      <4>1. Works(proc[p]) /\ proc[p].pc # "idle"
        BY <2>2 DEF RowAdded, OnceInv, Roles, RoleOK, AnchorPc
      <4>2. QED
        BY <4>1, TypeParts DEF OnceInv, Undecided, ThreadType, ThreadOK
    <3>2. CASE i \in DOMAIN anchors
      BY <1>1, <2>1, <2>2, <3>2 DEF RowAdded, OnceInv, Undecided
    <3>3. CASE i = n
      BY <2>2, <3>1, <3>3 DEF RowAdded
    <3>4. QED
      BY <1>1, <2>2, <3>2, <3>3 DEF RowAdded
  <2>3. CASE RowsKept
    <3>1. /\ i \in DOMAIN anchors /\ anchors'[i].trade = anchors[i].trade
          /\ anchors[i].status = "PENDING" /\ booking[anchors[i].trade].status = "PENDING"
      BY <1>1, <2>3 DEF RowsKept, OnceInv, Undecided
    <3>2. ASSUME NEW p \in Procs, Confirms(p)
          PROVE  booking'[anchors[i].trade].status = "PENDING"
      <4>1. CASE proc[p].on # anchors[i].trade
        BY <2>1, <3>1, <3>2, <4>1 DEF Confirms, Decides
      <4>2. CASE proc[p].on = anchors[i].trade
        <5>1. ~Works(proc[p])
          BY <3>1, <4>2 DEF OnceInv, Undecided
        <5>2. PICK j \in DOMAIN anchors : SettlesRow(p, j)
          BY <3>2, <5>1 DEF Confirms
        <5>3. j = i
          BY <3>1, <4>2, <5>2 DEF SettlesRow, OnceInv, OneAttempt
        <5>4. QED
          BY <1>1, <5>2, <5>3 DEF SettlesRow
      <4>3. QED
        BY <4>1, <4>2
    <3>3. QED
      BY <2>1, <3>1, <3>2 DEF OnceStep, StatusKept
  <2>4. QED
    BY <2>2, <2>3 DEF OnceStep
<1>2. QED
  BY <1>1, StillUndecided DEF Undecided, Works

(* Rows still speak of their trades, and records of transactions.          *)
LEMMA SignedNext ==
  ASSUME TypeOK, OnceInv, OnceStep
  PROVE  RowsSigned' /\ RecordsMined'
<1>1. RowsSigned'
  <2>1. RowsSigned
    BY DEF OnceInv
  <2>2. CASE RowsKept
    BY <2>1, <2>2 DEF RowsSigned, RowsKept
  <2>3. ASSUME NEW p \in Procs, NEW n \in Nat, RowAdded(p, n) PROVE RowsSigned'
    <3>1. anchors'[n].hash[1] = anchors'[n].trade /\ anchors'[n].att[1] = anchors'[n].trade
      BY <2>3 DEF RowAdded
    <3>2. \A i \in DOMAIN anchors : anchors'[i].hash[1] = anchors'[i].trade
                                   /\ anchors'[i].att[1] = anchors'[i].trade
      BY <2>1, <2>3 DEF RowsSigned, RowAdded
    <3>3. DOMAIN anchors' = DOMAIN anchors \union {n}
      BY <2>3 DEF RowAdded
    <3>4. QED
      BY <3>1, <3>2, <3>3 DEF RowsSigned
  <2>4. QED
    BY <2>2, <2>3 DEF OnceStep
<1>2. ASSUME NEW h \in TradeHashes, OnRegistryNext(h)
      PROVE  \E n \in DOMAIN txs' : txs'[n].hash = h /\ txs'[n].state = "mined"
  <2>1. CASE TxsKept /\ OnRegistry(h)
    BY <2>1 DEF TxsKept, OnceInv, RecordsMined
  <2>2. ASSUME TxsKept, NEW n \in DOMAIN txs, Included(n), h = txs[n].hash
        PROVE  \E m \in DOMAIN txs' : txs'[m].hash = h /\ txs'[m].state = "mined"
    BY <2>2 DEF TxsKept, Included
  <2>3. ASSUME NEW p \in Procs, NEW k \in Nat, TxAdded(p, k)
        PROVE  \E m \in DOMAIN txs' : txs'[m].hash = h /\ txs'[m].state = "mined"
    <3>1. OnRegistry(h)
      BY <1>2, <2>3 DEF TxAdded, OnRegistry, OnRegistryNext
    <3>2. QED
      BY <2>3, <3>1 DEF TxAdded, OnceInv, RecordsMined
  <2>4. UNCHANGED confirmations => OnRegistry(h)
    BY <1>2 DEF OnRegistry, OnRegistryNext
  <2>5. ASSUME NEW n \in DOMAIN txs, Included(n), h # txs[n].hash PROVE OnRegistry(h)
    BY <1>2, <2>5 DEF Included, OnRegistry, OnRegistryNext
  <2>6. QED
    BY <2>1, <2>2, <2>3, <2>4, <2>5 DEF OnceStep
<1>3. RecordsMined'
  BY <1>2 DEF RecordsMined, OnRegistry, OnRegistryNext
<1>4. QED
  BY <1>1, <1>3

(* One confirmation of a trade stays one, step by step.                    *)
LEMMA OnceInvStep ==
  ASSUME OneRequest, TypeOK, HeldIsOpen, OnceInv, [Next]_vars
  PROVE  OnceInv' /\ OnceStep
<1>1. OnceStep
  BY RoleStepHolds, RowsStepHolds, TxsStepHolds, StatusStepHolds DEF OnceStep
<1>2. Roles' /\ Asked'
  BY <1>1, RolesNext, AskedNext DEF OnceStep, OnceInv
<1>3. OneAttempt' /\ Undecided' /\ RowsSigned' /\ RecordsMined'
  BY <1>1, OneAttemptNext, UndecidedNext, SignedNext
<1>4. QED
  BY <1>1, <1>2, <1>3 DEF OnceInv

-----------------------------------------------------------------------------
(* Threads and rows stand on the chain, always.                            *)
LEMMA BackingAlways == Spec => []Backing
<1>1. Init => Backing
  BY DEF Init, ChainInit, Backing, MinedRecorded, RowsAttest, Stands, Idle
<1>2. QED
  BY <1>1, BackingStep, ConfirmationTypeCorrect, HeldIsOpenAlways, PTL DEF Spec

(* One confirmation of a trade stays one, always.                          *)
LEMMA OnceInvAlways ==
  ASSUME OneRequest
  PROVE  Spec => []OnceInv
<1>1. Init => OnceInv
  <2> SUFFICES ASSUME Init PROVE OnceInv
    OBVIOUS
  <2>1. \A p \in Procs : proc[p] = Idle
    BY DEF Init
  <2>2. anchors = << >> /\ txs = << >> /\ \A h \in TradeHashes : ~OnRegistry(h)
    BY DEF Init, ChainInit, OnRegistry, Registry!Deployed, Registry!NoRecord, Registry!Bytes32
  <2>3. RoleOK(Idle) /\ ~Works(Idle)
    BY IdleLeft DEF Left
  <2>4. QED
    BY <2>1, <2>2, <2>3
       DEF OnceInv, Roles, Asked, OneAttempt, Undecided, RowsSigned, RecordsMined
<1>2. QED
  BY <1>1, OnceInvStep, ConfirmationTypeCorrect, HeldIsOpenAlways, PTL DEF Spec

(* What the contract sees of a trade.                                      *)
Recorded(t) == \E h \in TradeHashes : h[1] = t /\ OnRegistry(h)

RecordedNext(t) == \E h \in TradeHashes : h[1] = t /\ OnRegistryNext(h)

ConfirmedAt(es) == {i \in DOMAIN es : es[i].type = "CONFIRMED"}

(* An event that is appended as it comes is no confirmation.               *)
LEMMA NoMoreConfirmed ==
  ASSUME TypeOK, UNCHANGED events \/ (\E t \in Trades, type \in Appends : EventAppended(t, type)),
         NEW s \in Trades
  PROVE  ConfirmedAt(events'[s]) = ConfirmedAt(events[s])
<1>1. CASE UNCHANGED events
  BY <1>1
<1>2. ASSUME NEW t \in Trades, NEW type \in Appends, EventAppended(t, type)
      PROVE  ConfirmedAt(events'[s]) = ConfirmedAt(events[s])
  <2>1. events[t] \in Seq(EventType)
    BY DEF TypeOK
  <2>2. /\ events'[t] = Append(events[t], Event(type, NoHash, NoHash))
        /\ s # t => events'[s] = events[s]
    BY <1>2 DEF TypeOK, EventAppended
  <2>3. /\ DOMAIN events[t] = 1..Len(events[t]) /\ Len(events[t]) \in Nat
        /\ DOMAIN events'[t] = 1..(Len(events[t]) + 1)
        /\ \A n \in 1..Len(events[t]) : events'[t][n] = events[t][n]
        /\ events'[t][Len(events[t]) + 1].type = type
    <3>1. Event(type, NoHash, NoHash) \in EventType /\ Event(type, NoHash, NoHash).type = type
      BY DEF Event, EventType
    <3>2. QED
      BY <2>1, <2>2, <3>1, AppendProperties, LenProperties
  <2>4. type # "CONFIRMED"
    BY DEF Appends
  <2>5. ConfirmedAt(events'[t]) = ConfirmedAt(events[t])
    BY <2>3, <2>4 DEF ConfirmedAt
  <2>6. QED
    BY <2>2, <2>5
<1>3. QED
  BY <1>1, <1>2

(* Decided as confirmed, a trade has one more CONFIRMED event.             *)
LEMMA OneMoreConfirmed ==
  ASSUME TypeOK, NEW t \in Trades, NEW hash \in TradeHashes, NEW att \in TradeHashes,
         Decides(t, "CONFIRMED", hash, att)
  PROVE  /\ Cardinality(ConfirmedAt(events'[t])) = Cardinality(ConfirmedAt(events[t])) + 1
         /\ \A s \in Trades : s # t => events'[s] = events[s]
<1> DEFINE e == Event("CONFIRMED", hash, att)
           n == Len(events[t]) + 1
<1>1. events \in [Trades -> Seq(EventType) \ {<< >>}] /\ events' = [events EXCEPT ![t] = Append(@, e)]
  BY DEF TypeOK, Decides
<1>2. e \in EventType /\ e.type = "CONFIRMED"
  BY DEF Event, EventType
<1> HIDE DEF e
<1>3. events[t] \in Seq(EventType) /\ events'[t] = Append(events[t], e)
  BY <1>1
<1>4. /\ DOMAIN events[t] = 1..Len(events[t]) /\ Len(events[t]) \in Nat
      /\ DOMAIN events'[t] = DOMAIN events[t] \union {n} /\ n \notin DOMAIN events[t]
      /\ \A i \in DOMAIN events[t] : events'[t][i] = events[t][i]
      /\ events'[t][n] = e
  BY <1>2, <1>3, AppendProperties, LenProperties
<1>5. ConfirmedAt(events'[t]) = ConfirmedAt(events[t]) \union {n} /\ n \notin ConfirmedAt(events[t])
  BY <1>2, <1>4 DEF ConfirmedAt
<1>6. IsFiniteSet(ConfirmedAt(events[t]))
  <2>1. IsFiniteSet(1..Len(events[t]))
    <3>1. 1 \in Int /\ Len(events[t]) \in Int
      BY <1>4
    <3>2. QED
      BY <3>1, FS_Interval
  <2>2. ConfirmedAt(events[t]) \subseteq 1..Len(events[t])
    BY <1>4 DEF ConfirmedAt
  <2>3. QED
    BY <2>1, <2>2, FS_Subset
<1>7. Cardinality(ConfirmedAt(events'[t])) = Cardinality(ConfirmedAt(events[t])) + 1
  BY <1>5, <1>6, FS_AddElement
<1>8. QED
  BY <1>1, <1>7

(* Whoever confirms has the record of the trade.                           *)
LEMMA ConfirmsRecorded ==
  ASSUME TypeOK, OnceInv, Backing, NEW p \in Procs, Confirms(p)
  PROVE  /\ booking[proc[p].on].status = "PENDING"
         /\ Recorded(proc[p].on)
<1>1. CASE Works(proc[p]) /\ proc[p].pc = "apply"
  <2>1. proc[p].hash \in TradeHashes /\ proc[p].hash[1] = proc[p].on /\ OnRegistry(proc[p].hash)
    BY <1>1, TypeParts DEF ThreadType, ThreadOK, SignsHash, OnceInv, Roles, RoleOK, Backing, Stands
  <2>2. QED
    BY <1>1, <2>1 DEF OnceInv, Undecided, Recorded
<1>2. ASSUME NEW i \in DOMAIN anchors, SettlesRow(p, i)
      PROVE  booking[proc[p].on].status = "PENDING" /\ Recorded(proc[p].on)
  <2>1. anchors[i] \in Row
    BY TypeParts, LenProperties DEF TableType
  <2>2. /\ anchors[i].hash \in TradeHashes /\ anchors[i].hash[1] = proc[p].on
        /\ anchors[i].att \in TradeHashes /\ anchors[i].att[1] = proc[p].on
    BY <1>2, <2>1 DEF Row, SettlesRow, OnceInv, RowsSigned
  <2>3. OnRegistry(anchors[i].hash) \/ OnRegistry(anchors[i].att)
    BY <1>2 DEF SettlesRow, Backing, Stands, RowBacked
  <2>4. booking[proc[p].on].status = "PENDING"
    BY <1>2 DEF SettlesRow, OnceInv, Undecided
  <2>5. QED
    BY <2>2, <2>3, <2>4 DEF Recorded
<1>3. QED
  BY <1>1, <1>2 DEF Confirms

(* Whatever is included is the first record of its trade.                  *)
LEMMA IncludedFirst ==
  ASSUME TypeOK, OnceInv, NEW n \in DOMAIN txs, Included(n)
  PROVE  \E t \in Trades : /\ ~Recorded(t) /\ RecordedNext(t)
                           /\ \A s \in Trades : s # t => (RecordedNext(s) <=> Recorded(s))
<1> DEFINE h == txs[n].hash
           t == h[1]
<1>1. h \in TradeHashes
  <2>1. txs[n] \in Tx
    BY TypeParts, LenProperties DEF ChainType
  <2>2. QED
    BY <2>1 DEF Tx
<1>2. t \in Trades
  BY <1>1 DEF TradeHashes, TradeHash
<1>3. ~Recorded(t)
  <2>1. SUFFICES ASSUME NEW g \in TradeHashes, g[1] = t, OnRegistry(g) PROVE FALSE
    BY DEF Recorded
  <2>2. PICK m \in DOMAIN txs : txs[m].hash = g /\ txs[m].state = "mined"
    BY <2>1 DEF OnceInv, RecordsMined
  <2>3. m = n
    BY <2>1, <2>2 DEF OnceInv, OneAttempt
  <2>4. QED
    BY <2>2, <2>3 DEF Included
<1>4. RecordedNext(t)
  BY <1>1 DEF RecordedNext, Included
<1>5. ASSUME NEW s \in Trades, s # t PROVE RecordedNext(s) <=> Recorded(s)
  <2>1. \A g \in TradeHashes : g[1] = s => (OnRegistryNext(g) <=> OnRegistry(g))
    BY <1>5 DEF Included, OnRegistry, OnRegistryNext
  <2>2. QED
    BY <2>1 DEF Recorded, RecordedNext
<1>6. QED
  BY <1>2, <1>3, <1>4, <1>5

(* The contract's variables, as Confirmation gives them.                   *)
StatusNow   == [t \in Trades |-> booking[t].status]
RecordedNow == [t \in Trades |-> \E h \in TradeHashes : h[1] = t /\ OnRegistry(h)]
ConfirmsNow == [t \in Trades |-> Cardinality({i \in DOMAIN events[t] : events[t][i].type = "CONFIRMED"})]

ContractStep == \E t \in Trades : Contract!Record(t) \/ Contract!Confirm(t)

(* Every step is a step of the contract, or none it can see.               *)
LEMMA ContractStepHolds ==
  ASSUME TypeOK, OnceInv, OnceStep, Backing
  PROVE  ContractStep \/ UNCHANGED <<StatusNow, RecordedNow, ConfirmsNow>>
<1>1. ASSUME \A s \in Trades : RecordedNext(s) <=> Recorded(s)
      PROVE  RecordedNow' = RecordedNow
  BY <1>1 DEF RecordedNow, Recorded, RecordedNext, OnRegistry, OnRegistryNext
<1>2. ASSUME StatusKept PROVE StatusNow' = StatusNow /\ ConfirmsNow' = ConfirmsNow
  <2>1. StatusNow' = StatusNow
    BY <1>2 DEF StatusKept, StatusNow
  <2>2. ASSUME NEW s \in Trades PROVE ConfirmedAt(events'[s]) = ConfirmedAt(events[s])
    BY <1>2, NoMoreConfirmed DEF StatusKept
  <2>3. QED
    BY <2>1, <2>2 DEF ConfirmsNow, ConfirmedAt
<1>3. ASSUME UNCHANGED confirmations PROVE \A s \in Trades : RecordedNext(s) <=> Recorded(s)
  BY <1>3 DEF Recorded, RecordedNext, OnRegistry, OnRegistryNext
<1>4. ASSUME NEW n \in DOMAIN txs, Included(n) PROVE ContractStep
  <2>1. PICK t \in Trades : /\ ~Recorded(t) /\ RecordedNext(t)
                            /\ \A s \in Trades : s # t => (RecordedNext(s) <=> Recorded(s))
    BY <1>4, IncludedFirst
  <2>2. RecordedNow' = [RecordedNow EXCEPT ![t] = TRUE]
    <3>1. /\ RecordedNow = [s \in Trades |-> Recorded(s)]
          /\ RecordedNow' = [s \in Trades |-> RecordedNext(s)]
      BY Zenon DEF RecordedNow, Recorded, RecordedNext, OnRegistry, OnRegistryNext
    <3>2. \A s \in Trades : RecordedNext(s) = IF s = t THEN TRUE ELSE Recorded(s)
      BY <2>1 DEF Recorded, RecordedNext
    <3>3. QED
      BY <3>1, <3>2, Zenon
  <2>3. ~RecordedNow[t]
    BY <2>1 DEF RecordedNow, Recorded
  <2>4. StatusNow' = StatusNow /\ ConfirmsNow' = ConfirmsNow
    BY <1>4 DEF Included, StatusNow, ConfirmsNow
  <2>5. Contract!Record(t)
    BY <2>2, <2>3, <2>4 DEF Contract!Record, StatusNow, RecordedNow, ConfirmsNow
  <2>6. QED
    BY <2>5 DEF ContractStep
<1>5. ASSUME NEW p \in Procs, Confirms(p) PROVE ContractStep
  <2>0. PICK t \in Trades : t = proc[p].on
    BY <1>5 DEF Confirms
  <2>1. booking[t].status = "PENDING" /\ Recorded(t) /\ UNCHANGED confirmations
    BY <1>5, <2>0, ConfirmsRecorded DEF Confirms, chainVars
  <2>2. PICK hash \in TradeHashes, att \in TradeHashes : Decides(t, "CONFIRMED", hash, att)
    BY <1>5, <2>0 DEF Confirms
  <2>3. RecordedNow' = RecordedNow /\ RecordedNow[t]
    BY <1>1, <1>3, <2>1 DEF RecordedNow, Recorded
  <2>4. StatusNow' = [StatusNow EXCEPT ![t] = "CONFIRMED"] /\ StatusNow[t] = "PENDING"
    BY <2>1, <2>2 DEF Decides, StatusNow
  <2>5. /\ Cardinality(ConfirmedAt(events'[t])) = Cardinality(ConfirmedAt(events[t])) + 1
        /\ \A s \in Trades : s # t => events'[s] = events[s]
    BY <2>1, <2>2, OneMoreConfirmed
  <2>6. ConfirmsNow' = [ConfirmsNow EXCEPT ![t] = @ + 1]
    BY <2>1, <2>5 DEF ConfirmsNow, ConfirmedAt
  <2>7. Contract!Confirm(t)
    BY <2>3, <2>4, <2>6 DEF Contract!Confirm, StatusNow, RecordedNow, ConfirmsNow
  <2>8. QED
    BY <2>7 DEF ContractStep
<1>6. ASSUME NEW p \in Procs, NEW n \in Nat, TxAdded(p, n) PROVE UNCHANGED confirmations
  BY <1>6 DEF TxAdded
<1>7. QED
  BY <1>1, <1>2, <1>3, <1>4, <1>5, <1>6 DEF OnceStep

(* However the request, the reconcile polls, the scheduler, the miners, a  *)
(* failed commit and a crash interleave, the confirmation of a trade that  *)
(* is asked for once and on the chain keeps the contract of ConfirmOnce:   *)
(* one CONFIRMED event, for good, after the registry holds the record.     *)
THEOREM ConfirmedOnceHolds ==
  ASSUME MaxArrivals = 1, Ops \intersect {"offchain", "cancel", "put"} = {}
  PROVE  Spec => ConfirmedOnce
<1>1. OneRequest
  BY DEF OneRequest
<1>2. Init => Contract!Init
  <2> SUFFICES ASSUME Init PROVE Contract!Init
    OBVIOUS
  <2>1. StatusNow = [t \in Trades |-> "PENDING"]
    BY DEF Init, StatusNow
  <2>2. RecordedNow = [t \in Trades |-> FALSE]
    BY DEF Init, ChainInit, RecordedNow, OnRegistry, Registry!Deployed, Registry!NoRecord, Registry!Bytes32
  <2>3. ConfirmsNow = [t \in Trades |-> 0]
    <3>1. \A t \in Trades : {i \in DOMAIN events[t] : events[t][i].type = "CONFIRMED"} = {}
      BY DEF Init, Event
    <3>2. QED
      BY <3>1, FS_EmptySet DEF ConfirmsNow
  <2>4. QED
    BY <2>1, <2>2, <2>3 DEF Contract!Init, StatusNow, RecordedNow, ConfirmsNow
<1>3. TypeOK /\ HeldIsOpen /\ OnceInv /\ Backing /\ [Next]_vars =>
        [\E t \in Trades : Contract!Record(t) \/ Contract!Confirm(t)]_<<
          [t \in Trades |-> booking[t].status],
          [t \in Trades |-> \E h \in TradeHashes : h[1] = t /\ OnRegistry(h)],
          [t \in Trades |-> Cardinality({i \in DOMAIN events[t] : events[t][i].type = "CONFIRMED"})]>>
  <2> SUFFICES ASSUME TypeOK, HeldIsOpen, OnceInv, Backing, [Next]_vars
               PROVE  ContractStep \/ UNCHANGED <<StatusNow, RecordedNow, ConfirmsNow>>
    BY DEF ContractStep, StatusNow, RecordedNow, ConfirmsNow
  <2>1. QED
    BY <1>1, OnceInvStep, ContractStepHolds
<1>4. Spec => []OnceInv
  BY <1>1, OnceInvAlways
<1>5. QED
  BY <1>2, <1>3, <1>4, ConfirmationTypeCorrect, HeldIsOpenAlways, BackingAlways, PTL
     DEF Spec, ConfirmedOnce, Contract!Spec
=============================================================================
