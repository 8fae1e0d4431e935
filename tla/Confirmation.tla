----------------------------- MODULE Confirmation -----------------------------
(***************************************************************************)
(* Confirming a booked trade on the chain.  The API's request threads, the *)
(* in-process scheduler, the database and the relayer's transactions       *)
(* (backend/api/routes/chain.py, trade_events.py, trade_legs.py,           *)
(* backend/chain/pending.py, attestation.py).                              *)
(*                                                                         *)
(* A handler is split where other threads can run: between loading the     *)
(* trade and the chain call, while it waits for the receipt, and before    *)
(* its commit.  What it loaded stays in its session (proc[p]); a commit is *)
(* one step.  A row of pending_anchors taken FOR UPDATE is locked by the   *)
(* thread whose pc is "check" or "settle".                                 *)
(*                                                                         *)
(* Not here: roles, tenants, quotas (charged before anything else),        *)
(* idempotency keys (each arrival is a new request), amend and terminate.  *)
(***************************************************************************)
EXTENDS Relayer

CONSTANTS Requests,      \* request threads of the API process
          Scheduler,     \* the scheduler thread of the same process
          Ops,           \* the routes the desk uses, a subset of AllOps
          InitUtis,      \* UTIs a trade may be booked with, NoUti for none
          NoUti, NoHash, NoOne, NoTrade,
          MaxArrivals,   \* bound: confirm and countersign requests per trade
          MaxTxs,        \* bound: transactions sent
          MaxEvents,     \* bound: a trade with this many events gets no append and no put
          MaxFaults      \* bound: database failures and process crashes

AllOps == {"confirm", "countersign", "offchain", "cancel", "edit", "addleg",
           "reconcile", "request", "append", "put"}

(* The events POSTed as they are: one that needs signatures on an anchored *)
(* trade (AMENDED, TERMINATED, ...), and one after which the stream cannot *)
(* be folded (COMPRESSION, a second BOOKED, a payload its handler refuses).*)
(* The other types change nothing that is read here.                       *)
Appends  == {"AMENDED", "COMPRESSION"}
Statuses == {"PENDING", "CONFIRMED", "CANCELLED"}

ASSUME ConfirmationAssumption ==
  /\ Ops \subseteq AllOps
  /\ Scheduler \notin Requests
  /\ NoOne \notin Requests \union {Scheduler}
  /\ NoUti \notin Utis /\ InitUtis \subseteq Utis \union {NoUti}
  /\ NoHash \notin TradeHashes
  /\ Own # Cp /\ ZeroAddress \notin {Own, Cp} /\ ZeroHash \notin TradeHashes
  /\ NoTrade \notin Trades
  /\ MaxArrivals \in Nat /\ MaxTxs \in Nat /\ MaxFaults \in Nat /\ MaxEvents \in Nat

VARIABLES booking,       \* trades and legs: status, uti, economic terms; put is
                         \* history: the status was set as a field
          events,        \* trade_events of a trade, by event_seq
          anchors,       \* pending_anchors, in insertion order
          proc,          \* what each thread is doing
          sender,        \* holder of EvmBackend._send_lock
          arrivals,      \* on-chain confirmations requested so far
          faults         \* failures so far

dbVars == <<booking, events, anchors>>
vars == <<chainVars, dbVars, proc, sender, arrivals, faults>>

Procs == Requests \union {Scheduler}

Idle == [pc |-> "idle", op |-> "none", on |-> NoTrade, hash |-> NoHash,
         newUti |-> FALSE, tx |-> 0, row |-> 0]

OpenRows(t) == {i \in DOMAIN anchors : anchors[i].trade = t /\ anchors[i].status = "PENDING"}

Locked(i) == \E p \in Procs : proc[p].pc \in {"check", "settle"} /\ proc[p].row = i

(* project_from_db folds the whole stream, or raises.                      *)
Foldable(t) == \A i \in DOMAIN events[t] : events[t][i].type # "COMPRESSION"

(* anchored_attestation: the attested hash of the latest event of a type   *)
(* that attests, NoHash when that event carries no on-chain anchor.        *)
AnchoredAttestation(es) ==
  LET C == {i \in DOMAIN es : es[i].type \in {"CONFIRMED", "AMENDED"}}
  IN  IF C = {} THEN NoHash ELSE es[CHOOSE i \in C : \A j \in C : j <= i].att

Event(type, hash, att) == [type |-> type, hash |-> hash, att |-> att]

(* The booking as the commit of thread p leaves it: the UTI its session    *)
(* generated is flushed with whatever else the commit writes.              *)
UtiFlushed(p) ==
  IF proc[p].newUti
  THEN [booking EXCEPT ![proc[p].on].uti = proc[p].hash[2]]
  ELSE booking

Finish(p) == proc' = [proc EXCEPT ![p] = Idle]

(* ensure_uti: keep the trade's UTI or draw a new random one, which no     *)
(* other session, transaction or trade uses.                               *)
UtiChoices(t) ==
  IF booking[t].uti # NoUti THEN {booking[t].uti}
  ELSE {u \in Utis : /\ \A s \in Trades : booking[s].uti # u
                     /\ \A i \in DOMAIN txs : txs[i].hash[2] # u
                     /\ \A q \in Procs : proc[q].hash # NoHash => proc[q].hash[2] # u}

-----------------------------------------------------------------------------
Init ==
  /\ ChainInit
  /\ booking \in [Trades -> [status : {"PENDING"}, uti : InitUtis, terms : Terms,
                         put : {FALSE}]]
  /\ events = [t \in Trades |-> <<Event("BOOKED", NoHash, NoHash)>>]
  /\ anchors = << >>
  /\ proc = [p \in Procs |-> Idle]
  /\ sender = NoOne
  /\ arrivals = [t \in Trades |-> 0]
  /\ faults = 0

(* A request loads the trade and is let in only while it is PENDING; the   *)
(* status is not looked at again.                                          *)
Arrive(p, t, opn, pcn) ==
  /\ opn \in Ops
  /\ proc[p].pc = "idle"
  /\ booking[t].status = "PENDING"
  /\ proc' = [proc EXCEPT ![p] = [Idle EXCEPT !.pc = pcn, !.op = opn, !.on = t]]
  /\ UNCHANGED <<chainVars, dbVars, sender, arrivals, faults>>

(* POST /api/chain/confirm: the canonical hash is fixed here, under the    *)
(* trade's UTI or one generated in the session, and both sides sign it.    *)
ConfirmArrives(p, t) ==
  /\ "confirm" \in Ops
  /\ proc[p].pc = "idle"
  /\ booking[t].status = "PENDING"
  /\ arrivals[t] < MaxArrivals
  /\ \E u \in UtiChoices(t) :
       proc' = [proc EXCEPT ![p] =
                 [Idle EXCEPT !.pc = "guard", !.op = "confirm", !.on = t,
                              !.hash = TradeHash(t, u, booking[t].terms),
                              !.newUti = (booking[t].uti = NoUti)]]
  /\ arrivals' = [arrivals EXCEPT ![t] = @ + 1]
  /\ UNCHANGED <<chainVars, dbVars, sender, faults>>

(* POST /api/chain/countersign and the chat card: the counterparty's       *)
(* signature is over the current hash, so its UTI is already stored.       *)
(* pending_anchors is not consulted.                                       *)
CountersignArrives(p, t) ==
  /\ "countersign" \in Ops
  /\ proc[p].pc = "idle"
  /\ booking[t].status = "PENDING" /\ booking[t].uti # NoUti
  /\ arrivals[t] < MaxArrivals
  /\ proc' = [proc EXCEPT ![p] =
               [Idle EXCEPT !.pc = "send", !.op = "countersign", !.on = t,
                            !.hash = TradeHash(t, booking[t].uti, booking[t].terms)]]
  /\ arrivals' = [arrivals EXCEPT ![t] = @ + 1]
  /\ UNCHANGED <<chainVars, dbVars, sender, faults>>

(* anchor_confirmation: a transaction already in flight is reconciled      *)
(* instead of resent.                                                      *)
InFlightGuard(p) ==
  /\ proc[p].pc = "guard"
  /\ \/ /\ OpenRows(proc[p].on) = {}
        /\ proc' = [proc EXCEPT ![p].pc = "send"]
     \/ \E i \in OpenRows(proc[p].on) :
          proc' = [proc EXCEPT ![p].pc = "resolve", ![p].row = i]
  /\ UNCHANGED <<chainVars, dbVars, sender, arrivals, faults>>

(* POST /api/chain/reconcile of a PENDING trade with an open row.          *)
ReconcileArrives(p, t) ==
  /\ "reconcile" \in Ops
  /\ proc[p].pc = "idle"
  /\ booking[t].status = "PENDING"
  /\ \E i \in OpenRows(t) :
       proc' = [proc EXCEPT ![p] = [Idle EXCEPT !.pc = "resolve", !.op = "reconcile",
                                                !.on = t, !.row = i]]
  /\ UNCHANGED <<chainVars, dbVars, sender, arrivals, faults>>

(* The scheduler's cycle reaches open row i.                               *)
Sweep(i) ==
  /\ proc[Scheduler].pc = "idle"
  /\ anchors[i].status = "PENDING"
  /\ proc' = [proc EXCEPT ![Scheduler] = [Idle EXCEPT !.pc = "resolve", !.op = "sweep",
                                                      !.on = anchors[i].trade, !.row = i]]
  /\ UNCHANGED <<chainVars, dbVars, sender, arrivals, faults>>

-----------------------------------------------------------------------------
(* resolve: the row is taken FOR UPDATE while it is PENDING, checked       *)
(* against the chain, and the outcome committed.  A confirm request whose  *)
(* row turns out failed or gone goes on to send; anybody else is done.     *)

AfterResolve(p) ==
  IF proc[p].op = "confirm"
  THEN proc' = [proc EXCEPT ![p].pc = "send", ![p].row = 0, ![p].newUti = FALSE]
  ELSE Finish(p)

(* Variants: the row is read without FOR UPDATE; or without looking again  *)
(* whether it is still PENDING.                                            *)
LockRowUnlocked(p) ==
  /\ proc[p].pc = "resolve"
  /\ anchors[proc[p].row].status = "PENDING"
  /\ proc' = [proc EXCEPT ![p].pc = "check"]
  /\ UNCHANGED <<chainVars, dbVars, sender, arrivals, faults>>

LockRowAnyStatus(p) ==
  /\ proc[p].pc = "resolve"
  /\ ~Locked(proc[p].row)
  /\ proc' = [proc EXCEPT ![p].pc = "check"]
  /\ UNCHANGED <<chainVars, dbVars, sender, arrivals, faults>>

LockRow(p) ==
  LET i == proc[p].row IN
  /\ proc[p].pc = "resolve"
  /\ ~Locked(i)
  /\ \/ /\ anchors[i].status = "PENDING"
        /\ proc' = [proc EXCEPT ![p].pc = "check"]
        /\ UNCHANGED booking
     \/ /\ anchors[i].status # "PENDING"
        /\ AfterResolve(p)
        /\ booking' = UtiFlushed(p)
  /\ UNCHANGED <<chainVars, events, anchors, sender, arrivals, faults>>

(* Variant: no MAX_AGE_S.                                                  *)
VerdictNoDeadline(row, rec, state) ==
  IF rec \/ state = "mined" THEN "anchored"
  ELSE IF state = "reverted" THEN "failed"
  ELSE IF state = "unknown" /\ row.age > 0 THEN "failed"
  ELSE "pending"

(* The answers of check() for row: the registry read and the transaction   *)
(* read may each fail, which is no answer.  age 0 is young, 1 is past      *)
(* DROPPED_AFTER_S (15 minutes), 2 is past MAX_AGE_S (2 hours).            *)
Verdict(row, rec, state) ==
  IF rec \/ state = "mined" THEN "anchored"
  ELSE IF state = "reverted" \/ row.age = 2 THEN "failed"
  ELSE IF state = "unknown" /\ row.age = 1 THEN "failed"
  ELSE "pending"

Check(p, verdict) ==
  LET row == anchors[proc[p].row] IN
  /\ proc[p].pc = "check"
  /\ \E rec \in {OnRegistry(row.hash), FALSE}, state \in {NodeState(row.tx), "error"} :
       Verdict(row, rec, state) = verdict

(* Still in flight: 202 to a confirm request, the next cycle otherwise.    *)
CheckPending(p) ==
  /\ Check(p, "pending")
  /\ booking' = UtiFlushed(p)
  /\ Finish(p)
  /\ UNCHANGED <<chainVars, events, anchors, sender, arrivals, faults>>

CheckFailed(p) ==
  /\ Check(p, "failed")
  /\ anchors' = [anchors EXCEPT ![proc[p].row].status = "FAILED"]
  /\ booking' = UtiFlushed(p)
  /\ AfterResolve(p)
  /\ UNCHANGED <<chainVars, events, sender, arrivals, faults>>

(* Variant: the row is flipped in a commit of its own, before the event's. *)
CheckAnchoredEarlyFlip(p) ==
  /\ Check(p, "anchored")
  /\ anchors' = [anchors EXCEPT ![proc[p].row].status = "ANCHORED"]
  /\ proc' = [proc EXCEPT ![p].pc = "settle"]
  /\ UNCHANGED <<chainVars, booking, events, sender, arrivals, faults>>

(* _load_trade reads the trade again, but a request's session already      *)
(* holds it: the query returns the object loaded while it was PENDING.     *)
(* Only the scheduler sees the current status.                             *)
CheckAnchored(p) ==
  /\ Check(p, "anchored")
  /\ \/ /\ proc[p].op = "sweep" => booking[proc[p].on].status = "PENDING"
        /\ proc' = [proc EXCEPT ![p].pc = "settle"]
        /\ UNCHANGED anchors
     \/ /\ proc[p].op = "sweep" /\ booking[proc[p].on].status # "PENDING"
        /\ anchors' = [anchors EXCEPT ![proc[p].row].status = "ANCHORED"]
        /\ Finish(p)
  /\ UNCHANGED <<chainVars, booking, events, sender, arrivals, faults>>

(* _apply_lifecycle_transition: once the stream was folded, event, status  *)
(* and UTI in one commit; the status is set whatever it has become since   *)
(* the trade was loaded.                                                   *)
Transition(p, type, hash, att) ==
  LET t == proc[p].on IN
  /\ Foldable(t)
  /\ events' = [events EXCEPT ![t] = Append(@, Event(type, hash, att))]
  /\ booking' = [UtiFlushed(p) EXCEPT ![t].status = type]

(* The row is flipped in the commit of the CONFIRMED event, which carries  *)
(* the row's attestation and the row's trade_hash.                         *)
Settle(p) ==
  LET row == anchors[proc[p].row] IN
  /\ proc[p].pc = "settle"
  /\ anchors' = [anchors EXCEPT ![proc[p].row].status = "ANCHORED"]
  /\ Transition(p, "CONFIRMED", row.hash, row.att)
  /\ Finish(p)
  /\ UNCHANGED <<chainVars, sender, arrivals, faults>>

(* The stream cannot be folded: whoever was about to write a transition    *)
(* gets an error and writes nothing; the row settled here stays open.      *)
FoldFails(p) ==
  /\ proc[p].pc \in {"settle", "apply", "offchain", "cancel"}
  /\ ~Foldable(proc[p].on)
  /\ Finish(p)
  /\ UNCHANGED <<chainVars, dbVars, sender, arrivals, faults>>

-----------------------------------------------------------------------------
(* be.confirm(): one send at a time per process.                           *)

(* Variant: the transaction followed is the previous one.                  *)
SendOffByOne(p) ==
  /\ proc[p].pc = "send" /\ sender = NoOne
  /\ Len(txs) < MaxTxs
  /\ Broadcast(proc[p].hash)
  /\ sender' = p
  /\ proc' = [proc EXCEPT ![p].pc = "wait", ![p].tx = Len(txs)]
  /\ UNCHANGED <<confirmations, dbVars, arrivals, faults>>

Send(p) ==
  /\ proc[p].pc = "send" /\ sender = NoOne
  /\ Len(txs) < MaxTxs
  /\ Broadcast(proc[p].hash)
  /\ sender' = p
  /\ proc' = [proc EXCEPT ![p].pc = "wait", ![p].tx = Len(txs) + 1]
  /\ UNCHANGED <<confirmations, dbVars, arrivals, faults>>

(* Nothing was sent: fee above the ceiling, the node rejects the call when *)
(* it is built, or it cannot be reached.  502.                             *)
SendRefused(p) ==
  /\ proc[p].pc = "send" /\ sender = NoOne
  /\ Finish(p)
  /\ UNCHANGED <<chainVars, dbVars, sender, arrivals, faults>>

(* The node says the nonce is used and the registry holds the record: it   *)
(* is taken as the anchor.                                                 *)
SendRecorded(p) ==
  /\ proc[p].pc = "send" /\ sender = NoOne
  /\ OnRegistry(proc[p].hash)
  /\ proc' = [proc EXCEPT ![p].pc = "apply"]
  /\ UNCHANGED <<chainVars, dbVars, sender, arrivals, faults>>

(* The receipt arrives.  A revert is an anchor when the registry holds the *)
(* record, a 502 otherwise (also when that read fails); a successful       *)
(* receipt whose block cannot be read is a 502 too.                        *)
Receipt(p) ==
  LET state == txs[proc[p].tx].state IN
  /\ proc[p].pc = "wait"
  /\ state \in {"mined", "reverted"}
  /\ \/ /\ state = "mined" \/ OnRegistry(proc[p].hash)
        /\ proc' = [proc EXCEPT ![p].pc = "apply"]
     \/ Finish(p)
  /\ sender' = NoOne
  /\ UNCHANGED <<chainVars, dbVars, arrivals, faults>>

(* Variant: a transaction the node accepted counts as an anchor.           *)
ReceiptTimeoutTrusting(p) ==
  /\ proc[p].pc = "wait"
  /\ proc' = [proc EXCEPT ![p].pc = "apply"]
  /\ sender' = NoOne
  /\ UNCHANGED <<chainVars, dbVars, arrivals, faults>>

(* No receipt within the wait: the registry's record if there is one and   *)
(* it can be read, else AnchorPending for confirm and a 502 for            *)
(* countersign, which asks for no short wait.                              *)
ReceiptTimeout(p) ==
  /\ proc[p].pc = "wait"
  /\ \/ /\ OnRegistry(proc[p].hash)
        /\ proc' = [proc EXCEPT ![p].pc = "apply"]
     \/ /\ proc[p].op = "confirm"
        /\ proc' = [proc EXCEPT ![p].pc = "record"]
     \/ /\ proc[p].op = "countersign"
        /\ Finish(p)
  /\ sender' = NoOne
  /\ UNCHANGED <<chainVars, dbVars, arrivals, faults>>

(* Variant: ON CONFLICT (trade_id) without WHERE status = 'PENDING'.       *)
RecordPendingReopens(p) ==
  LET t == proc[p].on
      R == {i \in DOMAIN anchors : anchors[i].trade = t}
      row == [trade |-> t, status |-> "PENDING", hash |-> proc[p].hash,
              att |-> proc[p].hash, tx |-> proc[p].tx, age |-> 0]
  IN
  /\ proc[p].pc = "record"
  /\ \A i \in R : ~Locked(i)
  /\ \/ R = {} /\ anchors' = Append(anchors, row)
     \/ \E i \in R : anchors' = [anchors EXCEPT ![i] = row]
  /\ booking' = UtiFlushed(p)
  /\ Finish(p)
  /\ UNCHANGED <<chainVars, events, sender, arrivals, faults>>

(* pending.record: insert the row, or refresh the trade's open one; its    *)
(* trade_hash and submitted_at stay as they were.  Waits for a row lock.   *)
RecordPending(p) ==
  LET t == proc[p].on IN
  /\ proc[p].pc = "record"
  /\ \A i \in OpenRows(t) : ~Locked(i)
  /\ \/ /\ OpenRows(t) = {}
        /\ anchors' = Append(anchors, [trade |-> t, status |-> "PENDING", hash |-> proc[p].hash,
                                       att |-> proc[p].hash, tx |-> proc[p].tx, age |-> 0])
     \/ \E i \in OpenRows(t) :
          anchors' = [anchors EXCEPT ![i].att = proc[p].hash, ![i].tx = proc[p].tx]
  /\ booking' = UtiFlushed(p)
  /\ Finish(p)
  /\ UNCHANGED <<chainVars, events, sender, arrivals, faults>>

(* The anchor is in hand: the CONFIRMED event is written in the request.   *)
Apply(p) ==
  /\ proc[p].pc = "apply"
  /\ Transition(p, "CONFIRMED", proc[p].hash, proc[p].hash)
  /\ Finish(p)
  /\ UNCHANGED <<chainVars, anchors, sender, arrivals, faults>>

-----------------------------------------------------------------------------
(* POST /api/trade-events/confirm and /cancel: no attestation.             *)
OffchainConfirm(p) ==
  /\ proc[p].pc = "offchain"
  /\ Transition(p, "CONFIRMED", NoHash, NoHash)
  /\ Finish(p)
  /\ UNCHANGED <<chainVars, anchors, sender, arrivals, faults>>

Cancel(p) ==
  /\ proc[p].pc = "cancel"
  /\ Transition(p, "CANCELLED", NoHash, NoHash)
  /\ Finish(p)
  /\ UNCHANGED <<chainVars, anchors, sender, arrivals, faults>>

(* GET /api/chain/request issues the UTI and commits it.                   *)
RequestArrives(p, t) ==
  /\ "request" \in Ops
  /\ proc[p].pc = "idle"
  /\ booking[t].uti = NoUti
  /\ \E u \in UtiChoices(t) :
       proc' = [proc EXCEPT ![p] = [Idle EXCEPT !.pc = "request", !.op = "request", !.on = t,
                                      !.hash = TradeHash(t, u, booking[t].terms), !.newUti = TRUE]]
  /\ UNCHANGED <<chainVars, dbVars, sender, arrivals, faults>>

IssueUti(p) ==
  /\ proc[p].pc = "request"
  /\ booking' = UtiFlushed(p)
  /\ Finish(p)
  /\ UNCHANGED <<chainVars, events, anchors, sender, arrivals, faults>>

(* PUT /api/trade-legs/leg: refused once the attestation is anchored.      *)
EditArrives(p, t) ==
  /\ "edit" \in Ops
  /\ proc[p].pc = "idle"
  /\ AnchoredAttestation(events[t]) = NoHash
  /\ proc' = [proc EXCEPT ![p] = [Idle EXCEPT !.pc = "edit", !.op = "edit", !.on = t]]
  /\ UNCHANGED <<chainVars, dbVars, sender, arrivals, faults>>

NewTerms(t, x) == booking' = [booking EXCEPT ![t].terms = x]

UpdateLeg(p) ==
  /\ proc[p].pc = "edit"
  /\ \E x \in Terms \ {booking[proc[p].on].terms} : NewTerms(proc[p].on, x)
  /\ Finish(p)
  /\ UNCHANGED <<chainVars, events, anchors, sender, arrivals, faults>>

(* POST /api/trade-legs adds a leg to the trade, whatever its state.       *)
CreateLeg(t) ==
  /\ "addleg" \in Ops
  /\ \E x \in Terms \ {booking[t].terms} : NewTerms(t, x)
  /\ UNCHANGED <<chainVars, events, anchors, proc, sender, arrivals, faults>>

(* PUT /api/trades sets trade.terms, which the records of FX and crypto    *)
(* products are derived from, whatever its state.                          *)
PutTerms(t) ==
  /\ "put" \in Ops
  /\ \E x \in Terms \ {booking[t].terms} : NewTerms(t, x)
  /\ UNCHANGED <<chainVars, events, anchors, proc, sender, arrivals, faults>>

(* PUT /api/trades changes the status: refused once the attestation is     *)
(* anchored.  It writes no event.                                          *)
PutArrives(p, t, status) ==
  /\ "put" \in Ops
  /\ proc[p].pc = "idle"
  /\ booking[t].status # status
  /\ AnchoredAttestation(events[t]) = NoHash
  /\ Len(events[t]) < MaxEvents
  /\ proc' = [proc EXCEPT ![p] = [Idle EXCEPT !.pc = "put", !.op = status, !.on = t]]
  /\ UNCHANGED <<chainVars, dbVars, sender, arrivals, faults>>

PutStatus(p) ==
  /\ proc[p].pc = "put"
  /\ booking' = [booking EXCEPT ![proc[p].on].status = proc[p].op, ![proc[p].on].put = TRUE]
  /\ Finish(p)
  /\ UNCHANGED <<chainVars, events, anchors, sender, arrivals, faults>>

(* POST /api/trade-events: the event is written as it comes, the row is    *)
(* left alone.  A type that needs signatures is refused once the           *)
(* attestation is anchored.                                                *)
AppendArrives(p, t, type) ==
  /\ "append" \in Ops
  /\ proc[p].pc = "idle"
  /\ type = "AMENDED" => AnchoredAttestation(events[t]) = NoHash
  /\ Len(events[t]) < MaxEvents
  /\ proc' = [proc EXCEPT ![p] = [Idle EXCEPT !.pc = "append", !.op = type, !.on = t]]
  /\ UNCHANGED <<chainVars, dbVars, sender, arrivals, faults>>

AppendEvent(p) ==
  /\ proc[p].pc = "append"
  /\ events' = [events EXCEPT ![proc[p].on] = Append(@, Event(proc[p].op, NoHash, NoHash))]
  /\ Finish(p)
  /\ UNCHANGED <<chainVars, booking, anchors, sender, arrivals, faults>>

-----------------------------------------------------------------------------
(* A commit fails: a lost database, or two events drawing one event_seq.   *)
(* Everything rolls back and the request ends; the chain does not.         *)
CommitFails(p) ==
  /\ faults < MaxFaults
  /\ proc[p].pc \in {"apply", "settle", "record", "offchain", "cancel", "append"}
  /\ Finish(p)
  /\ faults' = faults + 1
  /\ UNCHANGED <<chainVars, dbVars, sender, arrivals>>

(* The process dies; every thread, the send lock and the row locks go.     *)
Crash ==
  /\ faults < MaxFaults
  /\ \E p \in Procs : proc[p] # Idle
  /\ proc' = [p \in Procs |-> Idle]
  /\ sender' = NoOne
  /\ faults' = faults + 1
  /\ UNCHANGED <<chainVars, dbVars, arrivals>>

(* Time passes for an open row.                                            *)
Age(i) ==
  /\ anchors[i].status = "PENDING" /\ anchors[i].age < 2
  /\ anchors' = [anchors EXCEPT ![i].age = @ + 1]
  /\ UNCHANGED <<chainVars, booking, events, proc, sender, arrivals, faults>>

Chain == /\ \E i \in DOMAIN txs : Mine(i) \/ Drop(i)
         /\ UNCHANGED <<dbVars, proc, sender, arrivals, faults>>

Arrival ==
  \E p \in Requests, t \in Trades :
    \/ ConfirmArrives(p, t)
    \/ CountersignArrives(p, t)
    \/ Arrive(p, t, "offchain", "offchain")
    \/ Arrive(p, t, "cancel", "cancel")
    \/ ReconcileArrives(p, t)
    \/ RequestArrives(p, t)
    \/ EditArrives(p, t)
    \/ \E status \in Statuses : PutArrives(p, t, status)
    \/ \E type \in Appends : AppendArrives(p, t, type)

Resolve(p) == \/ LockRow(p)
              \/ CheckPending(p)
              \/ CheckFailed(p)
              \/ CheckAnchored(p)
              \/ Settle(p)

Anchor(p) == \/ InFlightGuard(p)
             \/ Send(p)
             \/ SendRefused(p)
             \/ SendRecorded(p)
             \/ Receipt(p)
             \/ ReceiptTimeout(p)
             \/ RecordPending(p)
             \/ Apply(p)

Write(p) == \/ OffchainConfirm(p)
            \/ Cancel(p)
            \/ IssueUti(p)
            \/ UpdateLeg(p)
            \/ PutStatus(p)
            \/ AppendEvent(p)

Next ==
  \/ Arrival
  \/ \E p \in Procs : Resolve(p) \/ Anchor(p) \/ Write(p) \/ FoldFails(p) \/ CommitFails(p)
  \/ \E i \in DOMAIN anchors : Sweep(i) \/ Age(i)
  \/ \E t \in Trades : CreateLeg(t) \/ PutTerms(t)
  \/ Chain
  \/ Crash

Spec == Init /\ [][Next]_vars

(* Threads run, the scheduler's cycle comes back to every open row, and    *)
(* time passes.  Nothing is assumed of miners, users or the node.          *)
Fairness ==
  /\ \A p \in Procs : WF_vars(Resolve(p) \/ FoldFails(p))
  /\ \A i \in 1..MaxTxs : SF_vars(i \in DOMAIN anchors /\ Sweep(i))
                          /\ WF_vars(i \in DOMAIN anchors /\ Age(i))

FairSpec == Spec /\ Fairness

-----------------------------------------------------------------------------
EventType == [type : {"BOOKED", "CONFIRMED", "CANCELLED"} \union Appends,
              hash : TradeHashes \union {NoHash}, att : TradeHashes \union {NoHash}]

Row == [trade : Trades, status : {"PENDING", "ANCHORED", "FAILED"},
        hash : TradeHashes, att : TradeHashes, tx : Nat \ {0}, age : 0..2]

Thread == [pc : {"idle", "guard", "resolve", "check", "settle", "send", "wait", "apply",
                 "record", "offchain", "cancel", "edit", "request", "put", "append"},
           op : (AllOps \ {"addleg"}) \union {"sweep", "none"} \union Statuses \union Appends,
           on : Trades \union {NoTrade}, hash : TradeHashes \union {NoHash},
           newUti : BOOLEAN, tx : Nat, row : Nat]

SignsHash(x) == \/ x.newUti \/ x.op = "confirm"
                \/ x.pc \in {"guard", "send", "wait", "apply", "record"}

(* The tables, the threads and the chain are well formed; rows and threads *)
(* refer to transactions and rows that exist.                              *)
TypeOK ==
  /\ confirmations \in [TradeHashes \union {ZeroHash} -> Registry!Confirmation]
  /\ txs \in Seq(Tx)
  /\ booking \in [Trades -> [status : Statuses, uti : Utis \union {NoUti}, terms : Terms,
                             put : BOOLEAN]]
  /\ events \in [Trades -> Seq(EventType) \ {<< >>}]
  /\ anchors \in Seq(Row)
  /\ proc \in [Procs -> Thread]
  /\ \A i \in DOMAIN anchors : anchors[i].tx \in DOMAIN txs
  /\ \A p \in Procs :
       /\ proc[p].pc # "idle" => proc[p].on \in Trades
       /\ proc[p].pc \in {"resolve", "check", "settle"} =>
            proc[p].row \in DOMAIN anchors /\ anchors[proc[p].row].trade = proc[p].on
       /\ proc[p].pc \in {"wait", "record"} => proc[p].tx \in DOMAIN txs
       /\ proc[p].pc = "put" => proc[p].op \in Statuses
       /\ proc[p].pc = "append" => proc[p].op \in Appends
       /\ SignsHash(proc[p]) => proc[p].hash \in TradeHashes
  /\ sender \in Requests \union {Scheduler, NoOne}
  /\ arrivals \in [Trades -> 0..MaxArrivals]
  /\ faults \in 0..MaxFaults

(* A confirmation never says more than the chain does: every event with an *)
(* anchored attestation, and every row closed as ANCHORED, stands on a     *)
(* record the registry holds under its trade hash or its attested hash.    *)
EventsBacked ==
  /\ \A t \in Trades : \A i \in DOMAIN events[t] :
       events[t][i].att # NoHash => OnRegistry(events[t][i].att) \/ OnRegistry(events[t][i].hash)
  /\ \A i \in DOMAIN anchors :
       anchors[i].status = "ANCHORED" => OnRegistry(anchors[i].hash) \/ OnRegistry(anchors[i].att)

(* Reconciliation never loses a confirmation: a row is closed as ANCHORED  *)
(* only in the commit that writes the trade's CONFIRMED event, or after    *)
(* the trade was decided: by an event, or by a status set as a field.      *)
Decided(t) == \/ booking[t].put
              \/ \E i \in DOMAIN events[t] : events[t][i].type \in {"CONFIRMED", "CANCELLED"}

AnchoredDecides ==
  \A i \in DOMAIN anchors : anchors[i].status = "ANCHORED" => Decided(anchors[i].trade)

(* CANCELLED is a terminal state.                                          *)
CancelledIsTerminal ==
  [][\A t \in Trades : booking[t].status = "CANCELLED" => booking'[t].status = "CANCELLED"]_vars

(* A closed row of pending_anchors is history, and an open one keeps the   *)
(* hash it was inserted with: nobody reopens it, and its deadline never    *)
(* moves back.                                                             *)
RowsOnlyClose ==
  [][\A i \in DOMAIN anchors :
       /\ anchors[i].status # "PENDING" => anchors'[i] = anchors[i]
       /\ anchors'[i].hash = anchors[i].hash
       /\ anchors'[i].age >= anchors[i].age]_vars

(* At most one row of a trade is open, and at most one thread holds it.    *)
OneReconciler ==
  /\ \A t \in Trades : Cardinality(OpenRows(t)) <= 1
  /\ \A p, q \in Procs :
       /\ {proc[p].pc, proc[q].pc} \subseteq {"check", "settle"}
       /\ proc[p].row = proc[q].row
       => p = q

(* The contract of module ConfirmOnce, which holds of the routes that      *)
(* anchor and reconcile when one confirmation of a trade is requested.     *)
Contract == INSTANCE ConfirmOnce WITH
  status   <- [t \in Trades |-> booking[t].status],
  recorded <- [t \in Trades |-> \E h \in TradeHashes : h[1] = t /\ OnRegistry(h)],
  confirms <- [t \in Trades |-> Cardinality({i \in DOMAIN events[t] : events[t][i].type = "CONFIRMED"})]

(* However the request, the reconcile polls, the scheduler, the miners, a  *)
(* failed commit and a crash interleave, the event is written once, and    *)
(* only after the registry holds the record.                               *)
ConfirmedOnce == Contract!Spec

(* Every anchor in flight is eventually closed one way or the other, with  *)
(* no help from miners or users: at the latest, its age fails it.  One row *)
(* stays open: its record is on the registry, but its confirmation cannot  *)
(* be written, because the trade's stream can no longer be folded.         *)
Unwritable(row) == ~Foldable(row.trade) /\ (OnRegistry(row.hash) \/ OnRegistry(row.att))

RowsClose ==
  \A i \in 1..MaxTxs :
    (i \in DOMAIN anchors) ~>
      (i \in DOMAIN anchors /\ (anchors[i].status # "PENDING" \/ Unwritable(anchors[i])))
=============================================================================
