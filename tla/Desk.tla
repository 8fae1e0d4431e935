-------------------------------- MODULE Desk --------------------------------
(***************************************************************************)
(* Booking a trade and moving it along its life off the chain:             *)
(* api/routes/booking.py, trade_events.py and trades.py writing a trade's  *)
(* row and its append-only event stream, and the projection that folds the *)
(* stream back into a trade.                                               *)
(*                                                                         *)
(* A request is a sequence of queries ended by one commit, and what another*)
(* request commits between two of them is seen by the later ones only.     *)
(* Unique indexes decide races when the commit comes: on a trade's event   *)
(* numbers, on trade references, on idempotency keys.                      *)
(***************************************************************************)
EXTENDS Integers, FiniteSets, Sequences

CONSTANTS Requests, Keys, NoKey,
          Refs,                     \* trade references
          Appends,      \* events POSTed: a type, and whether its payload has what it needs
          PutStatuses,  \* statuses PUT
          MaxTrades,    \* bound: trades booked
          MaxEvents     \* bound: events written, of all trades

ASSUME DeskAssumption ==
  /\ NoKey \notin Keys
  /\ \A a \in Appends : a[2] \in BOOLEAN
  /\ MaxTrades \in Nat /\ MaxEvents \in Nat

VARIABLES trades,   \* trades rows, in the order they were booked
          events,   \* trade_events, by trade, in the order of event_seq
          keys,     \* idempotency_keys: the result stored under a key
          request,  \* the requests under way
          told,     \* history: results answered under a key
          put       \* history: trades whose status was set as a field

vars == <<trades, events, keys, request, told, put>>

Results == (1..MaxTrades) \X (1..MaxEvents)   \* a trade and an event_seq
NoReply == <<0, 0>>
Idle    == [op |-> "none", pc |-> "idle", key |-> NoKey, trade |-> 0, ref |-> NoKey, type |-> "", good |-> TRUE,
            version |-> 0, seq |-> 0]

(***************************************************************************)
(* trade_projection.py, of which the status is kept: the fold of a stream, *)
(* "error" once an event cannot follow.  good says that the payload has    *)
(* what its handler requires.                                              *)
(***************************************************************************)
StatusOnly == [CONFIRMED |-> "CONFIRMED", ACTIVATED |-> "LIVE", TERMINATED |-> "TERMINATED",
               MATURED |-> "MATURED", CANCELLED |-> "CANCELLED", DEFAULTED |-> "DEFAULTED"]

NeedsPayload == {"BOOK_TRANSFER", "STORE_CHANGE", "PARTIAL_TERMINATION", "NOVATED"}

Apply(status, e) ==
  IF e.type = "BOOKED" THEN (IF status = "none" /\ e.good THEN "PENDING" ELSE "error")
  ELSE IF \/ status \in {"none", "error"}
          \/ e.type = "COMPRESSION"
          \/ e.type \in NeedsPayload /\ ~e.good THEN "error"
  ELSE IF e.type \in DOMAIN StatusOnly THEN StatusOnly[e.type]
  ELSE IF e.type = "NOVATED" THEN "NOVATED" ELSE status

Project(stream) ==
  LET status[i \in 0..Len(stream)] == IF i = 0 THEN "none" ELSE Apply(status[i - 1], stream[i])
  IN  status[Len(stream)]

----------------------------------------------------------------------------
Init ==
  /\ trades = <<>>
  /\ events = <<>>
  /\ keys = [k \in Keys |-> NoReply]
  /\ request = [r \in Requests |-> Idle]
  /\ told = [k \in Keys |-> {}]
  /\ put = {}

Written == {w \in Results : w[1] \in DOMAIN events /\ w[2] \in DOMAIN events[w[1]]}
Room    == Cardinality(Written) < MaxEvents
Tell(k, reply) == told' = IF k = NoKey THEN told ELSE [told EXCEPT ![k] = @ \union {reply}]
Store(k, reply) == keys' = IF k = NoKey THEN keys ELSE [keys EXCEPT ![k] = reply]
Stored(k) == IF k = NoKey THEN NoReply ELSE keys[k]
Go(r, x)  == request' = [request EXCEPT ![r] = x]
Refuse(r) == Go(r, Idle) /\ UNCHANGED <<trades, events, keys, told, put>>
At(r, op, pc) == request[r].op = op /\ request[r].pc = pc
Event(type, good, src, key) == [type |-> type, good |-> good, src |-> src, by |-> key]

(* A keyed request arrives: the stored result is replayed, or the work goes*)
(* on.  At its commit the key may turn out to be taken: then it is rolled  *)
(* back and the winner's result is replayed.                               *)
Arrive(r, x) ==
  /\ request[r].pc = "idle"
  /\ IF Stored(x.key) # NoReply THEN Tell(x.key, Stored(x.key)) /\ UNCHANGED request
                                ELSE Go(r, x) /\ UNCHANGED told
  /\ UNCHANGED <<trades, events, keys, put>>

KeyTaken(r) ==
  /\ Stored(request[r].key) # NoReply
  /\ Tell(request[r].key, Stored(request[r].key))
  /\ Go(r, Idle)
  /\ UNCHANGED <<trades, events, keys, put>>

(***************************************************************************)
(* Booking                                                                 *)
(***************************************************************************)
RefTaken(ref) == \E t \in DOMAIN trades : trades[t].ref = ref

Book(r, k, ref) == Arrive(r, [Idle EXCEPT !.op = "book", !.pc = "commit", !.key = k, !.ref = ref])

(* Variant of Booked: the key is written without asking whether it exists. *)
BookedUnasked(r) ==
  LET x     == request[r]
      reply == <<Len(trades) + 1, 1>>
  IN  /\ ~RefTaken(x.ref)
      /\ Len(trades) < MaxTrades /\ Room
      /\ trades' = Append(trades, [ref |-> x.ref, status |-> "PENDING", latest |-> 1, version |-> 1])
      /\ events' = Append(events, <<Event("BOOKED", TRUE, "book", x.key)>>)
      /\ Store(x.key, reply)
      /\ Tell(x.key, reply)
      /\ Go(r, Idle)
      /\ UNCHANGED put

(* The whole booking commits at once: the row, its BOOKED event, the key.  *)
Booked(r) ==
  LET x     == request[r]
      reply == <<Len(trades) + 1, 1>>
  IN  /\ ~RefTaken(x.ref) /\ Stored(x.key) = NoReply
      /\ Len(trades) < MaxTrades /\ Room
      /\ trades' = Append(trades, [ref |-> x.ref, status |-> "PENDING", latest |-> 1, version |-> 1])
      /\ events' = Append(events, <<Event("BOOKED", TRUE, "book", x.key)>>)
      /\ Store(x.key, reply)
      /\ Tell(x.key, reply)
      /\ Go(r, Idle)
      /\ UNCHANGED put

CommitBooking(r) ==
  /\ At(r, "book", "commit")
  /\ \/ RefTaken(request[r].ref) /\ Refuse(r)
     \/ ~RefTaken(request[r].ref) /\ KeyTaken(r)
     \/ Booked(r)

(* POST /api/trades: no key, and the row does not point at the BOOKED event. *)
Create(ref) ==
  /\ Len(trades) < MaxTrades /\ Room
  /\ ~RefTaken(ref)
  /\ trades' = Append(trades, [ref |-> ref, status |-> "PENDING", latest |-> 0, version |-> 0])
  /\ events' = Append(events, <<Event("BOOKED", TRUE, "create", NoKey)>>)
  /\ UNCHANGED <<keys, request, told, put>>

(***************************************************************************)
(* POST /confirm and /cancel                                               *)
(***************************************************************************)
Lifecycle(r, k, t, type) ==
  Arrive(r, [Idle EXCEPT !.op = "life", !.pc = "load", !.key = k, !.trade = t, !.type = type])

Load(r) ==
  LET x == request[r] IN
  /\ At(r, "life", "load")
  /\ IF trades[x.trade].status # "PENDING" THEN Refuse(r)
     ELSE /\ Go(r, [x EXCEPT !.pc = "fold", !.version = trades[x.trade].version])
          /\ UNCHANGED <<trades, events, keys, told, put>>

Fold(r) ==
  LET x == request[r] IN
  /\ At(r, "life", "fold")
  /\ IF Project(events[x.trade]) = "error" THEN Refuse(r)
     ELSE /\ Go(r, [x EXCEPT !.pc = "insert"])
          /\ UNCHANGED <<trades, events, keys, told, put>>

(* Variant of Insert: the number skips one.                                *)
InsertOffByOne(r) ==
  LET x == request[r] IN
  /\ At(r, "life", "insert")
  /\ Go(r, [x EXCEPT !.pc = "commit", !.seq = Len(events[x.trade]) + 2])
  /\ UNCHANGED <<trades, events, keys, told, put>>

(* The trigger numbers the event after the newest one committed; of two    *)
(* that draw a number together the second to commit is refused.            *)
Insert(r) ==
  LET x == request[r] IN
  /\ At(r, "life", "insert")
  /\ Go(r, [x EXCEPT !.pc = "commit", !.seq = Len(events[x.trade]) + 1])
  /\ UNCHANGED <<trades, events, keys, told, put>>

(* Variant: the numbers have no unique index.                              *)
NoClash(r) == FALSE

Clash(r) == Len(events[request[r].trade]) >= request[r].seq

(* Variant: the status is set only while it is still PENDING.              *)
TransitionedIfPending(r) ==
  LET x == request[r] IN
  /\ ~Clash(r) /\ Stored(x.key) = NoReply
  /\ Room
  /\ events' = [events EXCEPT ![x.trade] = Append(@, Event(x.type, TRUE, "life", x.key))]
  /\ trades' = [trades EXCEPT ![x.trade].status = IF @ = "PENDING" THEN StatusOnly[x.type] ELSE @,
                              ![x.trade].latest = x.seq, ![x.trade].version = x.version + 1]
  /\ Store(x.key, <<x.trade, x.seq>>)
  /\ Tell(x.key, <<x.trade, x.seq>>)
  /\ Go(r, Idle)
  /\ UNCHANGED put

Transitioned(r) ==
  LET x == request[r] IN
  /\ ~Clash(r) /\ Stored(x.key) = NoReply
  /\ Room
  /\ events' = [events EXCEPT ![x.trade] = Append(@, Event(x.type, TRUE, "life", x.key))]
  /\ trades' = [trades EXCEPT ![x.trade].status = StatusOnly[x.type],
                              ![x.trade].latest = x.seq, ![x.trade].version = x.version + 1]
  /\ Store(x.key, <<x.trade, x.seq>>)
  /\ Tell(x.key, <<x.trade, x.seq>>)
  /\ Go(r, Idle)
  /\ UNCHANGED put

CommitTransition(r) ==
  /\ At(r, "life", "commit")
  /\ \/ Clash(r) /\ Refuse(r)
     \/ ~Clash(r) /\ KeyTaken(r)
     \/ Transitioned(r)

(***************************************************************************)
(* The unrestricted routes: POST /api/trade-events writes any event and    *)
(* leaves the row, PUT /api/trades writes any status and no event.         *)
(***************************************************************************)
AppendEvent(r, t, type, good) ==
  /\ request[r].pc = "idle"
  /\ Go(r, [Idle EXCEPT !.op = "append", !.pc = "commit", !.trade = t, !.type = type, !.good = good,
                        !.seq = Len(events[t]) + 1])
  /\ UNCHANGED <<trades, events, keys, told, put>>

CommitAppend(r) ==
  LET x == request[r] IN
  /\ At(r, "append", "commit")
  /\ \/ Clash(r) /\ Refuse(r)
     \/ /\ ~Clash(r) /\ Room
        /\ events' = [events EXCEPT ![x.trade] = Append(@, Event(x.type, x.good, "append", NoKey))]
        /\ Go(r, Idle)
        /\ UNCHANGED <<trades, keys, told, put>>

PutStatus(t, status) ==
  /\ trades[t].status # status
  /\ trades' = [trades EXCEPT ![t].status = status]
  /\ put' = put \union {t}
  /\ UNCHANGED <<events, keys, request, told>>

Next ==
  \/ \E ref \in Refs : Create(ref)
  \/ \E t \in DOMAIN trades, status \in PutStatuses : PutStatus(t, status)
  \/ \E r \in Requests :
       \/ \E k \in Keys \union {NoKey}, ref \in Refs : Book(r, k, ref)
       \/ \E k \in Keys \union {NoKey}, t \in DOMAIN trades, type \in {"CONFIRMED", "CANCELLED"} :
            Lifecycle(r, k, t, type)
       \/ \E t \in DOMAIN trades, a \in Appends : AppendEvent(r, t, a[1], a[2])
       \/ CommitBooking(r)
       \/ Load(r) \/ Fold(r) \/ Insert(r) \/ CommitTransition(r)
       \/ CommitAppend(r)

Spec == Init /\ [][Next]_vars

----------------------------------------------------------------------------
Types == {"", "BOOKED", "CONFIRMED", "CANCELLED"} \union {a[1] : a \in Appends}

Trade == [ref : Refs, status : {"PENDING", "CONFIRMED", "CANCELLED"} \union PutStatuses,
          latest : 0..MaxEvents, version : 0..MaxEvents]

TradeEvent == [type : Types, good : BOOLEAN, src : {"book", "create", "life", "append"},
               by : Keys \union {NoKey}]

Request == [op : {"none", "book", "life", "append"}, pc : {"idle", "load", "fold", "insert", "commit"},
            key : Keys \union {NoKey}, trade : 0..Len(trades), ref : Refs \union {NoKey},
            type : Types, good : BOOLEAN, version : 0..MaxEvents, seq : 0..(MaxEvents + 1)]

(* The tables and the requests hold what their columns and parameters are  *)
(* declared to hold; a row points at an event that exists.                 *)
TypeOK ==
  /\ trades \in Seq(Trade) /\ Len(trades) <= MaxTrades
  /\ events \in Seq(Seq(TradeEvent)) /\ Len(events) = Len(trades)
  /\ \A t \in DOMAIN trades :
       /\ Len(events[t]) \in 1..MaxEvents
       /\ trades[t].latest <= Len(events[t]) /\ trades[t].version <= Len(events[t])
  /\ keys \in [Keys -> Results \union {NoReply}]
  /\ told \in [Keys -> SUBSET Results]
  /\ request \in [Requests -> Request]
  /\ put \subseteq DOMAIN trades

(* Idempotency keys, through every race the unique indexes decide: what is *)
(* sent under a key - a booking, a confirmation, a cancellation, retried or*)
(* repeated - takes effect once, and every caller that is answered is      *)
(* answered with that.                                                     *)
EffectsOf(k) == {w \in Written : events[w[1]][w[2]].by = k}
Once == INSTANCE AtMostOnce WITH done <- [k \in Keys |-> EffectsOf(k)]
KeysAtMostOnce == Once!Spec

(* The row is what its stream folds to, as long as neither is written by a *)
(* route that writes only one of them, whatever confirmations and          *)
(* cancellations race.                                                     *)
Appended(t) == \E i \in DOMAIN events[t] : events[t][i].src = "append"
RowFollowsStream ==
  \A t \in DOMAIN trades :
    t \notin put /\ ~Appended(t) => trades[t].status = Project(events[t])

(* The row points at the newest event of the routes that maintain it, so a *)
(* request that read the row before another committed never moves the      *)
(* pointer back.                                                           *)
LatestIsNewest ==
  \A t \in DOMAIN trades :
    \A i \in DOMAIN events[t] :
      trades[t].latest # 0 /\ events[t][i].src \in {"book", "life"} => i <= trades[t].latest
=============================================================================
