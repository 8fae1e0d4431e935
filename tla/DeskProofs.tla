------------------------------ MODULE DeskProofs ------------------------------
(* Theorems about booking and moving trades off the chain, for any         *)
(* requests, keys, references, events, statuses and bounds.                *)
EXTENDS Desk, SequenceTheorems, FiniteSetTheorems, WellFoundedInduction, TLAPS

(* A request is about a trade that exists.  What it read of it may be old, *)
(* so its version and its event number are at most what the stream allows. *)
Ready(x) ==
  /\ x.op = "book" => x.ref \in Refs
  /\ x.op \in {"life", "append"} => x.trade \in DOMAIN trades
  /\ x.op = "life" => x.type \in {"CONFIRMED", "CANCELLED"} /\ x.version <= Len(events[x.trade])
  /\ x.op \in {"life", "append"} /\ x.pc = "commit" => x.seq \in 1..(Len(events[x.trade]) + 1)

RequestsReady == \A r \in Requests : Ready(request[r])

(* The result stored under a key is the key's one effect.                  *)
KeysOK == \A k \in Keys : EffectsOf(k) = IF keys[k] = NoReply THEN {} ELSE {keys[k]}

(* A row follows its stream; only a PUT leaves it in another status than   *)
(* those the desk's own routes write.                                      *)
OwnStatus == {"PENDING", "CONFIRMED", "CANCELLED"}
RowsOwn   == \A t \in DOMAIN trades : t \notin put => trades[t].status \in OwnStatus
Follows   == RowsOwn /\ RowFollowsStream

DeskInv == TypeOK /\ RequestsReady /\ KeysOK /\ LatestIsNewest /\ Follows

(* A step of AtMostOnce.                                                   *)
Promised == Once!Next \/ UNCHANGED <<[k \in Keys |-> EffectsOf(k)], told>>

----------------------------------------------------------------------------
(* An append keeps the entries there are and adds one.                     *)
LEMMA AppendSeq ==
  ASSUME NEW S, NEW s \in Seq(S), NEW e \in S
  PROVE  /\ Append(s, e) \in Seq(S) /\ Len(Append(s, e)) = Len(s) + 1
         /\ Len(s) \in Nat /\ DOMAIN s = 1..Len(s) /\ DOMAIN Append(s, e) = 1..(Len(s) + 1)
         /\ \A n \in DOMAIN s : Append(s, e)[n] = s[n]
         /\ Append(s, e)[Len(s) + 1] = e
<1>1. Append(s, e) \in Seq(S) /\ Len(Append(s, e)) = Len(s) + 1
      /\ \A n \in 1..Len(s) : Append(s, e)[n] = s[n]
      /\ Append(s, e)[Len(s) + 1] = e
  BY AppendProperties
<1>2. Len(s) \in Nat /\ DOMAIN s = 1..Len(s)
  BY LenProperties
<1>3. DOMAIN Append(s, e) = 1..(Len(s) + 1)
  BY <1>1, LenProperties
<1>4. QED
  BY <1>1, <1>2, <1>3

(* An update of one entry keeps the others.                                *)
LEMMA UpdateSeq ==
  ASSUME NEW S, NEW s \in Seq(S), NEW i \in DOMAIN s, NEW e \in S
  PROVE  /\ [s EXCEPT ![i] = e] \in Seq(S) /\ Len([s EXCEPT ![i] = e]) = Len(s)
         /\ DOMAIN [s EXCEPT ![i] = e] = DOMAIN s /\ DOMAIN s = 1..Len(s) /\ Len(s) \in Nat
         /\ [s EXCEPT ![i] = e][i] = e
         /\ \A j \in DOMAIN s : j # i => [s EXCEPT ![i] = e][j] = s[j]
<1>1. DOMAIN s = 1..Len(s) /\ Len(s) \in Nat
  BY LenProperties
<1>2. i \in 1..Len(s)
  BY <1>1
<1>3. /\ [s EXCEPT ![i] = e] \in Seq(S) /\ Len([s EXCEPT ![i] = e]) = Len(s)
      /\ \A j \in 1..Len(s) : [s EXCEPT ![i] = e][j] = IF j = i THEN e ELSE s[j]
  BY <1>2, ExceptSeq
<1>4. QED
  BY <1>1, <1>2, <1>3

(* The tables, row by row.                                                 *)
LEMMA Rows ==
  ASSUME TypeOK
  PROVE  /\ Len(trades) \in Nat /\ DOMAIN trades = 1..Len(trades) /\ DOMAIN events = 1..Len(trades)
         /\ \A t \in DOMAIN trades :
              /\ trades[t] \in Trade /\ events[t] \in Seq(TradeEvent) /\ t \in 1..MaxTrades
              /\ Len(events[t]) \in 1..MaxEvents /\ DOMAIN events[t] = 1..Len(events[t])
<1>1. /\ Len(trades) \in Nat /\ DOMAIN trades = 1..Len(trades)
      /\ \A t \in DOMAIN trades : trades[t] \in Trade
  BY LenProperties DEF TypeOK
<1>2. /\ DOMAIN events = 1..Len(trades)
      /\ \A t \in DOMAIN events : events[t] \in Seq(TradeEvent)
  BY LenProperties DEF TypeOK
<1>3. ASSUME NEW t \in DOMAIN trades
      PROVE  t \in 1..MaxTrades /\ Len(events[t]) \in 1..MaxEvents /\ DOMAIN events[t] = 1..Len(events[t])
  <2>1. events[t] \in Seq(TradeEvent)
    BY <1>1, <1>2
  <2>2. DOMAIN events[t] = 1..Len(events[t])
    BY <2>1, LenProperties
  <2>3. Len(events[t]) \in 1..MaxEvents
    BY DEF TypeOK
  <2>4. t \in 1..MaxTrades
    BY <1>1, DeskAssumption DEF TypeOK
  <2>5. QED
    BY <2>2, <2>3, <2>4
<1>4. QED
  BY <1>1, <1>2, <1>3

(* While there is room for an event, every stream has room.                *)
LEMMA RoomForOne ==
  ASSUME TypeOK, Room
  PROVE  1 <= MaxEvents /\ \A t \in DOMAIN trades : Len(events[t]) < MaxEvents
<1>0. MaxEvents \in Nat /\ MaxTrades \in Nat
  BY DeskAssumption
<1>1. IsFiniteSet(Written) /\ Cardinality(Written) \in Nat
  <2>1. IsFiniteSet(1..MaxTrades) /\ IsFiniteSet(1..MaxEvents)
    BY <1>0, FS_Interval
  <2>2. IsFiniteSet(Results)
    BY <2>1, FS_Product DEF Results
  <2>3. Written \subseteq Results
    BY DEF Written
  <2>4. IsFiniteSet(Written)
    BY <2>2, <2>3, FS_Subset
  <2>5. QED
    BY <2>4, FS_CardinalityType
<1>2. ASSUME NEW t \in DOMAIN trades, Len(events[t]) >= MaxEvents PROVE FALSE
  <2>1. t \in DOMAIN events /\ t \in 1..MaxTrades /\ DOMAIN events[t] = 1..MaxEvents
    BY <1>0, <1>2, Rows
  <2>2. {t} \X (1..MaxEvents) \in SUBSET Written
    BY <2>1 DEF Written, Results
  <2>3. IsFiniteSet({t}) /\ Cardinality({t}) = 1
    BY FS_Singleton
  <2>4. IsFiniteSet(1..MaxEvents) /\ Cardinality(1..MaxEvents) = MaxEvents
    BY <1>0, FS_Interval
  <2>5. Cardinality({t} \X (1..MaxEvents)) = MaxEvents
    <3>1. Cardinality({t} \X (1..MaxEvents)) = Cardinality({t}) * Cardinality(1..MaxEvents)
      BY <2>3, <2>4, FS_Product
    <3>2. 1 * MaxEvents = MaxEvents
      BY <1>0
    <3>3. QED
      BY <2>3, <2>4, <3>1, <3>2
  <2>6. MaxEvents <= Cardinality(Written)
    BY <1>1, <2>2, <2>5, FS_Subset
  <2>7. QED
    BY <1>0, <1>1, <2>6 DEF Room
<1>3. \A t \in DOMAIN trades : Len(events[t]) \in Nat
  BY Rows
<1>4. 1 <= MaxEvents
  BY <1>0, <1>1 DEF Room
<1>5. QED
  BY <1>0, <1>2, <1>3, <1>4


----------------------------------------------------------------------------
(* A nonempty set of naturals has a least element.                         *)
LEMMA Smallest ==
  ASSUME NEW T \in SUBSET Nat, T # {}
  PROVE  \E x \in T : \A y \in T : x <= y
<1>1. PICK R : R = OpToRel(<, Nat)
  OBVIOUS
<1>2. IsWellFoundedOn(R, Nat)
  BY <1>1, NatLessThanWellFounded
<1>3. PICK x \in T : \A y \in T : <<y, x>> \notin R
  BY <1>2, WFMin
<1>4. \A a, b \in Nat : <<a, b>> \in R <=> a < b
  BY <1>1 DEF OpToRel
<1>5. \A y \in T : ~(y < x)
  BY <1>3, <1>4
<1>6. \A y \in T : y \in Int /\ x \in Int
  OBVIOUS
<1>7. QED
  BY <1>5, <1>6

(* Induction, as a statement about a set.                                  *)
LEMMA SetInduction ==
  ASSUME NEW S \in SUBSET Nat, 0 \in S, \A n \in S : n + 1 \in S
  PROVE  S = Nat
<1>1. SUFFICES ASSUME Nat \ S # {} PROVE FALSE
  OBVIOUS
<1>2. PICK x \in Nat \ S : \A y \in Nat \ S : x <= y
  BY <1>1, Smallest
<1>3. x # 0 /\ x - 1 \in Nat
  OBVIOUS
<1>4. x - 1 \in S
  BY <1>2, <1>3
<1>5. QED
  BY <1>3, <1>4

(* f holds the statuses a stream passes through in its first n events.     *)
Passes(f, n, s) == f = [i \in 0..n |-> IF i = 0 THEN "none" ELSE Apply(f[i - 1], s[i])]

LEMMA PassesAt ==
  ASSUME NEW n \in Nat, NEW s, NEW f, Passes(f, n, s), NEW i \in 0..n
  PROVE  f[i] = IF i = 0 THEN "none" ELSE Apply(f[i - 1], s[i])
BY DEF Passes

(* The statuses exist ...                                                  *)
LEMMA PassesExist ==
  ASSUME NEW s, NEW m \in Nat PROVE \E f : Passes(f, m, s)
<1>. DEFINE S == {n \in Nat : \E f : Passes(f, n, s)}
<1>1. 0 \in S
  <2>1. PICK f : f = [i \in 0..0 |-> "none"]
    OBVIOUS
  <2>2. Passes(f, 0, s)
    BY <2>1 DEF Passes
  <2>3. QED
    BY <2>2
<1>2. ASSUME NEW n \in S PROVE n + 1 \in S
  <2>1. PICK f : Passes(f, n, s)
    OBVIOUS
  <2>2. PICK g : g = [i \in 0..(n + 1) |-> IF i = n + 1 THEN Apply(f[n], s[n + 1]) ELSE f[i]]
    OBVIOUS
  <2>3. ASSUME NEW i \in 0..(n + 1)
        PROVE  g[i] = IF i = 0 THEN "none" ELSE Apply(g[i - 1], s[i])
    <3>1. CASE i = n + 1
      BY <2>2, <3>1
    <3>2. CASE i \in 0..n
      <4>1. f[i] = IF i = 0 THEN "none" ELSE Apply(f[i - 1], s[i])
        BY <2>1, <3>2, PassesAt
      <4>2. i = 0 \/ i - 1 \in 0..n
        BY <3>2
      <4>3. g[i] = f[i] /\ (i = 0 \/ g[i - 1] = f[i - 1])
        BY <2>2, <3>2, <4>2
      <4>4. QED
        BY <4>1, <4>3
    <3>3. QED
      BY <3>1, <3>2
  <2>4. Passes(g, n + 1, s)
    <3>1. g = [i \in 0..(n + 1) |-> g[i]]
      BY <2>2
    <3>2. QED
      BY <2>3, <3>1 DEF Passes
  <2>5. QED
    BY <2>4
<1>. HIDE DEF S
<1>3. S = Nat
  BY <1>1, <1>2, SetInduction DEF S
<1>4. QED
  BY <1>3 DEF S

(* ... and are the only ones; a longer stream passes through the same.     *)
LEMMA PassesAgree ==
  ASSUME NEW m \in Nat, NEW n \in Nat, m <= n, NEW s, NEW u, \A i \in 1..m : u[i] = s[i],
         NEW f, Passes(f, m, s), NEW g, Passes(g, n, u)
  PROVE  g[m] = f[m]
<1>. DEFINE S == {i \in Nat : i <= m => g[i] = f[i]}
<1>1. 0 \in S
  <2>1. f[0] = "none" /\ g[0] = "none"
    BY PassesAt
  <2>2. QED
    BY <2>1
<1>2. ASSUME NEW i \in S PROVE i + 1 \in S
  <2>1. SUFFICES ASSUME i + 1 <= m PROVE g[i + 1] = f[i + 1]
    OBVIOUS
  <2>2. i + 1 \in 0..m /\ i + 1 \in 0..n /\ i + 1 \in 1..m /\ i + 1 # 0 /\ (i + 1) - 1 = i /\ g[i] = f[i]
    BY <2>1
  <2>3. f[i + 1] = Apply(f[i], s[i + 1])
    BY <2>2, PassesAt
  <2>4. g[i + 1] = Apply(g[i], u[i + 1])
    BY <2>2, PassesAt
  <2>5. QED
    BY <2>2, <2>3, <2>4
<1>. HIDE DEF S
<1>3. S = Nat
  BY <1>1, <1>2, SetInduction DEF S
<1>4. QED
  BY <1>3 DEF S

(* The projection is where they end ...                                    *)
LEMMA ProjectIs ==
  ASSUME NEW s, Len(s) \in Nat
  PROVE  \E f : Passes(f, Len(s), s) /\ Project(s) = f[Len(s)]
<1>1. PICK f : f = CHOOSE g : Passes(g, Len(s), s)
  OBVIOUS
<1>2. Passes(f, Len(s), s)
  BY <1>1, PassesExist
<1>3. Project(s) = f[Len(s)]
  BY <1>1 DEF Project, Passes
<1>4. QED
  BY <1>2, <1>3

(* ... so it applies the event that is appended to what it was.            *)
LEMMA ProjectAppend ==
  ASSUME NEW s \in Seq(TradeEvent), NEW e \in TradeEvent
  PROVE  Project(Append(s, e)) = Apply(Project(s), e)
<1>1. PICK u, n : u = Append(s, e) /\ n = Len(s)
  OBVIOUS
<1>2. n \in Nat /\ Len(u) = n + 1 /\ u[n + 1] = e /\ \A i \in 1..n : u[i] = s[i]
  BY <1>1, AppendSeq
<1>3. PICK f : Passes(f, n, s) /\ Project(s) = f[n]
  BY <1>1, <1>2, ProjectIs
<1>4. PICK g : Passes(g, n + 1, u) /\ Project(u) = g[n + 1]
  BY <1>2, ProjectIs
<1>5. g[n + 1] = Apply(g[n], e)
  <2>1. n + 1 \in 0..(n + 1) /\ n + 1 # 0 /\ (n + 1) - 1 = n
    BY <1>2
  <2>2. QED
    BY <1>2, <1>4, <2>1, PassesAt
<1>6. g[n] = f[n]
  BY <1>2, <1>3, <1>4, PassesAgree
<1>7. QED
  BY <1>1, <1>3, <1>4, <1>5, <1>6

(* A trade's stream opens with a BOOKED event that is complete.            *)
LEMMA ProjectBooked ==
  ASSUME NEW e \in TradeEvent, e.type = "BOOKED", e.good
  PROVE  Project(<<e>>) = "PENDING"
<1>1. Len(<<e>>) = 1 /\ <<e>>[1] = e
  OBVIOUS
<1>2. PICK f : Passes(f, 1, <<e>>) /\ Project(<<e>>) = f[1]
  BY <1>1, ProjectIs
<1>3. f[0] = "none" /\ f[1] = Apply(f[0], e)
  <2>1. 0 \in 0..1 /\ 1 \in 0..1 /\ 1 - 1 = 0
    OBVIOUS
  <2>2. QED
    BY <1>1, <1>2, <2>1, PassesAt
<1>4. QED
  BY <1>2, <1>3 DEF Apply

----------------------------------------------------------------------------
(* What a step may never do to the tables: trades stay, streams only grow. *)
Grows == \A t \in DOMAIN trades : t \in DOMAIN trades' /\ Len(events[t]) \in Nat /\ Len(events'[t]) \in Nat
                                  /\ Len(events[t]) <= Len(events'[t])

(* A request that is over is ready for the next.                           *)
LEMMA IdleOK == TypeOK => Idle \in Request /\ Ready(Idle)
BY DeskAssumption, Rows DEF Idle, Request, Ready, Types

(* At most one request moves, and what it turns into is ready.             *)
Moves == \/ request' = request
         \/ \E r \in Requests, y \in Request : Ready(y) /\ request' = [request EXCEPT ![r] = y]

(* Every request is still ready, the one that moved and the others.        *)
LEMMA RequestsStep ==
  ASSUME TypeOK, RequestsReady, Grows, Len(trades') \in Nat, Len(trades) <= Len(trades'), Moves
  PROVE  RequestsReady' /\ request' \in [Requests -> Request']
<1>1. request \in [Requests -> Request] /\ Len(trades) \in Nat
  BY Rows DEF TypeOK
<1>2. Request \subseteq Request'
  BY <1>1 DEF Request
<1>3. \A s \in Requests : request'[s] \in Request /\ Ready(request'[s])
  BY <1>1 DEF Moves, RequestsReady
<1>4. request' \in [Requests -> Request']
  BY <1>1, <1>2 DEF Moves
<1>5. ASSUME NEW s \in Requests PROVE Ready(request[s])'
  <2>z. PICK z : z = request'[s]
    OBVIOUS
  <2>1. z \in Request /\ Ready(z)
    BY <1>3, <2>z
  <2>2. z.version \in 0..MaxEvents /\ z.seq \in 0..(MaxEvents + 1) /\ MaxEvents \in Nat
    BY <2>1, DeskAssumption DEF Request
  <2>3. ASSUME z.trade \in DOMAIN trades
        PROVE  /\ z.trade \in DOMAIN trades'
               /\ z.version <= Len(events[z.trade]) => z.version <= Len(events'[z.trade])
               /\ z.seq \in 1..(Len(events[z.trade]) + 1) => z.seq \in 1..(Len(events'[z.trade]) + 1)
    <3>e. PICK u, a, b : u = z.trade /\ a = Len(events[u]) /\ b = Len(events'[u])
      OBVIOUS
    <3>0. u \in DOMAIN trades
      BY <2>3, <3>e
    <3>1. u \in DOMAIN trades' /\ Len(events[u]) \in Nat /\ Len(events'[u]) \in Nat
          /\ Len(events[u]) <= Len(events'[u])
      BY <3>0 DEF Grows
    <3>2. a \in Nat /\ b \in Nat /\ a <= b
      BY <3>1, <3>e
    <3>3. z.version \in Int /\ z.seq \in Int
      BY <2>2
    <3>4. z.version <= a => z.version <= b
      BY <3>2, <3>3
    <3>5. z.seq \in 1..(a + 1) => z.seq \in 1..(b + 1)
      BY <3>2, <3>3
    <3>6. QED
      BY <3>1, <3>4, <3>5, <3>e
  <2>4. Ready(z)'
    BY <2>1, <2>3 DEF Ready
  <2>5. QED
    BY <2>z, <2>4 DEF Ready
<1>6. QED
  BY <1>4, <1>5 DEF RequestsReady

(* A step that writes no trade and no event: at most a result is replayed. *)
Replays(k) == k \in Keys /\ keys[k] # NoReply /\ told' = [told EXCEPT ![k] = @ \union {keys[k]}]

(* What is kept when no trade and no event is written.                     *)
LEMMA QuietStep ==
  ASSUME DeskInv, UNCHANGED <<trades, events, keys, put>>, Moves,
         told' = told \/ \E k \in Keys : Replays(k)
  PROVE  DeskInv' /\ Promised
<1>1. /\ TypeOK /\ RequestsReady /\ Len(trades') \in Nat /\ Len(trades) <= Len(trades')
      /\ \A t \in DOMAIN trades : Len(events[t]) \in Nat
  BY Rows DEF DeskInv
<1>2. Grows
  BY <1>1 DEF Grows
<1>3. RequestsReady' /\ request' \in [Requests -> Request']
  BY <1>1, <1>2, RequestsStep
<1>4. \A k \in Keys : EffectsOf(k)' = EffectsOf(k)
  BY DEF EffectsOf, Written
<1>5. ASSUME NEW k \in Keys, Replays(k)
      PROVE  keys[k] \in EffectsOf(k) /\ keys[k] \in Results
  <2>1. EffectsOf(k) = {keys[k]} /\ EffectsOf(k) \subseteq Results
    BY <1>5 DEF DeskInv, KeysOK, Replays, EffectsOf, Written
  <2>2. QED
    BY <2>1
<1>6. told' \in [Keys -> SUBSET Results]
  BY <1>1, <1>5 DEF TypeOK, Replays
<1>7. TypeOK'
  BY <1>1, <1>3, <1>6 DEF TypeOK
<1>8. KeysOK' /\ LatestIsNewest' /\ Follows'
  BY <1>4 DEF DeskInv, KeysOK, LatestIsNewest, Follows, RowsOwn, RowFollowsStream, Appended
<1>9. [k \in Keys |-> EffectsOf(k)]' = [k \in Keys |-> EffectsOf(k)]
  BY <1>4
<1>10. Promised
  <2>1. CASE told' = told
    BY <1>9, <2>1 DEF Promised
  <2>2. ASSUME NEW k \in Keys, Replays(k) PROVE Promised
    <3>1. Once!Replay(k, keys[k])
      BY <1>5, <1>9, <2>2 DEF Once!Replay, Replays
    <3>2. QED
      BY <1>5, <2>2, <3>1 DEF Promised, Once!Next
  <2>3. QED
    BY <2>1, <2>2
<1>11. QED
  BY <1>3, <1>7, <1>8, <1>10 DEF DeskInv


----------------------------------------------------------------------------
(* A commit that writes an event under a key, or under none.               *)
LEMMA CommitStep ==
  ASSUME TypeOK, KeysOK, NEW k \in Keys \union {NoKey}, NEW reply \in Results,
         Stored(k) = NoReply, Store(k, reply), Tell(k, reply),
         \A q \in Keys : EffectsOf(q)' = IF q = k THEN EffectsOf(q) \union {reply} ELSE EffectsOf(q)
  PROVE  /\ KeysOK' /\ Promised
         /\ keys' \in [Keys -> Results \union {NoReply}] /\ told' \in [Keys -> SUBSET Results]
<1>0. reply # NoReply /\ keys \in [Keys -> Results \union {NoReply}] /\ told \in [Keys -> SUBSET Results]
  BY DeskAssumption DEF Results, NoReply, TypeOK
<1>1. CASE k = NoKey
  <2>1. keys' = keys /\ told' = told
    BY <1>1 DEF Store, Tell
  <2>2. \A q \in Keys : EffectsOf(q)' = EffectsOf(q)
    BY <1>1, DeskAssumption
  <2>3. KeysOK'
    BY <2>1, <2>2 DEF KeysOK
  <2>4. [q \in Keys |-> EffectsOf(q)]' = [q \in Keys |-> EffectsOf(q)]
    BY <2>2
  <2>5. QED
    BY <1>0, <2>1, <2>3, <2>4 DEF Promised
<1>2. CASE k # NoKey
  <2>1. /\ k \in Keys /\ keys[k] = NoReply
        /\ keys' = [keys EXCEPT ![k] = reply] /\ told' = [told EXCEPT ![k] = @ \union {reply}]
    BY <1>2 DEF Store, Tell, Stored
  <2>2. EffectsOf(k) = {} /\ EffectsOf(k)' = {reply}
    BY <2>1 DEF KeysOK
  <2>3. \A q \in Keys : q # k => EffectsOf(q)' = EffectsOf(q) /\ keys'[q] = keys[q]
    BY <1>0, <2>1
  <2>4. keys'[k] = reply
    BY <1>0, <2>1
  <2>5. KeysOK'
    BY <1>0, <2>2, <2>3, <2>4 DEF KeysOK
  <2>6. [q \in Keys |-> EffectsOf(q)]' = [[q \in Keys |-> EffectsOf(q)] EXCEPT ![k] = {reply}]
    BY <2>1, <2>2, <2>3
  <2>7. Once!Execute(k, reply)
    BY <2>1, <2>2, <2>6 DEF Once!Execute
  <2>8. keys' \in [Keys -> Results \union {NoReply}] /\ told' \in [Keys -> SUBSET Results]
    BY <1>0, <2>1
  <2>9. QED
    BY <2>1, <2>5, <2>7, <2>8 DEF Promised, Once!Next
<1>3. QED
  BY <1>1, <1>2

(* A trade is added, with its BOOKED event.                                *)
AddsTrade(k, row, e) ==
  /\ Len(trades) < MaxTrades /\ Room
  /\ row \in Trade /\ row.latest \in 0..1 /\ row.version <= 1
  /\ row.status = "PENDING" /\ e.type = "BOOKED" /\ e.good
  /\ e \in TradeEvent /\ e.by = k /\ k \in Keys \union {NoKey}
  /\ trades' = Append(trades, row) /\ events' = Append(events, <<e>>) /\ put' = put
  /\ Stored(k) = NoReply /\ Store(k, <<Len(trades) + 1, 1>>) /\ Tell(k, <<Len(trades) + 1, 1>>)
  /\ Moves

(* A new trade keeps the invariant and is one effect of its key.           *)
LEMMA AddTradeStep ==
  ASSUME DeskInv, NEW k, NEW row, NEW e, AddsTrade(k, row, e)
  PROVE  DeskInv' /\ Promised
<1>. DEFINE n == Len(trades) + 1
<1>0. TypeOK /\ DOMAIN trades = 1..Len(trades) /\ DOMAIN events = 1..Len(trades) /\ Len(trades) \in Nat
  BY Rows DEF DeskInv
<1>1. /\ trades' \in Seq(Trade) /\ Len(trades') = n /\ DOMAIN trades' = 1..n /\ trades'[n] = row
      /\ \A t \in DOMAIN trades : trades'[t] = trades[t]
  BY <1>0, AppendSeq DEF AddsTrade, TypeOK
<1>2. <<e>> \in Seq(TradeEvent) /\ Len(<<e>>) = 1 /\ <<e>>[1] = e /\ DOMAIN <<e>> = {1}
  BY DEF AddsTrade
<1>3. /\ events' \in Seq(Seq(TradeEvent)) /\ Len(events') = Len(events) + 1 /\ events'[n] = <<e>>
      /\ DOMAIN events' = 1..n
      /\ \A t \in DOMAIN events : events'[t] = events[t]
  <2>s. PICK es : es = <<e>>
    OBVIOUS
  <2>1. es \in Seq(TradeEvent) /\ events \in Seq(Seq(TradeEvent)) /\ Len(events) + 1 = n
    BY <1>0, <1>2, <2>s DEF TypeOK
  <2>2. /\ Append(events, es) \in Seq(Seq(TradeEvent))
        /\ Len(Append(events, es)) = Len(events) + 1
        /\ DOMAIN Append(events, es) = 1..(Len(events) + 1)
        /\ \A t \in DOMAIN events : Append(events, es)[t] = events[t]
        /\ Append(events, es)[Len(events) + 1] = es
    BY <2>1, AppendSeq
  <2>3. events' = Append(events, es)
    BY <2>s DEF AddsTrade
  <2>. HIDE DEF n
  <2>4. QED
    BY <2>1, <2>2, <2>3, <2>s
<1>4. n \in 1..MaxTrades /\ 1 \in 1..MaxEvents /\ MaxEvents \in Nat /\ n \notin DOMAIN trades
      /\ 1..n = DOMAIN trades \union {n}
  BY <1>0, RoomForOne, DeskAssumption DEF AddsTrade
<1>. HIDE DEF n
<1>5. ASSUME NEW q \in Keys
      PROVE  EffectsOf(q)' = IF q = k THEN EffectsOf(q) \union {<<n, 1>>} ELSE EffectsOf(q)
  <2>1. Written' = Written \union {<<n, 1>>} /\ <<n, 1>> \notin Written
    BY <1>0, <1>1, <1>2, <1>3, <1>4 DEF Written, Results
  <2>2. \A w \in Written : events'[w[1]][w[2]] = events[w[1]][w[2]]
    BY <1>3 DEF Written
  <2>3. events'[n][1].by = k
    BY <1>2, <1>3 DEF AddsTrade
  <2>4. QED
    BY <2>1, <2>2, <2>3 DEF EffectsOf
<1>6. KeysOK' /\ Promised /\ keys' \in [Keys -> Results \union {NoReply}] /\ told' \in [Keys -> SUBSET Results]
  <2>. PICK reply : reply = <<n, 1>>
    OBVIOUS
  <2>1. reply \in Results /\ Stored(k) = NoReply /\ Store(k, reply) /\ Tell(k, reply)
        /\ k \in Keys \union {NoKey}
    BY <1>4 DEF AddsTrade, Results, n
  <2>2. \A q \in Keys : EffectsOf(q)' = IF q = k THEN EffectsOf(q) \union {reply} ELSE EffectsOf(q)
    BY <1>5
  <2>3. QED
    BY <1>0, <2>1, <2>2, CommitStep DEF DeskInv
<1>7. Grows
  <2>1. \A t \in DOMAIN trades : Len(events[t]) \in Nat
    BY Rows DEF DeskInv
  <2>2. QED
    BY <1>0, <1>1, <1>3, <1>4, <2>1 DEF Grows
<1>8. RequestsReady' /\ request' \in [Requests -> Request']
  <2>1. Len(trades') \in Nat /\ Len(trades) <= Len(trades') /\ Moves
    BY <1>0, <1>1 DEF n, AddsTrade
  <2>2. QED
    BY <1>0, <1>7, <2>1, RequestsStep DEF DeskInv
<1>9. TypeOK'
  <2>1. Len(trades') <= MaxTrades /\ Len(events') = Len(trades') /\ put' \subseteq DOMAIN trades'
    BY <1>0, <1>1, <1>3, <1>4 DEF TypeOK, AddsTrade
  <2>2. ASSUME NEW t \in DOMAIN trades'
        PROVE  /\ Len(events'[t]) \in 1..MaxEvents
               /\ trades'[t].latest <= Len(events'[t]) /\ trades'[t].version <= Len(events'[t])
    <3>1. CASE t = n
      BY <1>1, <1>2, <1>3, <1>4, <3>1 DEF AddsTrade
    <3>2. CASE t \in DOMAIN trades
      BY <1>0, <1>1, <1>3, <3>2 DEF TypeOK
    <3>3. QED
      BY <1>1, <1>4, <3>1, <3>2
  <2>3. QED
    BY <1>1, <1>3, <1>6, <1>8, <2>1, <2>2 DEF TypeOK
<1>10. LatestIsNewest'
  <2>1. ASSUME NEW t \in DOMAIN trades', NEW i \in DOMAIN events'[t],
               trades'[t].latest # 0, events'[t][i].src \in {"book", "life"}
        PROVE  i <= trades'[t].latest
    <3>1. CASE t = n
      BY <1>1, <1>2, <1>3, <2>1, <3>1 DEF AddsTrade
    <3>2. CASE t \in DOMAIN trades
      BY <1>0, <1>1, <1>3, <2>1, <3>2 DEF DeskInv, LatestIsNewest
    <3>3. QED
      BY <1>1, <1>4, <3>1, <3>2
  <2>2. QED
    BY <2>1 DEF LatestIsNewest
<1>11. Follows'
  <2>1. put' = put /\ row.status = "PENDING" /\ e \in TradeEvent /\ e.type = "BOOKED" /\ e.good
    BY DEF AddsTrade
  <2>2. Project(<<e>>) = "PENDING"
    BY <2>1, ProjectBooked
  <2>3. ASSUME NEW t \in DOMAIN trades', t \notin put'
        PROVE  trades'[t].status \in OwnStatus /\ (~Appended(t)' => trades'[t].status = Project(events'[t]))
    <3>1. CASE t = n
      BY <1>1, <1>3, <2>1, <2>2, <3>1 DEF OwnStatus
    <3>2. CASE t \in DOMAIN trades
      <4>1. trades'[t] = trades[t] /\ events'[t] = events[t]
        BY <1>0, <1>1, <1>3, <3>2
      <4>2. trades[t].status \in OwnStatus /\ (~Appended(t) => trades[t].status = Project(events[t]))
        BY <2>1, <2>3, <3>2 DEF DeskInv, Follows, RowsOwn, RowFollowsStream
      <4>3. Appended(t)' <=> Appended(t)
        BY <4>1 DEF Appended
      <4>4. QED
        BY <4>1, <4>2, <4>3
    <3>3. QED
      BY <1>1, <1>4, <3>1, <3>2
  <2>4. QED
    BY <2>3 DEF Follows, RowsOwn, RowFollowsStream
<1>12. QED
  BY <1>6, <1>8, <1>9, <1>10, <1>11 DEF DeskInv


(* An event is added to a trade's stream; its row is left, or points at it.*)
AddsEvent(k, t, row, e) ==
  /\ t \in DOMAIN trades /\ Room
  /\ row \in Trade /\ row.version <= Len(events[t]) + 1
  /\ \/ row = trades[t] /\ e.src = "append"
     \/ /\ row.latest = Len(events[t]) + 1
        /\ e.type \in {"CONFIRMED", "CANCELLED"} /\ row.status = e.type
  /\ e \in TradeEvent /\ e.by = k /\ k \in Keys \union {NoKey}
  /\ trades' = [trades EXCEPT ![t] = row] /\ put' = put
  /\ events' = [events EXCEPT ![t] = Append(events[t], e)]
  /\ Stored(k) = NoReply /\ Store(k, <<t, Len(events[t]) + 1>>) /\ Tell(k, <<t, Len(events[t]) + 1>>)
  /\ Moves

(* A new event keeps the invariant and is one effect of its key.           *)
LEMMA AddEventStep ==
  ASSUME DeskInv, NEW k, NEW t, NEW row, NEW e, AddsEvent(k, t, row, e)
  PROVE  DeskInv' /\ Promised
<1>. DEFINE n == Len(events[t]) + 1
<1>0. /\ TypeOK /\ t \in DOMAIN trades /\ DOMAIN events = DOMAIN trades /\ Len(trades) \in Nat
      /\ trades \in Seq(Trade) /\ events \in Seq(Seq(TradeEvent)) /\ Len(events) = Len(trades)
      /\ events[t] \in Seq(TradeEvent) /\ t \in 1..MaxTrades
      /\ \A u \in DOMAIN trades : Len(events[u]) \in 1..MaxEvents /\ DOMAIN events[u] = 1..Len(events[u])
  BY Rows DEF DeskInv, AddsEvent, TypeOK
<1>1. /\ trades' \in Seq(Trade) /\ Len(trades') = Len(trades) /\ DOMAIN trades' = DOMAIN trades
      /\ trades'[t] = row /\ \A u \in DOMAIN trades : u # t => trades'[u] = trades[u]
  BY <1>0, UpdateSeq DEF AddsEvent
<1>2. PICK es : es = Append(events[t], e)
  OBVIOUS
<1>3. /\ es \in Seq(TradeEvent) /\ Len(es) = n /\ DOMAIN es = 1..n /\ es[n] = e
      /\ \A i \in DOMAIN events[t] : es[i] = events[t][i]
  BY <1>0, <1>2, AppendSeq DEF AddsEvent
<1>4. /\ events' \in Seq(Seq(TradeEvent)) /\ Len(events') = Len(trades) /\ DOMAIN events' = DOMAIN trades
      /\ events'[t] = es /\ \A u \in DOMAIN trades : u # t => events'[u] = events[u]
  <2>1. events' = [events EXCEPT ![t] = es]
    BY <1>2 DEF AddsEvent
  <2>2. QED
    BY <1>0, <1>3, <2>1, UpdateSeq
<1>5. /\ n \in 1..MaxEvents /\ n \in Nat /\ MaxEvents \in Nat /\ Len(events[t]) = n - 1
      /\ n \notin DOMAIN events[t] /\ 1..n = DOMAIN events[t] \union {n}
  <2>1. Len(events[t]) < MaxEvents
    BY <1>0, RoomForOne DEF AddsEvent
  <2>2. QED
    BY <1>0, <2>1, DeskAssumption
<1>6. /\ row.version <= n
      /\ \/ row.latest = n /\ e.type \in {"CONFIRMED", "CANCELLED"} /\ row.status = e.type
         \/ row = trades[t] /\ e.src = "append"
      /\ Store(k, <<t, n>>) /\ Tell(k, <<t, n>>)
  BY DEF AddsEvent
<1>. HIDE DEF n
<1>7. ASSUME NEW q \in Keys
      PROVE  EffectsOf(q)' = IF q = k THEN EffectsOf(q) \union {<<t, n>>} ELSE EffectsOf(q)
  <2>1. Written' = Written \union {<<t, n>>}
    <3>1. ASSUME NEW w \in Results PROVE w \in Written' <=> w \in Written \/ w = <<t, n>>
      <4>1. w = <<w[1], w[2]>> /\ (w \in Written <=> w[1] \in DOMAIN trades /\ w[2] \in DOMAIN events[w[1]])
        BY <1>0 DEF Written, Results
      <4>2. w \in Written' <=> w[1] \in DOMAIN trades /\ w[2] \in DOMAIN events'[w[1]]
        BY <1>4 DEF Written
      <4>3. CASE w[1] = t
        BY <1>0, <1>3, <1>4, <1>5, <4>1, <4>2, <4>3
      <4>4. CASE w[1] # t
        BY <1>4, <4>1, <4>2, <4>4
      <4>5. QED
        BY <4>3, <4>4
    <3>2. Written' \subseteq Results /\ Written \subseteq Results /\ <<t, n>> \in Results
      BY <1>0, <1>5 DEF Written, Results
    <3>3. QED
      BY <3>1, <3>2
  <2>2. \A w \in Written : events'[w[1]][w[2]] = events[w[1]][w[2]]
    <3>1. ASSUME NEW w \in Written PROVE events'[w[1]][w[2]] = events[w[1]][w[2]]
      <4>1. w[1] \in DOMAIN trades /\ w[2] \in DOMAIN events[w[1]]
        BY <1>0 DEF Written
      <4>2. CASE w[1] = t
        BY <1>3, <1>4, <4>1, <4>2
      <4>3. CASE w[1] # t
        BY <1>4, <4>1, <4>3
      <4>4. QED
        BY <4>2, <4>3
    <3>2. QED
      BY <3>1
  <2>3. events'[t][n].by = k
    BY <1>3, <1>4 DEF AddsEvent
  <2>4. QED
    BY <2>1, <2>2, <2>3 DEF EffectsOf
<1>8. KeysOK' /\ Promised /\ keys' \in [Keys -> Results \union {NoReply}] /\ told' \in [Keys -> SUBSET Results]
  <2>s. PICK reply : reply = <<t, n>>
    OBVIOUS
  <2>1. reply \in Results /\ Stored(k) = NoReply /\ Store(k, reply) /\ Tell(k, reply)
        /\ k \in Keys \union {NoKey}
    BY <1>0, <1>5, <1>6, <2>s DEF AddsEvent, Results
  <2>2. \A q \in Keys : EffectsOf(q)' = IF q = k THEN EffectsOf(q) \union {reply} ELSE EffectsOf(q)
    BY <1>7, <2>s
  <2>3. QED
    BY <1>0, <2>1, <2>2, CommitStep DEF DeskInv
<1>9. Grows
  <2>1. ASSUME NEW u \in DOMAIN trades
        PROVE  u \in DOMAIN trades' /\ Len(events[u]) \in Nat /\ Len(events'[u]) \in Nat
               /\ Len(events[u]) <= Len(events'[u])
    <3>1. Len(events[u]) \in Nat /\ u \in DOMAIN trades'
      BY <1>0, <1>1
    <3>2. CASE u = t
      BY <1>3, <1>4, <1>5, <3>1, <3>2
    <3>3. CASE u # t
      BY <1>4, <3>1, <3>3
    <3>4. QED
      BY <3>1, <3>2, <3>3
  <2>2. QED
    BY <2>1 DEF Grows
<1>10. RequestsReady' /\ request' \in [Requests -> Request']
  <2>1. Len(trades') \in Nat /\ Len(trades) <= Len(trades') /\ Moves
    BY <1>0, <1>1 DEF AddsEvent
  <2>2. QED
    BY <1>0, <1>9, <2>1, RequestsStep DEF DeskInv
<1>11. TypeOK'
  <2>1. Len(trades') <= MaxTrades /\ Len(events') = Len(trades') /\ put' \subseteq DOMAIN trades'
    BY <1>0, <1>1, <1>4 DEF TypeOK, AddsEvent
  <2>2. ASSUME NEW u \in DOMAIN trades'
        PROVE  /\ Len(events'[u]) \in 1..MaxEvents
               /\ trades'[u].latest <= Len(events'[u]) /\ trades'[u].version <= Len(events'[u])
    <3>1. CASE u = t
      <4>1. trades[t].latest <= Len(events[t]) /\ trades[t] \in Trade
        BY <1>0, Rows DEF TypeOK
      <4>2. trades[t].latest \in Nat
        BY <1>5, <4>1 DEF Trade
      <4>3. row.latest <= n
        BY <1>5, <1>6, <4>1, <4>2
      <4>4. QED
        BY <1>1, <1>3, <1>4, <1>5, <1>6, <3>1, <4>3
    <3>2. CASE u # t
      BY <1>0, <1>1, <1>4, <3>2 DEF TypeOK
    <3>3. QED
      BY <3>1, <3>2
  <2>3. QED
    BY <1>1, <1>4, <1>8, <1>10, <2>1, <2>2 DEF TypeOK
<1>12. LatestIsNewest'
  <2>1. ASSUME NEW u \in DOMAIN trades', NEW i \in DOMAIN events'[u],
               trades'[u].latest # 0, events'[u][i].src \in {"book", "life"}
        PROVE  i <= trades'[u].latest
    <3>1. CASE u = t /\ row.latest = n
      <4>1. i \in 1..n
        BY <1>3, <1>4, <3>1
      <4>2. QED
        BY <1>1, <1>5, <3>1, <4>1
    <3>2. CASE u = t /\ row = trades[t] /\ e.src = "append"
      <4>1. i \in DOMAIN events[t]
        BY <1>3, <1>4, <1>5, <2>1, <3>2
      <4>2. events[t][i].src \in {"book", "life"}
        BY <1>3, <1>4, <2>1, <3>2, <4>1
      <4>3. QED
        BY <1>0, <1>1, <2>1, <3>2, <4>1, <4>2 DEF DeskInv, LatestIsNewest
    <3>3. CASE u # t
      BY <1>0, <1>1, <1>4, <2>1, <3>3 DEF DeskInv, LatestIsNewest
    <3>4. QED
      BY <1>6, <3>1, <3>2, <3>3
  <2>2. QED
    BY <2>1 DEF LatestIsNewest
<1>13. Follows'
  <2>1. e \in TradeEvent /\ put' = put
    BY DEF AddsEvent
  <2>2. ASSUME NEW u \in DOMAIN trades', u \notin put'
        PROVE  trades'[u].status \in OwnStatus /\ (~Appended(u)' => trades'[u].status = Project(events'[u]))
    <3>0. trades[u].status \in OwnStatus /\ (~Appended(u) => trades[u].status = Project(events[u]))
      BY <1>1, <2>1, <2>2 DEF DeskInv, Follows, RowsOwn, RowFollowsStream
    <3>1. CASE u = t /\ row = trades[t] /\ e.src = "append"
      <4>1. Appended(t)'
        BY <1>3, <1>4, <1>5, <3>1 DEF Appended
      <4>2. QED
        BY <1>1, <3>0, <3>1, <4>1
    <3>2. CASE u = t /\ e.type \in {"CONFIRMED", "CANCELLED"} /\ row.status = e.type
      <4>1. trades'[u].status = e.type
        BY <1>1, <3>2
      <4>2. ASSUME ~Appended(u)' PROVE Project(events'[u]) = e.type
        <5>1. ~Appended(u)
          BY <1>3, <1>4, <1>5, <3>2, <4>2 DEF Appended
        <5>2. Project(events[t]) \in OwnStatus
          BY <3>0, <3>2, <5>1
        <5>3. Project(es) = Apply(Project(events[t]), e)
          BY <1>0, <1>2, <2>1, ProjectAppend
        <5>4. Apply(Project(events[t]), e) = e.type
          BY <3>2, <5>2 DEF Apply, StatusOnly, NeedsPayload, OwnStatus
        <5>5. QED
          BY <1>4, <3>2, <5>3, <5>4
      <4>3. QED
        BY <3>2, <4>1, <4>2 DEF OwnStatus
    <3>3. CASE u # t
      <4>1. trades'[u] = trades[u] /\ events'[u] = events[u]
        BY <1>1, <1>4, <3>3
      <4>2. Appended(u)' <=> Appended(u)
        BY <4>1 DEF Appended
      <4>3. QED
        BY <3>0, <4>1, <4>2
    <3>4. QED
      BY <1>6, <3>1, <3>2, <3>3
  <2>3. QED
    BY <2>2 DEF Follows, RowsOwn, RowFollowsStream
<1>14. QED
  BY <1>8, <1>10, <1>11, <1>12, <1>13 DEF DeskInv


(* A status set as a field touches one row's status and nothing else.      *)
LEMMA PutStep ==
  ASSUME DeskInv, NEW t \in DOMAIN trades, NEW status \in PutStatuses, PutStatus(t, status)
  PROVE  DeskInv' /\ Promised
<1>1. PICK row : row = [trades[t] EXCEPT !.status = status]
  OBVIOUS
<1>2. TypeOK /\ trades \in Seq(Trade) /\ trades[t] \in Trade /\ Len(trades) \in Nat
      /\ \A u \in DOMAIN trades : Len(events[u]) \in Nat
  BY Rows DEF DeskInv, TypeOK
<1>3. row \in Trade /\ row.latest = trades[t].latest /\ row.version = trades[t].version
  BY <1>1, <1>2 DEF Trade
<1>4. trades' = [trades EXCEPT ![t] = row]
  BY <1>1 DEF PutStatus
<1>5. /\ trades' \in Seq(Trade) /\ Len(trades') = Len(trades) /\ DOMAIN trades' = DOMAIN trades
      /\ trades'[t] = row /\ \A u \in DOMAIN trades : u # t => trades'[u] = trades[u]
  BY <1>2, <1>3, <1>4, UpdateSeq
<1>6. \A u \in DOMAIN trades : trades'[u].latest = trades[u].latest /\ trades'[u].version = trades[u].version
  BY <1>3, <1>5
<1>7. UNCHANGED <<events, keys, request, told>> /\ put' = put \union {t} /\ Moves
  BY DEF PutStatus, Moves
<1>8. Grows
  BY <1>2, <1>5, <1>7 DEF Grows
<1>9. RequestsReady' /\ request' \in [Requests -> Request']
  BY <1>2, <1>5, <1>7, <1>8, RequestsStep DEF DeskInv
<1>10. \A k \in Keys : EffectsOf(k)' = EffectsOf(k)
  BY <1>7 DEF EffectsOf, Written
<1>11. KeysOK' /\ Promised
  <2>1. KeysOK'
    BY <1>7, <1>10 DEF KeysOK, DeskInv
  <2>2. [k \in Keys |-> EffectsOf(k)]' = [k \in Keys |-> EffectsOf(k)]
    BY <1>10
  <2>3. QED
    BY <1>7, <2>1, <2>2 DEF Promised
<1>12. TypeOK'
  BY <1>2, <1>5, <1>6, <1>7, <1>9 DEF TypeOK
<1>13. LatestIsNewest'
  BY <1>5, <1>6, <1>7 DEF DeskInv, LatestIsNewest
<1>14. Follows'
  <2>1. ASSUME NEW u \in DOMAIN trades', u \notin put'
        PROVE  trades'[u].status \in OwnStatus /\ (~Appended(u)' => trades'[u].status = Project(events'[u]))
    <3>1. u \in DOMAIN trades /\ u \notin put /\ trades'[u] = trades[u] /\ events'[u] = events[u]
      BY <1>5, <1>7, <2>1
    <3>2. Appended(u)' <=> Appended(u)
      BY <3>1 DEF Appended
    <3>3. trades[u].status \in OwnStatus /\ (~Appended(u) => trades[u].status = Project(events[u]))
      BY <3>1 DEF DeskInv, Follows, RowsOwn, RowFollowsStream
    <3>4. QED
      BY <3>1, <3>2, <3>3
  <2>2. QED
    BY <2>1 DEF Follows, RowsOwn, RowFollowsStream
<1>15. QED
  BY <1>9, <1>11, <1>12, <1>13, <1>14 DEF DeskInv

----------------------------------------------------------------------------
(* A request is refused, and is gone.                                      *)
LEMMA RefuseStep ==
  ASSUME DeskInv, NEW r \in Requests, Refuse(r)
  PROVE  DeskInv' /\ Promised
<1>1. Moves
  BY IdleOK DEF Refuse, Go, Moves, DeskInv
<1>2. QED
  BY <1>1, QuietStep DEF Refuse

(* A request goes one query on, and commits nothing.                       *)
LEMMA GoStep ==
  ASSUME DeskInv, NEW r \in Requests, NEW y \in Request, Ready(y), Go(r, y),
         UNCHANGED <<trades, events, keys, told, put>>
  PROVE  DeskInv' /\ Promised
<1>1. Moves
  BY DEF Go, Moves
<1>2. QED
  BY <1>1, QuietStep

(* A stored result is replayed to whoever asks under its key.              *)
LEMMA ToldAgain ==
  ASSUME NEW k \in Keys \union {NoKey}, Stored(k) # NoReply, Tell(k, Stored(k))
  PROVE  \E q \in Keys : Replays(q)
BY DEF Stored, Tell, Replays

(* A request that arrives starts, or is answered with what is stored.      *)
LEMMA ArriveStep ==
  ASSUME DeskInv, NEW r \in Requests, NEW x \in Request, Ready(x), Arrive(r, x)
  PROVE  DeskInv' /\ Promised
<1>0. x.key \in Keys \union {NoKey} /\ UNCHANGED <<trades, events, keys, put>>
  BY DEF Request, Arrive
<1>1. CASE Stored(x.key) # NoReply
  <2>1. Moves /\ \E q \in Keys : Replays(q)
    BY <1>0, <1>1, ToldAgain DEF Arrive, Moves
  <2>2. QED
    BY <1>0, <2>1, QuietStep
<1>2. CASE Stored(x.key) = NoReply
  <2>1. Go(r, x) /\ UNCHANGED told
    BY <1>2 DEF Arrive
  <2>2. QED
    BY <1>0, <2>1, GoStep
<1>3. QED
  BY <1>1, <1>2

(* A commit that finds its key taken is rolled back, and is answered with  *)
(* the winner's result.                                                    *)
LEMMA KeyTakenStep ==
  ASSUME DeskInv, NEW r \in Requests, KeyTaken(r)
  PROVE  DeskInv' /\ Promised
<1>1. request[r] \in Request
  BY DEF DeskInv, TypeOK
<1>2. request[r].key \in Keys \union {NoKey}
  BY <1>1 DEF Request
<1>3. \E q \in Keys : Replays(q)
  BY <1>2, ToldAgain DEF KeyTaken
<1>4. Moves /\ UNCHANGED <<trades, events, keys, put>>
  BY IdleOK DEF KeyTaken, Go, Moves, DeskInv
<1>5. QED
  BY <1>3, <1>4, QuietStep


(* What is known of a request under way.                                   *)
LEMMA UnderWay ==
  ASSUME DeskInv, NEW r \in Requests
  PROVE  request[r] \in Request /\ Ready(request[r]) /\ request[r].key \in Keys \union {NoKey}
<1>1. request[r] \in Request /\ Ready(request[r])
  BY DEF DeskInv, TypeOK, RequestsReady
<1>2. QED
  BY <1>1 DEF Request

(* A booking that commits.                                                 *)
LEMMA BookedStep ==
  ASSUME DeskInv, NEW r \in Requests, At(r, "book", "commit"), Booked(r)
  PROVE  DeskInv' /\ Promised
<1>x. PICK x : x = request[r]
  OBVIOUS
<1>0. x.key \in Keys \union {NoKey} /\ x.ref \in Refs /\ TypeOK /\ Room
  BY <1>x, UnderWay DEF At, Ready, Booked, DeskInv
<1>1. PICK row : row = [ref |-> x.ref, status |-> "PENDING", latest |-> 1, version |-> 1]
  OBVIOUS
<1>2. PICK e : e = Event("BOOKED", TRUE, "book", x.key)
  OBVIOUS
<1>3. row \in Trade /\ row.latest \in 0..1 /\ row.version <= 1 /\ row.status = "PENDING"
  <2>1. 1 \in 0..MaxEvents
    BY <1>0, RoomForOne, DeskAssumption
  <2>2. QED
    BY <1>0, <1>1, <2>1 DEF Trade
<1>4. e \in TradeEvent /\ e.by = x.key /\ e.type = "BOOKED" /\ e.good
  BY <1>0, <1>2 DEF Event, TradeEvent, Types
<1>5. Moves
  BY <1>0, IdleOK DEF Booked, Go, Moves
<1>6. AddsTrade(x.key, row, e)
  BY <1>x, <1>0, <1>1, <1>2, <1>3, <1>4, <1>5 DEF AddsTrade, Booked
<1>7. QED
  BY <1>6, AddTradeStep

(* A trade created without a key.                                          *)
LEMMA CreateStep ==
  ASSUME DeskInv, NEW ref \in Refs, Create(ref)
  PROVE  DeskInv' /\ Promised
<1>1. PICK row : row = [ref |-> ref, status |-> "PENDING", latest |-> 0, version |-> 0]
  OBVIOUS
<1>2. PICK e : e = Event("BOOKED", TRUE, "create", NoKey)
  OBVIOUS
<1>3. row \in Trade /\ row.latest \in 0..1 /\ row.version <= 1 /\ row.status = "PENDING"
  BY <1>1, DeskAssumption DEF Trade
<1>4. e \in TradeEvent /\ e.by = NoKey /\ e.type = "BOOKED" /\ e.good
  BY <1>2 DEF Event, TradeEvent, Types
<1>5. Moves /\ Stored(NoKey) = NoReply
      /\ Store(NoKey, <<Len(trades) + 1, 1>>) /\ Tell(NoKey, <<Len(trades) + 1, 1>>)
  BY DEF Create, Moves, Stored, Store, Tell
<1>6. AddsTrade(NoKey, row, e)
  BY <1>1, <1>2, <1>3, <1>4, <1>5 DEF AddsTrade, Create
<1>7. QED
  BY <1>6, AddTradeStep

(* The number a commit finds free is the one after the newest event's, and *)
(* the version it read is no newer than the stream.                        *)
LEMMA NextNumber ==
  ASSUME DeskInv, NEW r \in Requests, NEW x, x = request[r], x.op \in {"life", "append"}, x.pc = "commit",
         ~Clash(r), Room
  PROVE  /\ x.trade \in DOMAIN trades /\ x.seq = Len(events[x.trade]) + 1
         /\ x.seq \in 1..MaxEvents
         /\ x.op = "life" => x.version + 1 \in 0..MaxEvents /\ x.version + 1 <= x.seq
<1>1. /\ x \in Request /\ x.trade \in DOMAIN trades /\ x.seq \in 1..(Len(events[x.trade]) + 1)
      /\ x.op = "life" => x.version <= Len(events[x.trade])
  BY UnderWay DEF Ready
<1>2. PICK l : l = Len(events[x.trade])
  OBVIOUS
<1>3. l \in Nat /\ l < MaxEvents /\ MaxEvents \in Nat
  BY <1>1, <1>2, Rows, RoomForOne, DeskAssumption DEF DeskInv
<1>4. x.seq \in Int /\ x.seq = l + 1
  BY <1>1, <1>2, <1>3 DEF Clash
<1>5. x.version \in Nat
  BY <1>1, <1>3 DEF Request
<1>6. QED
  BY <1>1, <1>2, <1>3, <1>4, <1>5

(* A confirmation or a cancellation that commits.                          *)
LEMMA TransitionedStep ==
  ASSUME DeskInv, NEW r \in Requests, At(r, "life", "commit"), Transitioned(r)
  PROVE  DeskInv' /\ Promised
<1>x. PICK x : x = request[r]
  OBVIOUS
<1>0. /\ x.key \in Keys \union {NoKey} /\ x.type \in {"CONFIRMED", "CANCELLED"}
      /\ TypeOK /\ Room /\ ~Clash(r) /\ x.op = "life" /\ x.pc = "commit"
  BY <1>x, UnderWay DEF At, Ready, Transitioned, DeskInv
<1>1. /\ x.trade \in DOMAIN trades /\ x.seq = Len(events[x.trade]) + 1 /\ x.seq \in 1..MaxEvents
      /\ x.version + 1 \in 0..MaxEvents /\ x.version + 1 <= x.seq
  BY <1>x, <1>0, NextNumber
<1>2. PICK row : row = [trades[x.trade] EXCEPT !.status = StatusOnly[x.type], !.latest = x.seq,
                                               !.version = x.version + 1]
  OBVIOUS
<1>3. PICK e : e = Event(x.type, TRUE, "life", x.key)
  OBVIOUS
<1>4. trades[x.trade] \in Trade
  BY <1>0, <1>1, Rows
<1>5. row \in Trade /\ row.latest = x.seq /\ row.version = x.version + 1 /\ row.status = x.type
  <2>1. StatusOnly[x.type] = x.type /\ x.type \in {"CONFIRMED", "CANCELLED"}
    BY <1>0 DEF StatusOnly
  <2>2. x.seq \in 0..MaxEvents
    BY <1>1
  <2>3. QED
    BY <1>1, <1>2, <1>4, <2>1, <2>2 DEF Trade
<1>6. e \in TradeEvent /\ e.by = x.key /\ e.type = x.type
  BY <1>0, <1>3 DEF Event, TradeEvent, Types
<1>7. Moves
  BY <1>0, IdleOK DEF Transitioned, Go, Moves
<1>8. trades' = [trades EXCEPT ![x.trade] = row]
  BY <1>x, <1>1, <1>2 DEF Transitioned
<1>9. events' = [events EXCEPT ![x.trade] = Append(events[x.trade], e)]
  BY <1>x, <1>3 DEF Transitioned
<1>10. AddsEvent(x.key, x.trade, row, e)
  BY <1>x, <1>0, <1>1, <1>5, <1>6, <1>7, <1>8, <1>9 DEF AddsEvent, Transitioned
<1>11. QED
  BY <1>10, AddEventStep

(* An event posted as such, which commits or finds its number taken.       *)
LEMMA AppendStep ==
  ASSUME DeskInv, NEW r \in Requests, CommitAppend(r)
  PROVE  DeskInv' /\ Promised
<1>1. CASE Clash(r) /\ Refuse(r)
  BY <1>1, RefuseStep
<1>2. CASE ~Clash(r) /\ ~(Clash(r) /\ Refuse(r))
  <2>x. PICK x : x = request[r]
    OBVIOUS
  <2>0. /\ TypeOK /\ Room /\ x \in Request /\ x.op = "append" /\ x.pc = "commit"
        /\ UNCHANGED <<trades, keys, told, put>> /\ Go(r, Idle)
    BY <2>x, <1>2, UnderWay DEF CommitAppend, At, DeskInv
  <2>1. x.trade \in DOMAIN trades /\ x.seq = Len(events[x.trade]) + 1
    BY <2>x, <2>0, <1>2, NextNumber
  <2>2. PICK e : e = Event(x.type, x.good, "append", NoKey)
    OBVIOUS
  <2>3. e \in TradeEvent /\ e.by = NoKey /\ e.src = "append"
    BY <2>0, <2>2 DEF Event, TradeEvent, Request
  <2>4. PICK row : row = trades[x.trade]
    OBVIOUS
  <2>5. row \in Trade /\ row.version <= Len(events[x.trade]) + 1
    <3>1. row \in Trade /\ row.version <= Len(events[x.trade]) /\ Len(events[x.trade]) \in Nat
      BY <2>0, <2>1, <2>4, Rows DEF TypeOK
    <3>2. row.version \in Int
      BY <3>1, DeskAssumption DEF Trade
    <3>3. QED
      BY <3>1, <3>2
  <2>6. trades' = [trades EXCEPT ![x.trade] = row]
    BY <2>0, <2>1, <2>4 DEF TypeOK
  <2>7. events' = [events EXCEPT ![x.trade] = Append(events[x.trade], e)]
    BY <2>x, <2>2, <1>2 DEF CommitAppend
  <2>8. /\ Moves /\ Stored(NoKey) = NoReply /\ Store(NoKey, <<x.trade, Len(events[x.trade]) + 1>>)
        /\ Tell(NoKey, <<x.trade, Len(events[x.trade]) + 1>>)
    BY <2>0, IdleOK DEF Go, Moves, Stored, Store, Tell
  <2>9. AddsEvent(NoKey, x.trade, row, e)
    BY <2>0, <2>1, <2>3, <2>4, <2>5, <2>6, <2>7, <2>8 DEF AddsEvent
  <2>10. QED
    BY <2>9, AddEventStep
<1>3. QED
  BY <1>1, <1>2 DEF CommitAppend


----------------------------------------------------------------------------
(* What arrives is ready: a booking, a lifecycle request, a posted event.  *)
LEMMA Arrivals ==
  ASSUME DeskInv, NEW r \in Requests, NEW k \in Keys \union {NoKey}
  PROVE  /\ \A ref \in Refs : Book(r, k, ref) => DeskInv' /\ Promised
         /\ \A t \in DOMAIN trades, type \in {"CONFIRMED", "CANCELLED"} :
              Lifecycle(r, k, t, type) => DeskInv' /\ Promised
<1>0. /\ TypeOK /\ MaxEvents \in Nat /\ DOMAIN trades \subseteq 0..Len(trades)
      /\ Idle \in Request /\ {"CONFIRMED", "CANCELLED"} \subseteq Types
  BY Rows, IdleOK, DeskAssumption DEF DeskInv, Types
<1>1. ASSUME NEW ref \in Refs, Book(r, k, ref) PROVE DeskInv' /\ Promised
  <2>1. PICK x : x = [Idle EXCEPT !.op = "book", !.pc = "commit", !.key = k, !.ref = ref]
    OBVIOUS
  <2>2. x \in Request /\ Ready(x)
    <3>1. x \in Request
      BY <1>0, <2>1 DEF Request
    <3>2. x.op = "book" /\ x.ref = ref
      BY <2>1 DEF Idle
    <3>3. QED
      BY <3>1, <3>2 DEF Ready
  <2>3. Arrive(r, x)
    BY <1>1, <2>1 DEF Book
  <2>4. QED
    BY <2>2, <2>3, ArriveStep
<1>2. ASSUME NEW t \in DOMAIN trades, NEW type \in {"CONFIRMED", "CANCELLED"}, Lifecycle(r, k, t, type)
      PROVE  DeskInv' /\ Promised
  <2>1. PICK x : x = [Idle EXCEPT !.op = "life", !.pc = "load", !.key = k, !.trade = t, !.type = type]
    OBVIOUS
  <2>2. x \in Request
    BY <1>0, <2>1 DEF Request
  <2>3. Len(events[t]) \in Nat
    BY <1>0, Rows
  <2>4. Ready(x)
    BY <2>1, <2>3 DEF Idle, Ready
  <2>5. Arrive(r, x)
    BY <1>2, <2>1 DEF Lifecycle
  <2>6. QED
    BY <2>2, <2>4, <2>5, ArriveStep
<1>3. QED
  BY <1>1, <1>2

(* A posted event is numbered after the newest one committed.              *)
LEMMA AppendArrives ==
  ASSUME DeskInv, NEW r \in Requests, NEW t \in DOMAIN trades, NEW a \in Appends, AppendEvent(r, t, a[1], a[2])
  PROVE  DeskInv' /\ Promised
<1>0. /\ TypeOK /\ MaxEvents \in Nat /\ t \in 0..Len(trades)
      /\ Len(events[t]) \in Nat /\ Len(events[t]) + 1 \in 1..(Len(events[t]) + 1)
      /\ Len(events[t]) + 1 \in 0..(MaxEvents + 1) /\ Idle \in Request
  BY Rows, IdleOK, DeskAssumption DEF DeskInv
<1>1. PICK y : y = [Idle EXCEPT !.op = "append", !.pc = "commit", !.trade = t, !.type = a[1], !.good = a[2],
                                !.seq = Len(events[t]) + 1]
  OBVIOUS
<1>2. a[1] \in Types /\ a[2] \in BOOLEAN
  BY DeskAssumption DEF Types
<1>3. y \in Request
  BY <1>0, <1>1, <1>2 DEF Request
<1>4. Ready(y)
  BY <1>0, <1>1 DEF Idle, Ready
<1>5. Go(r, y) /\ UNCHANGED <<trades, events, keys, told, put>>
  BY <1>1 DEF AppendEvent
<1>6. QED
  BY <1>3, <1>4, <1>5, GoStep

(* The queries of a lifecycle request before its commit.                   *)
LEMMA QueryStep ==
  ASSUME DeskInv, NEW r \in Requests, Load(r) \/ Fold(r) \/ Insert(r)
  PROVE  DeskInv' /\ Promised
<1>x. PICK x : x = request[r]
  OBVIOUS
<1>0. /\ x.op = "life" /\ x \in Request /\ Ready(x) /\ x.trade \in DOMAIN trades
      /\ TypeOK /\ MaxEvents \in Nat
  BY <1>x, UnderWay, DeskAssumption DEF Load, Fold, Insert, At, Ready, DeskInv
<1>1. PICK l : l = Len(events[x.trade])
  OBVIOUS
<1>2. l \in 1..MaxEvents /\ trades[x.trade].version \in 0..MaxEvents /\ trades[x.trade].version <= l
  <2>1. l \in 1..MaxEvents /\ trades[x.trade] \in Trade
    BY <1>0, <1>1, Rows
  <2>2. trades[x.trade].version <= l
    BY <1>0, <1>1 DEF TypeOK
  <2>3. QED
    BY <2>1, <2>2 DEF Trade
<1>3. CASE Refuse(r)
  BY <1>3, RefuseStep
<1>4. CASE Load(r) /\ ~Refuse(r)
  <2>1. PICK y : y = [x EXCEPT !.pc = "fold", !.version = trades[x.trade].version]
    OBVIOUS
  <2>2. y \in Request
    BY <1>0, <1>2, <2>1 DEF Request
  <2>3. Ready(y)
    BY <1>0, <1>1, <1>2, <2>1 DEF Request, Ready
  <2>4. Go(r, y) /\ UNCHANGED <<trades, events, keys, told, put>>
    BY <1>x, <1>4, <2>1 DEF Load
  <2>5. QED
    BY <2>2, <2>3, <2>4, GoStep
<1>5. CASE Fold(r) /\ ~Refuse(r)
  <2>1. PICK y : y = [x EXCEPT !.pc = "insert"]
    OBVIOUS
  <2>2. y \in Request /\ Ready(y)
    BY <1>0, <2>1 DEF Request, Ready
  <2>3. Go(r, y) /\ UNCHANGED <<trades, events, keys, told, put>>
    BY <1>x, <1>5, <2>1 DEF Fold
  <2>4. QED
    BY <2>2, <2>3, GoStep
<1>6. CASE Insert(r)
  <2>1. PICK y : y = [x EXCEPT !.pc = "commit", !.seq = l + 1]
    OBVIOUS
  <2>2. l + 1 \in 0..(MaxEvents + 1) /\ l + 1 \in 1..(l + 1)
    BY <1>0, <1>2
  <2>3. y \in Request
    BY <1>0, <2>1, <2>2 DEF Request
  <2>4. Ready(y)
    BY <1>0, <1>1, <2>1, <2>2 DEF Request, Ready
  <2>5. Go(r, y) /\ UNCHANGED <<trades, events, keys, told, put>>
    BY <1>x, <1>1, <1>6, <2>1 DEF Insert
  <2>6. QED
    BY <2>3, <2>4, <2>5, GoStep
<1>7. QED
  BY <1>3, <1>4, <1>5, <1>6

(* Initially nothing is written.                                           *)
LEMMA DeskInit == Init => DeskInv /\ Once!Init
<1>. SUFFICES ASSUME Init PROVE DeskInv /\ Once!Init
  OBVIOUS
<1>1. /\ trades = <<>> /\ events = <<>> /\ Len(trades) = 0 /\ Len(events) = 0
      /\ trades \in Seq(Trade) /\ events \in Seq(Seq(TradeEvent)) /\ DOMAIN trades = {} /\ DOMAIN events = {}
  BY DEF Init
<1>2. Written = {}
  BY <1>1 DEF Written
<1>3. \A k \in Keys : EffectsOf(k) = {}
  BY <1>2 DEF EffectsOf
<1>4. Idle \in Request /\ Ready(Idle)
  BY <1>1, DeskAssumption DEF Idle, Request, Ready, Types
<1>5. TypeOK
  BY <1>1, <1>4, DeskAssumption DEF Init, TypeOK
<1>6. RequestsReady
  BY <1>4 DEF Init, RequestsReady
<1>7. KeysOK
  BY <1>3 DEF Init, KeysOK
<1>8. LatestIsNewest /\ Follows
  BY <1>1 DEF LatestIsNewest, Follows, RowsOwn, RowFollowsStream
<1>9. Once!Init
  BY <1>3 DEF Init, Once!Init
<1>10. QED
  BY <1>5, <1>6, <1>7, <1>8, <1>9 DEF DeskInv

(* Every step keeps the invariant, and is a step of the promise or none.   *)
LEMMA DeskStep == DeskInv /\ [Next]_vars => DeskInv' /\ Promised
<1>. SUFFICES ASSUME DeskInv, [Next]_vars PROVE DeskInv' /\ Promised
  OBVIOUS
<1>1. ASSUME NEW ref \in Refs, Create(ref) PROVE DeskInv' /\ Promised
  BY <1>1, CreateStep
<1>2. ASSUME NEW t \in DOMAIN trades, NEW status \in PutStatuses, PutStatus(t, status)
      PROVE  DeskInv' /\ Promised
  BY <1>2, PutStep
<1>3. ASSUME NEW r \in Requests, NEW k \in Keys \union {NoKey}, NEW ref \in Refs, Book(r, k, ref)
      PROVE  DeskInv' /\ Promised
  BY <1>3, Arrivals
<1>4. ASSUME NEW r \in Requests, NEW k \in Keys \union {NoKey}, NEW t \in DOMAIN trades,
             NEW type \in {"CONFIRMED", "CANCELLED"}, Lifecycle(r, k, t, type)
      PROVE  DeskInv' /\ Promised
  BY <1>4, Arrivals
<1>5. ASSUME NEW r \in Requests, NEW t \in DOMAIN trades, NEW a \in Appends, AppendEvent(r, t, a[1], a[2])
      PROVE  DeskInv' /\ Promised
  BY <1>5, AppendArrives
<1>6. ASSUME NEW r \in Requests, CommitBooking(r) PROVE DeskInv' /\ Promised
  <2>1. CASE Refuse(r)
    BY <2>1, RefuseStep
  <2>2. CASE KeyTaken(r)
    BY <2>2, KeyTakenStep
  <2>3. CASE Booked(r)
    BY <1>6, <2>3, BookedStep DEF CommitBooking
  <2>4. QED
    BY <1>6, <2>1, <2>2, <2>3 DEF CommitBooking
<1>7. ASSUME NEW r \in Requests, CommitTransition(r) PROVE DeskInv' /\ Promised
  <2>1. CASE Refuse(r)
    BY <2>1, RefuseStep
  <2>2. CASE KeyTaken(r)
    BY <2>2, KeyTakenStep
  <2>3. CASE Transitioned(r)
    BY <1>7, <2>3, TransitionedStep DEF CommitTransition
  <2>4. QED
    BY <1>7, <2>1, <2>2, <2>3 DEF CommitTransition
<1>8. ASSUME NEW r \in Requests, Load(r) \/ Fold(r) \/ Insert(r) PROVE DeskInv' /\ Promised
  BY <1>8, QueryStep
<1>9. ASSUME NEW r \in Requests, CommitAppend(r) PROVE DeskInv' /\ Promised
  BY <1>9, AppendStep
<1>10. CASE UNCHANGED vars
  <2>1. Moves /\ UNCHANGED <<trades, events, keys, put>> /\ told' = told
    BY <1>10 DEF vars, Moves
  <2>2. QED
    BY <2>1, QuietStep
<1>11. QED
  BY <1>1, <1>2, <1>3, <1>4, <1>5, <1>6, <1>7, <1>8, <1>9, <1>10 DEF Next

(* The invariant holds always.                                             *)
LEMMA DeskInvAlways == Spec => []DeskInv
<1>1. Init => DeskInv
  BY DeskInit
<1>2. DeskInv /\ [Next]_vars => DeskInv'
  BY DeskStep
<1>3. QED
  BY <1>1, <1>2, PTL DEF Spec

----------------------------------------------------------------------------
(* The tables and the requests hold what they are declared to hold; a row  *)
(* points at an event that exists, however stale what its writer had read. *)
THEOREM DeskTypeCorrect == Spec => []TypeOK
<1>1. DeskInv => TypeOK
  BY DEF DeskInv
<1>2. QED
  BY <1>1, DeskInvAlways, PTL

(* The pointer of a row that its routes maintain never moves back.         *)
THEOREM DeskLatestIsNewest == Spec => []LatestIsNewest
<1>1. DeskInv => LatestIsNewest
  BY DEF DeskInv
<1>2. QED
  BY <1>1, DeskInvAlways, PTL

(* A row that only routes writing both have written is what its stream     *)
(* folds to, however confirmations and cancellations race.                 *)
THEOREM DeskRowFollowsStream == Spec => []RowFollowsStream
<1>1. DeskInv => RowFollowsStream
  BY DEF DeskInv, Follows
<1>2. QED
  BY <1>1, DeskInvAlways, PTL

(* Idempotency keys keep what AtMostOnce promises: what is sent under a key*)
(* takes effect once, and every caller answered is told of that.           *)
THEOREM DeskKeysAtMostOnce == Spec => KeysAtMostOnce
<1>1. Init => Once!Init
  BY DeskInit
<1>2. DeskInv /\ [Next]_vars => [Once!Next]_<<[k \in Keys |-> EffectsOf(k)], told>>
  BY DeskStep DEF Promised
<1>3. QED
  BY <1>1, <1>2, DeskInvAlways, PTL DEF Spec, KeysAtMostOnce, Once!Spec
===============================================================================
