--------------------------- MODULE TradeCardsProofs ---------------------------
(* Theorems about the trade cards, for any firms' people, terms, requests  *)
(* and bounds.                                                             *)
EXTENDS TradeCards, SequenceTheorems, TLAPS

(* What a request holds at each step.  On, Src: the trades it is about     *)
(* exist, and the one it mirrors is of the other firm.  What it may still  *)
(* write to was booked by hand.                                            *)
Writes(x) == x.pc \in {"anchor", "confirm", "link", "edit", "cancel", "put"} \/ (x.pc = "post" /\ x.fresh)

Placed(x) ==
  /\ x.pc # "idle" => x.by \in People
  /\ x.pc \in {"post", "anchor", "confirm", "link", "edit", "cancel", "put"} => x.on \in DOMAIN trades
  /\ x.pc \in {"mirror", "link", "book"} => x.src \in DOMAIN trades /\ Faces(x.by, x.src)
  /\ x.pc \in {"anchor", "confirm"} => Faces(x.by, x.on)
  /\ x.pc = "link" => x.by = trades[x.on].owner
  /\ x.pc = "post" /\ ~x.fresh => trades[x.on].uti # NoUti
  /\ Writes(x) => trades[x.on].how = "byHand"

(* And the record it is about, on the registry once it is confirmed; what  *)
(* links or books copies an attestation of its source.                     *)
Carries(x) ==
  /\ x.pc \in {"post", "anchor", "confirm", "link", "book"} => x.hash \in Hashes
  /\ x.pc \in {"post", "link", "book"} => x.uti \in Utis
  /\ x.pc \in {"book", "edit"} => x.terms \in Terms
  /\ x.pc = "book" => x.hash = Canonical(x.uti, x.terms)
  /\ x.pc = "confirm" => x.hash \in anchored
  /\ x.pc \in {"link", "book"} => \E m \in DOMAIN events[x.src] : events[x.src][m].hash = x.hash

RequestsOK == \A r \in Requests : Placed(request[r]) /\ Carries(request[r])

(* A UTI drawn in a session and not committed yet is nobody else's.        *)
Draws(x) == x.pc = "post" /\ x.fresh
Spreads(x) == x.pc \in {"link", "book"} \/ Draws(x)

UncommittedIsOwn ==
  \A r \in Requests : Draws(request[r]) =>
    /\ \A i \in DOMAIN trades : trades[i].uti # request[r].uti
    /\ \A s \in Requests : s # r /\ Spreads(request[s]) => request[s].uti # request[r].uti

(* A trade on a card has a UTI.                                            *)
CardsNamed == \A n \in DOMAIN cards : trades[cards[n].trade].uti # NoUti

CardsInv ==
  /\ TypeOK /\ RequestsOK /\ UncommittedIsOwn /\ CardsNamed
  /\ OneBookingPerUti /\ MirrorBacked /\ MirrorIsTheRecord


----------------------------------------------------------------------------
(* An append keeps the entries there are and adds one.                     *)
LEMMA AppendSeq ==
  ASSUME NEW S, NEW s \in Seq(S), NEW e \in S
  PROVE  /\ Append(s, e) \in Seq(S) /\ Len(Append(s, e)) = Len(s) + 1
         /\ Len(s) \in Nat /\ DOMAIN s = 1..Len(s) /\ DOMAIN Append(s, e) = 1..(Len(s) + 1)
         /\ \A n \in DOMAIN s : n # Len(s) + 1 /\ n \in DOMAIN Append(s, e) /\ Append(s, e)[n] = s[n]
         /\ Append(s, e)[Len(s) + 1] = e
<1>1. Append(s, e) \in Seq(S) /\ Len(Append(s, e)) = Len(s) + 1
      /\ \A n \in 1..Len(s) : Append(s, e)[n] = s[n]
      /\ Append(s, e)[Len(s) + 1] = e
  BY AppendProperties
<1>2. Len(s) \in Nat /\ DOMAIN s = 1..Len(s)
  BY LenProperties
<1>3. DOMAIN Append(s, e) = 1..(Len(s) + 1)
  BY <1>1, LenProperties
<1>4. QED
  BY <1>1, <1>2, <1>3

(* An update of one entry keeps the others.                                *)
LEMMA UpdateSeq ==
  ASSUME NEW S, NEW s \in Seq(S), NEW i \in DOMAIN s, NEW e \in S
  PROVE  /\ [s EXCEPT ![i] = e] \in Seq(S) /\ Len([s EXCEPT ![i] = e]) = Len(s)
         /\ DOMAIN [s EXCEPT ![i] = e] = DOMAIN s /\ DOMAIN s = 1..Len(s) /\ Len(s) \in Nat
         /\ [s EXCEPT ![i] = e][i] = e
         /\ \A j \in DOMAIN s : j # i => [s EXCEPT ![i] = e][j] = s[j]
<1>1. DOMAIN s = 1..Len(s) /\ Len(s) \in Nat
  BY LenProperties
<1>2. i \in 1..Len(s)
  BY <1>1
<1>3. /\ [s EXCEPT ![i] = e] \in Seq(S) /\ Len([s EXCEPT ![i] = e]) = Len(s)
      /\ \A j \in 1..Len(s) : [s EXCEPT ![i] = e][j] = IF j = i THEN e ELSE s[j]
  BY <1>2, ExceptSeq
<1>4. QED
  BY <1>1, <1>2, <1>3

(* The tables, row by row.                                                 *)
LEMMA Rows ==
  ASSUME TypeOK
  PROVE  /\ Len(trades) \in Nat /\ DOMAIN trades = 1..Len(trades) /\ DOMAIN events = 1..Len(trades)
         /\ \A i \in DOMAIN trades :
              /\ trades[i] \in Trade /\ events[i] \in Seq(AttestedEvent)
              /\ DOMAIN events[i] = 1..Len(events[i]) /\ Len(events[i]) \in Nat
              /\ \A n \in DOMAIN events[i] : events[i][n] \in AttestedEvent
         /\ DOMAIN cards = 1..Len(cards) /\ Len(cards) \in Nat
         /\ \A n \in DOMAIN cards : cards[n].trade \in DOMAIN trades /\ cards[n].hash \in Hashes
<1>1. /\ Len(trades) \in Nat /\ DOMAIN trades = 1..Len(trades)
      /\ \A i \in DOMAIN trades : trades[i] \in Trade
  BY LenProperties DEF TypeOK
<1>2. /\ DOMAIN events = 1..Len(trades)
      /\ \A i \in DOMAIN events : events[i] \in Seq(AttestedEvent)
  BY LenProperties DEF TypeOK
<1>3. ASSUME NEW i \in DOMAIN trades
      PROVE  /\ DOMAIN events[i] = 1..Len(events[i]) /\ Len(events[i]) \in Nat
             /\ \A n \in DOMAIN events[i] : events[i][n] \in AttestedEvent
  <2>1. events[i] \in Seq(AttestedEvent)
    BY <1>1, <1>2
  <2>2. QED
    BY <2>1, LenProperties
<1>4. /\ DOMAIN cards = 1..Len(cards) /\ Len(cards) \in Nat
      /\ \A n \in DOMAIN cards : cards[n].trade \in 1..Len(trades) /\ cards[n].hash \in Hashes
  <2>. DEFINE Card == [trade : 1..Len(trades), hash : Hashes]
  <2>1. cards \in Seq(Card)
    BY DEF TypeOK
  <2>2. cards \in [1..Len(cards) -> Card] /\ Len(cards) \in Nat /\ DOMAIN cards = 1..Len(cards)
    <3>. HIDE DEF Card
    <3>. QED
      BY <2>1, LenProperties
  <2>3. QED
    BY <2>2
<1>5. QED
  BY <1>1, <1>2, <1>3, <1>4

(* What a step may never do to the tables: rows stay, keep their owner and *)
(* their origin and do not lose their UTI; events and anchors only gain.   *)
Grows ==
  /\ drawn' \in Nat /\ drawn <= drawn'
  /\ anchored \subseteq anchored'
  /\ \A i \in DOMAIN trades :
       /\ i \in DOMAIN trades'
       /\ trades'[i].owner = trades[i].owner /\ trades'[i].how = trades[i].how
       /\ trades[i].uti # NoUti => trades'[i].uti # NoUti
       /\ \A n \in DOMAIN events[i] : n \in DOMAIN events'[i] /\ events'[i][n] = events[i][n]

(* With more UTIs drawn or trades booked every column still fits.          *)
LEMMA Widens ==
  ASSUME TypeOK, drawn' \in Nat, drawn <= drawn', Len(trades') \in Nat, Len(trades) <= Len(trades')
  PROVE  /\ Hashes \subseteq Hashes' /\ Utis \subseteq Utis'
         /\ trades \in Seq(Trade') /\ events \in Seq(Seq(AttestedEvent'))
         /\ cards \in Seq([trade : 1..Len(trades'), hash : Hashes'])
         /\ anchored \subseteq Hashes' /\ request \in [Requests -> Request']
<1>0. Len(trades) \in Nat /\ drawn \in Nat
  BY Rows DEF TypeOK
<1>1. Utis \subseteq Utis'
  BY <1>0 DEF Utis
<1>2. Hashes \subseteq Hashes'
  BY <1>1 DEF Hashes
<1>3. 1..Len(trades) \subseteq 1..Len(trades') /\ 0..Len(trades) \subseteq 0..Len(trades')
  BY <1>0
<1>4. Trade \subseteq Trade'
  BY <1>1 DEF Trade
<1>5. AttestedEvent \subseteq AttestedEvent'
  BY <1>2, <1>3 DEF AttestedEvent
<1>6. Request \subseteq Request'
  BY <1>1, <1>2, <1>3 DEF Request
<1>7. trades \in Seq(Trade')
  BY <1>4, SeqMonotonic DEF TypeOK
<1>8. Seq(AttestedEvent) \subseteq Seq(AttestedEvent')
  BY <1>5, SeqMonotonic
<1>9. events \in Seq(Seq(AttestedEvent'))
  BY <1>8, SeqMonotonic DEF TypeOK
<1>10. [trade : 1..Len(trades), hash : Hashes] \subseteq [trade : 1..Len(trades'), hash : Hashes']
  BY <1>2, <1>3
<1>11. cards \in Seq([trade : 1..Len(trades'), hash : Hashes'])
  BY <1>10, SeqMonotonic DEF TypeOK
<1>12. request \in [Requests -> Request']
  BY <1>6 DEF TypeOK
<1>13. QED
  BY <1>1, <1>2, <1>7, <1>9, <1>11, <1>12 DEF TypeOK


(* The tables are left alone.                                              *)
LEMMA Untouched ==
  ASSUME TypeOK, UNCHANGED <<trades, events>>,
         drawn' \in Nat, drawn <= drawn', anchored \subseteq anchored', anchored' \subseteq Hashes',
         arrived' \in 0..MaxArrivals, UNCHANGED cards,
         NEW r \in Requests, NEW y \in Request', request' = [request EXCEPT ![r] = y]
  PROVE  TypeOK' /\ Grows
<1>1. Len(trades') = Len(trades) /\ Len(trades) \in Nat
  BY Rows
<1>2. request' \in [Requests -> Request']
  BY Widens, <1>1
<1>3. /\ trades' \in Seq(Trade') /\ events' \in Seq(Seq(AttestedEvent')) /\ Len(events') = Len(trades')
      /\ cards' \in Seq([trade : 1..Len(trades'), hash : Hashes'])
  BY Widens, <1>1 DEF TypeOK
<1>4. TypeOK'
  BY <1>2, <1>3 DEF TypeOK
<1>5. QED
  BY <1>4 DEF Grows

(* One row is added, with its events.                                      *)
LEMMA Added ==
  ASSUME TypeOK, UNCHANGED <<drawn, arrived, cards>>, anchored' = anchored,
         NEW row \in Trade, NEW es, trades' = Append(trades, row), events' = Append(events, es),
         es \in Seq(AttestedEvent'),
         request' \in [Requests -> Request']
  PROVE  /\ TypeOK' /\ Grows /\ Len(trades') = Len(trades) + 1
         /\ DOMAIN trades' = 1..(Len(trades) + 1) /\ DOMAIN events' = DOMAIN trades'
         /\ trades'[Len(trades) + 1] = row /\ events'[Len(trades) + 1] = es
         /\ \A j \in DOMAIN trades : j # Len(trades) + 1 /\ trades'[j] = trades[j] /\ events'[j] = events[j]
<1>1. /\ trades' \in Seq(Trade) /\ Len(trades') = Len(trades) + 1 /\ Len(trades) \in Nat
      /\ DOMAIN trades' = 1..(Len(trades) + 1) /\ trades'[Len(trades) + 1] = row
      /\ \A j \in DOMAIN trades : j # Len(trades) + 1 /\ j \in DOMAIN trades' /\ trades'[j] = trades[j]
  BY AppendSeq DEF TypeOK
<1>2. events \in Seq(Seq(AttestedEvent')) /\ cards \in Seq([trade : 1..Len(trades'), hash : Hashes'])
  BY Widens, <1>1 DEF TypeOK
<1>3. /\ events' \in Seq(Seq(AttestedEvent')) /\ Len(events') = Len(events) + 1
      /\ DOMAIN events' = 1..(Len(events) + 1) /\ events'[Len(events) + 1] = es
      /\ \A j \in DOMAIN events : events'[j] = events[j]
  BY <1>2, AppendSeq
<1>4. Len(events) = Len(trades) /\ DOMAIN events = DOMAIN trades
  BY Rows DEF TypeOK
<1>5. Trade' = Trade /\ Hashes' = Hashes
  BY DEF Trade, Hashes, Utis
<1>6. TypeOK'
  BY <1>1, <1>2, <1>3, <1>4, <1>5 DEF TypeOK
<1>7. Grows
  BY <1>1, <1>3, <1>4 DEF Grows, TypeOK
<1>8. QED
  BY <1>1, <1>3, <1>4, <1>6, <1>7


----------------------------------------------------------------------------
(* A session with nothing in it is always in order.                        *)
LEMMA IdleOK ==
  /\ Idle \in Request /\ Idle \in Request'
  /\ Placed(Idle) /\ Carries(Idle) /\ Placed(Idle)' /\ Carries(Idle)'
  /\ ~Spreads(Idle)
BY DEF Idle, Request, Placed, Carries, Writes, Spreads, Draws, Statuses

(* A step of another request leaves a request as good as it was.           *)
LEMMA RequestKept ==
  ASSUME TypeOK, Grows, NEW x \in Request, Placed(x), Carries(x)
  PROVE  Placed(x)' /\ Carries(x)'
<1>1. /\ x.on \in DOMAIN trades => /\ x.on \in DOMAIN trades' /\ trades'[x.on].owner = trades[x.on].owner
                                   /\ trades'[x.on].how = trades[x.on].how
                                   /\ trades[x.on].uti # NoUti => trades'[x.on].uti # NoUti
      /\ x.src \in DOMAIN trades => x.src \in DOMAIN trades' /\ trades'[x.src].owner = trades[x.src].owner
  BY DEF Grows
<1>2. Placed(x)'
  <2>1. Writes(x) => x.on \in DOMAIN trades
    BY DEF Placed, Writes
  <2>2. QED
    BY <1>1, <2>1 DEF Placed, Writes, Faces
<1>3. Utis \subseteq Utis' /\ anchored \subseteq anchored'
  BY DEF Grows, Utis, TypeOK
<1>4. Hashes \subseteq Hashes'
  BY <1>3 DEF Hashes
<1>5. ASSUME x.src \in DOMAIN trades, NEW m \in DOMAIN events[x.src]
      PROVE  m \in DOMAIN events'[x.src] /\ events'[x.src][m] = events[x.src][m]
  BY <1>5 DEF Grows
<1>6. x.pc \in {"link", "book"} => \E m \in DOMAIN events'[x.src] : events'[x.src][m].hash = x.hash
  BY <1>5 DEF Placed, Carries
<1>7. Carries(x)'
  BY <1>3, <1>4, <1>6 DEF Carries, Canonical
<1>8. QED
  BY <1>2, <1>7

(* What the request that moves turns into is all there is to check.        *)
LEMMA RequestsStep ==
  ASSUME TypeOK, RequestsOK, Grows, NEW r \in Requests, NEW y,
         request' = [request EXCEPT ![r] = y], Placed(y)', Carries(y)'
  PROVE  RequestsOK'
<1>. SUFFICES ASSUME NEW s \in Requests PROVE (Placed(request[s]) /\ Carries(request[s]))'
  BY DEF RequestsOK
<1>. PICK z : z = request'[s]
  OBVIOUS
<1>1. CASE s = r
  <2>1. z = y
    BY <1>1 DEF TypeOK
  <2>2. Placed(z)' /\ Carries(z)'
    BY <2>1
  <2>3. QED
    BY <2>2 DEF Placed, Carries, Writes, Faces
<1>2. CASE s # r
  <2>1. z = request[s] /\ z \in Request
    BY <1>2 DEF TypeOK
  <2>2. Placed(z) /\ Carries(z)
    BY <2>1 DEF RequestsOK
  <2>3. Placed(z)' /\ Carries(z)'
    BY <2>1, <2>2, RequestKept
  <2>4. QED
    BY <2>3 DEF Placed, Carries, Writes, Faces
<1>3. QED
  BY <1>1, <1>2

(* A fresh UTI stays apart: rows get their own, or that of the request     *)
(* that moves; requests take one from a row, or draw one.                  *)
LEMMA UncommittedStep ==
  ASSUME TypeOK, RequestsOK, UncommittedIsOwn, NEW r \in Requests, NEW y,
         request' = [request EXCEPT ![r] = y],
         \A i \in DOMAIN trades' :
           \/ trades'[i].uti = NoUti
           \/ \E j \in DOMAIN trades : trades'[i].uti = trades[j].uti
           \/ Spreads(request[r]) /\ trades'[i].uti = request[r].uti,
         Spreads(y) => y.uti \notin Utis \/ \E j \in DOMAIN trades : y.uti = trades[j].uti,
         Draws(y) => y.uti \notin Utis \union {NoUti} /\ trades' = trades
  PROVE  UncommittedIsOwn'
<1>1. /\ request \in [Requests -> Request] /\ request'[r] = y
      /\ \A s \in Requests \ {r} : request'[s] = request[s]
  BY DEF TypeOK
<1>2. ASSUME NEW s \in Requests, Spreads(request[s]) PROVE request[s].uti \in Utis
  BY <1>2 DEF RequestsOK, Carries, Spreads, Draws
<1>3. \A i \in DOMAIN trades : trades[i].uti \in Utis \union {NoUti}
  BY Rows DEF Trade
<1>4. NoUti \notin Utis
  BY DEF NoUti, Utis, TypeOK
<1>. SUFFICES ASSUME NEW q \in Requests, Draws(request'[q])
              PROVE  /\ \A i \in DOMAIN trades' : trades'[i].uti # request'[q].uti
                     /\ \A s \in Requests : s # q /\ Spreads(request'[s]) => request'[s].uti # request'[q].uti
  BY DEF UncommittedIsOwn, Draws, Spreads
<1>5. CASE q = r
  <2>1. Draws(y) /\ y.uti \notin Utis \union {NoUti} /\ trades' = trades
    BY <1>5, <1>1
  <2>2. \A i \in DOMAIN trades' : trades'[i].uti # y.uti
    BY <2>1, <1>3
  <2>3. \A s \in Requests : s # q /\ Spreads(request'[s]) => request'[s].uti # y.uti
    BY <1>1, <1>2, <1>5, <2>1
  <2>4. QED
    BY <1>1, <1>5, <2>2, <2>3
<1>6. CASE q # r
  <2>. PICK u : u = request[q].uti
    OBVIOUS
  <2>1. /\ request'[q] = request[q] /\ Draws(request[q]) /\ Spreads(request[q]) /\ u \in Utis
        /\ \A i \in DOMAIN trades : trades[i].uti # u
        /\ \A s \in Requests : s # q /\ Spreads(request[s]) => request[s].uti # u
    BY <1>1, <1>2, <1>6 DEF UncommittedIsOwn, Spreads
  <2>2. \A i \in DOMAIN trades' : trades'[i].uti # u
    BY <2>1, <1>4, <1>6
  <2>3. Spreads(y) => y.uti # u
    BY <2>1
  <2>4. \A s \in Requests : s # q /\ Spreads(request'[s]) => request'[s].uti # u
    BY <1>1, <2>1, <2>3
  <2>5. QED
    BY <2>1, <2>2, <2>4
<1>7. QED
  BY <1>5, <1>6


----------------------------------------------------------------------------
(* A step that leaves the tables alone, but for what it anchors.           *)
LEMMA QuietStep ==
  ASSUME CardsInv, UNCHANGED <<trades, events, cards>>,
         drawn' \in Nat, drawn <= drawn', anchored \subseteq anchored', anchored' \subseteq Hashes',
         arrived' \in 0..MaxArrivals,
         NEW r \in Requests, NEW y \in Request', request' = [request EXCEPT ![r] = y],
         Placed(y)', Carries(y)',
         Spreads(y) => y.uti \notin Utis \/ \E j \in DOMAIN trades : y.uti = trades[j].uti,
         Draws(y) => y.uti \notin Utis \union {NoUti}
  PROVE  CardsInv'
<1>1. TypeOK' /\ Grows
  BY Untouched DEF CardsInv
<1>2. RequestsOK'
  BY <1>1, RequestsStep DEF CardsInv
<1>3. UncommittedIsOwn'
  BY UncommittedStep DEF CardsInv
<1>4. CardsNamed' /\ OneBookingPerUti' /\ MirrorIsTheRecord'
  BY DEF CardsInv, CardsNamed, OneBookingPerUti, MirrorIsTheRecord, Attested, Hash, Attestation
<1>5. MirrorBacked'
  BY DEF CardsInv, MirrorBacked
<1>6. QED
  BY <1>1, <1>2, <1>3, <1>4, <1>5 DEF CardsInv

(* What an event written to a trade of u has to rest on.                   *)
Backed(u, e) ==
  /\ e.hash \in anchored
  /\ e.how # "signed" =>
       /\ e.src \in DOMAIN trades /\ Firm[u] # Firm[trades[e.src].owner]
       /\ \E m \in DOMAIN events[e.src] : events[e.src][m].hash = e.hash

(* It still rests on it when the tables have grown.                        *)
LEMMA BackedStep ==
  ASSUME TypeOK, Grows, anchored' = anchored,
         \A j \in DOMAIN events' : \A n \in DOMAIN events'[j] : Backed(trades'[j].owner, events'[j][n])
  PROVE  MirrorBacked'
<1>1. ASSUME NEW u, NEW e, Backed(u, e)
      PROVE  /\ e.hash \in anchored'
             /\ e.how # "signed" =>
                  /\ Firm[u] # Firm[trades'[e.src].owner]
                  /\ \E m \in DOMAIN events'[e.src] : events'[e.src][m].hash = e.hash
  BY <1>1 DEF Grows, Backed
<1>2. QED
  BY <1>1 DEF MirrorBacked

(* MirrorBacked, event by event.                                           *)
LEMMA EventsBacked ==
  ASSUME TypeOK, MirrorBacked, NEW i \in DOMAIN trades, NEW n \in DOMAIN events[i]
  PROVE  Backed(trades[i].owner, events[i][n])
<1>1. i \in DOMAIN events /\ events[i][n] \in AttestedEvent /\ DOMAIN trades = 1..Len(trades)
  BY Rows
<1>2. events[i][n].src \in DOMAIN trades
  BY <1>1 DEF AttestedEvent
<1>3. QED
  BY <1>1, <1>2 DEF MirrorBacked, Backed

(* Request r writes row i, with an event or a card, and ends as y.         *)
WritesRow(r, y, i, row, es) ==
  /\ UNCHANGED <<drawn, arrived>> /\ anchored' = anchored
  /\ trades' = [trades EXCEPT ![i] = row] /\ events' = [events EXCEPT ![i] = es]
  /\ request' = [request EXCEPT ![r] = y]
  /\ y \in Request /\ Placed(y)' /\ Carries(y)' /\ ~Spreads(y)
  /\ row \in Trade /\ row.owner = trades[i].owner /\ row.how = trades[i].how
  /\ \/ trades[i].how = "byHand"
     \/ row = trades[i] /\ es = events[i]
  /\ \/ row.uti = trades[i].uti
     \/ /\ Spreads(request[r]) /\ row.uti = request[r].uti /\ row.uti # NoUti
        /\ \A j \in DOMAIN trades : j # i /\ trades[j].owner = row.owner => trades[j].uti # row.uti
  /\ es \in Seq(AttestedEvent)
  /\ \A n \in DOMAIN events[i] : n \in DOMAIN es /\ es[n] = events[i][n]
  /\ \A n \in DOMAIN es : n \in DOMAIN events[i] \/ Backed(row.owner, es[n])
  /\ cards' \in Seq([trade : 1..Len(trades), hash : Hashes])
  /\ \A n \in DOMAIN cards' : \/ n \in DOMAIN cards /\ cards'[n] = cards[n]
                              \/ cards'[n].trade = i /\ row.uti # NoUti

(* The tables after it.                                                    *)
LEMMA Written ==
  ASSUME TypeOK, NEW r \in Requests, NEW y, NEW i \in DOMAIN trades, NEW row, NEW es,
         WritesRow(r, y, i, row, es)
  PROVE  /\ TypeOK' /\ Grows
         /\ DOMAIN trades' = DOMAIN trades /\ DOMAIN events' = DOMAIN trades
         /\ trades'[i] = row /\ events'[i] = es
         /\ \A j \in DOMAIN trades : j # i => trades'[j] = trades[j] /\ events'[j] = events[j]
<1>0. /\ UNCHANGED <<drawn, arrived>> /\ anchored' = anchored
      /\ trades' = [trades EXCEPT ![i] = row] /\ events' = [events EXCEPT ![i] = es]
      /\ request' = [request EXCEPT ![r] = y] /\ y \in Request
      /\ row \in Trade /\ row.owner = trades[i].owner /\ row.how = trades[i].how
      /\ trades[i].uti # NoUti => row.uti # NoUti
      /\ es \in Seq(AttestedEvent)
      /\ \A n \in DOMAIN events[i] : n \in DOMAIN es /\ es[n] = events[i][n]
      /\ cards' \in Seq([trade : 1..Len(trades), hash : Hashes])
  BY DEF WritesRow
<1>1. /\ trades' \in Seq(Trade) /\ Len(trades') = Len(trades) /\ DOMAIN trades' = DOMAIN trades
      /\ trades'[i] = row /\ \A j \in DOMAIN trades : j # i => trades'[j] = trades[j]
  BY <1>0, UpdateSeq DEF TypeOK
<1>2. i \in DOMAIN events /\ DOMAIN events = DOMAIN trades
  BY Rows
<1>3. /\ events' \in Seq(Seq(AttestedEvent)) /\ Len(events') = Len(events) /\ DOMAIN events' = DOMAIN events
      /\ events'[i] = es /\ \A j \in DOMAIN events : j # i => events'[j] = events[j]
  BY <1>0, <1>2, UpdateSeq DEF TypeOK
<1>4. request' \in [Requests -> Request]
  BY <1>0 DEF TypeOK
<1>5. Trade' = Trade /\ AttestedEvent' = AttestedEvent /\ Request' = Request /\ Hashes' = Hashes
  BY <1>0, <1>1 DEF Trade, AttestedEvent, Request, Hashes, Utis
<1>6. TypeOK'
  BY <1>0, <1>1, <1>3, <1>4, <1>5 DEF TypeOK
<1>7. Grows
  BY <1>0, <1>1, <1>2, <1>3, Rows DEF Grows, TypeOK
<1>8. QED
  BY <1>1, <1>2, <1>3, <1>6, <1>7

(* A row that is written keeps the invariant.                              *)
LEMMA WriteStep ==
  ASSUME CardsInv, NEW r \in Requests, NEW y, NEW i \in DOMAIN trades, NEW row, NEW es,
         WritesRow(r, y, i, row, es)
  PROVE  CardsInv'
<1>0. /\ request' = [request EXCEPT ![r] = y] /\ Placed(y)' /\ Carries(y)' /\ ~Spreads(y)
      /\ anchored' = anchored /\ row.owner = trades[i].owner /\ row.how = trades[i].how
  BY DEF WritesRow
<1>1. /\ TypeOK' /\ Grows
      /\ DOMAIN trades' = DOMAIN trades /\ DOMAIN events' = DOMAIN trades
      /\ trades'[i] = row /\ events'[i] = es
      /\ \A j \in DOMAIN trades : j # i => trades'[j] = trades[j] /\ events'[j] = events[j]
  BY Written DEF CardsInv
<1>2. RequestsOK'
  BY <1>0, <1>1, RequestsStep DEF CardsInv
<1>3. \A j \in DOMAIN trades' :
           \/ trades'[j].uti = NoUti
           \/ \E k \in DOMAIN trades : trades'[j].uti = trades[k].uti
           \/ Spreads(request[r]) /\ trades'[j].uti = request[r].uti
  BY <1>1 DEF WritesRow
<1>4. UncommittedIsOwn'
  BY <1>0, <1>3, UncommittedStep DEF CardsInv, Spreads
<1>5. CardsNamed'
  BY <1>1, Rows DEF CardsInv, CardsNamed, Grows, WritesRow
<1>6. OneBookingPerUti'
  BY <1>1 DEF CardsInv, OneBookingPerUti, WritesRow
<1>7. MirrorIsTheRecord'
  BY <1>1 DEF WritesRow, CardsInv, MirrorIsTheRecord, Attested, Hash, Attestation
<1>8. ASSUME NEW j \in DOMAIN events', NEW n \in DOMAIN events'[j]
      PROVE  Backed(trades'[j].owner, events'[j][n])
  <2>1. j \in DOMAIN trades /\ trades'[j].owner = trades[j].owner
    BY <1>0, <1>1
  <2>2. CASE n \in DOMAIN events[j]
    <3>1. Backed(trades[j].owner, events[j][n])
      BY <2>1, <2>2, EventsBacked DEF CardsInv
    <3>2. QED
      BY <1>1, <2>1, <2>2, <3>1 DEF Grows
  <2>3. CASE n \notin DOMAIN events[j]
    BY <1>1, <2>1, <2>3 DEF WritesRow
  <2>4. QED
    BY <2>2, <2>3
<1>9. MirrorBacked'
  BY <1>0, <1>1, <1>8, BackedStep DEF CardsInv
<1>10. QED
  BY <1>1, <1>2, <1>4, <1>5, <1>6, <1>7, <1>9 DEF CardsInv

(* A row is added, with its events.                                        *)
LEMMA AddStep ==
  ASSUME CardsInv, UNCHANGED <<drawn, arrived, cards>>, anchored' = anchored,
         NEW row \in Trade, NEW es, es \in Seq(AttestedEvent'),
         trades' = Append(trades, row), events' = Append(events, es),
         \A n \in DOMAIN es : Backed(row.owner, es[n]),
         row.how = "mirror" => /\ row.status = "CONFIRMED"
                               /\ es # <<>> /\ Canonical(row.uti, row.terms) = Last(es).hash,
         request' \in [Requests -> Request'],
         RequestsOK', UncommittedIsOwn',
         row.uti = NoUti \/ \A j \in DOMAIN trades : trades[j].owner = row.owner => trades[j].uti # row.uti
  PROVE  CardsInv'
<1>. DEFINE k == Len(trades) + 1
<1>1. /\ TypeOK' /\ Grows
      /\ DOMAIN trades' = 1..k /\ DOMAIN events' = DOMAIN trades'
      /\ trades'[k] = row /\ events'[k] = es
      /\ \A j \in DOMAIN trades : j # k /\ trades'[j] = trades[j] /\ events'[j] = events[j]
  BY Added DEF CardsInv
<1>2. DOMAIN trades = 1..Len(trades) /\ Len(trades) \in Nat
  BY Rows DEF CardsInv
<1>3. \A j \in DOMAIN trades' : j = k \/ j \in DOMAIN trades
  BY <1>1, <1>2
<1>. HIDE DEF k
<1>4. CardsNamed'
  BY <1>1, Rows DEF CardsInv, CardsNamed, Grows
<1>5. OneBookingPerUti'
  BY <1>1, <1>3 DEF CardsInv, OneBookingPerUti
<1>6. MirrorIsTheRecord'
  <2>1. Canonical(row.uti, row.terms)[1] = row.uti
    BY DEF Canonical
  <2>2. ASSUME NEW j \in DOMAIN trades', trades'[j].how = "mirror"
        PROVE  /\ trades'[j].status = "CONFIRMED" /\ events'[j] # <<>>
               /\ trades'[j].uti = Last(events'[j]).hash[1]
               /\ ~trades'[j].loose => Canonical(trades'[j].uti, trades'[j].terms) = Last(events'[j]).hash
    <3>1. CASE j = k
      BY <1>1, <2>1, <2>2, <3>1
    <3>2. CASE j \in DOMAIN trades
      <4>1. /\ trades[j].status = "CONFIRMED" /\ events[j] # <<>>
            /\ trades[j].uti = Last(events[j]).hash[1]
            /\ ~trades[j].loose => Canonical(trades[j].uti, trades[j].terms) = Last(events[j]).hash
        BY <1>1, <2>2, <3>2 DEF CardsInv, MirrorIsTheRecord, Attested, Hash, Attestation
      <4>2. QED
        BY <1>1, <3>2, <4>1
    <3>3. QED
      BY <1>3, <2>2, <3>1, <3>2
  <2>3. QED
    BY <2>2 DEF MirrorIsTheRecord, Attested, Hash, Attestation
<1>7. ASSUME NEW j \in DOMAIN events', NEW n \in DOMAIN events'[j]
      PROVE  Backed(trades'[j].owner, events'[j][n])
  <2>1. CASE j \in DOMAIN trades
    <3>1. n \in DOMAIN events[j]
      BY <1>1, <2>1
    <3>2. Backed(trades[j].owner, events[j][n])
      BY <2>1, <3>1, EventsBacked DEF CardsInv
    <3>3. QED
      BY <1>1, <2>1, <3>2
  <2>2. CASE j = k
    BY <1>1, <2>2
  <2>3. QED
    BY <1>1, <1>3, <2>1, <2>2
<1>8. MirrorBacked'
  BY <1>1, <1>7, BackedStep DEF CardsInv
<1>9. QED
  BY <1>1, <1>4, <1>5, <1>6, <1>8 DEF CardsInv


----------------------------------------------------------------------------
(* What a mirror is: confirmed, attested, with a UTI.                      *)
LEMMA MirrorRow ==
  ASSUME CardsInv, NEW i \in DOMAIN trades,
         trades[i].how # "byHand"
  PROVE  trades[i].status = "CONFIRMED" /\ Attested(i) /\ trades[i].uti \in Utis
<1>1. trades[i].how = "mirror" /\ events[i] \in Seq(AttestedEvent)
      /\ Len(events[i]) \in Nat /\ DOMAIN events[i] = 1..Len(events[i])
      /\ \A n \in DOMAIN events[i] : events[i][n] \in AttestedEvent
  BY Rows DEF Trade, CardsInv
<1>2. trades[i].status = "CONFIRMED" /\ events[i] # <<>> /\ trades[i].uti = Attestation(i)[1]
  BY <1>1 DEF CardsInv, MirrorIsTheRecord, Attested
<1>3. Len(events[i]) \in DOMAIN events[i]
  BY <1>1, <1>2, EmptySeq
<1>4. Attestation(i) \in Hashes
  BY <1>1, <1>3 DEF Attestation, Last, AttestedEvent
<1>5. trades[i].uti \in Utis
  BY <1>2, <1>4 DEF Hashes
<1>6. QED
  BY <1>2, <1>5 DEF Attested

(* What an attested trade attests to.                                      *)
LEMMA Attests ==
  ASSUME CardsInv, NEW i \in DOMAIN trades, Attested(i)
  PROVE  /\ Attestation(i) \in Hashes
         /\ \E m \in DOMAIN events[i] : events[i][m].hash = Attestation(i)
<1>1. /\ events[i] \in Seq(AttestedEvent)
      /\ Len(events[i]) \in Nat /\ DOMAIN events[i] = 1..Len(events[i])
      /\ \A n \in DOMAIN events[i] : events[i][n] \in AttestedEvent
  BY Rows DEF CardsInv
<1>2. Len(events[i]) \in DOMAIN events[i]
  BY <1>1, EmptySeq DEF Attested
<1>3. QED
  BY <1>1, <1>2 DEF Attestation, Last, AttestedEvent

(* What is known of a request under way.                                   *)
LEMMA RequestHolds ==
  ASSUME CardsInv, NEW r \in Requests
  PROVE  request[r] \in Request /\ Placed(request[r]) /\ Carries(request[r])
BY DEF CardsInv, TypeOK, RequestsOK

(* A request that comes in as y.                                           *)
LEMMA ArriveStep ==
  ASSUME CardsInv, NEW r \in Requests, NEW y, Arrive(r, y), y \in Request',
         drawn' \in Nat, drawn <= drawn',
         Placed(y), Carries(y)', y.pc \notin {"link", "book"},
         Draws(y) => y.uti \notin Utis \union {NoUti}
  PROVE  CardsInv'
<1>1. UNCHANGED <<trades, events, cards>> /\ anchored' = anchored
      /\ request' = [request EXCEPT ![r] = y] /\ arrived' \in 0..MaxArrivals
  BY TradeCardsAssumption DEF Arrive, Go, CardsInv, TypeOK
<1>2. anchored' \subseteq Hashes'
  <2>1. Hashes \subseteq Hashes'
    BY Widens, <1>1, Rows DEF CardsInv
  <2>2. QED
    BY <1>1, <2>1 DEF CardsInv, TypeOK
<1>3. Placed(y)'
  BY <1>1 DEF Placed, Writes, Faces
<1>4. Spreads(y) => Draws(y)
  BY DEF Spreads
<1>5. QED
  BY <1>1, <1>2, <1>3, <1>4, QuietStep

(* Sending and sharing: a UTI that is drawn is above all there are.        *)
LEMMA SendStep ==
  ASSUME CardsInv, NEW r \in Requests, NEW i \in DOMAIN trades, Send(r, i)
  PROVE  CardsInv'
<1>. DEFINE fresh == trades[i].uti = NoUti
            uti == IF fresh THEN drawn + 1 ELSE trades[i].uti
<1>. PICK y : y = [Idle EXCEPT !.pc = "post", !.by = trades[i].owner, !.on = i, !.fresh = fresh,
                               !.uti = uti, !.hash = Canonical(uti, trades[i].terms)]
  OBVIOUS
<1>1. drawn \in Nat /\ drawn' \in Nat /\ drawn <= drawn' /\ (fresh => drawn' = drawn + 1)
      /\ (~fresh => drawn' = drawn) /\ Arrive(r, y)
  BY DEF Send, CardsInv, TypeOK
<1>2. trades[i] \in Trade /\ i \in 0..Len(trades') /\ 0 \in 0..Len(trades') /\ trades' = trades
  BY <1>1, Rows DEF CardsInv, Arrive
<1>3. uti \in Utis'
  BY <1>1, <1>2 DEF Trade, Utis, NoUti
<1>4. Canonical(uti, trades[i].terms) \in Hashes'
  BY <1>2, <1>3 DEF Canonical, Hashes, Trade
<1>5. fresh => uti \notin Utis \union {NoUti}
  BY <1>1 DEF Utis, NoUti
<1>6. fresh => trades[i].how = "byHand"
  BY <1>1, MirrorRow DEF Utis, NoUti
<1>. HIDE DEF uti
<1>7. y \in Request'
  BY <1>2, <1>3, <1>4 DEF Request, Idle, Trade, Statuses
<1>8. Placed(y)
  BY <1>2, <1>6 DEF Placed, Writes, Idle, Trade
<1>9. Carries(y)'
  BY <1>3, <1>4 DEF Carries, Idle
<1>10. y.pc \notin {"link", "book"} /\ (Draws(y) => y.uti \notin Utis \union {NoUti})
  BY <1>5 DEF Idle, Draws
<1>11. QED
  BY <1>1, <1>7, <1>8, <1>9, <1>10, ArriveStep

(* Countersigning: the trade has a card, so it has a UTI.                  *)
LEMMA CountersignStep ==
  ASSUME CardsInv, NEW r \in Requests, NEW i \in DOMAIN trades, NEW u \in People, NEW mirror \in BOOLEAN,
         Countersign(r, u, i, mirror)
  PROVE  CardsInv'
<1>. PICK y : y = [Idle EXCEPT !.pc = "anchor", !.by = u, !.on = i, !.hash = Hash(i), !.mirror = mirror]
  OBVIOUS
<1>1. Arrive(r, y) /\ drawn' = drawn /\ drawn' \in Nat /\ drawn <= drawn'
  BY DEF Countersign, CardsInv, TypeOK
<1>2. trades[i] \in Trade /\ i \in 0..Len(trades') /\ 0 \in 0..Len(trades') /\ trades' = trades
  BY <1>1, Rows DEF CardsInv, Arrive
<1>3. trades[i].uti \in Utis
  BY <1>2, Rows DEF Countersign, HasCard, CardsInv, CardsNamed, Trade
<1>4. Hash(i) \in Hashes /\ Hashes' = Hashes
  BY <1>1, <1>2, <1>3 DEF Hash, Canonical, Hashes, Trade, Utis
<1>5. trades[i].how = "byHand"
  BY MirrorRow DEF Countersign
<1>6. y \in Request'
  BY <1>2, <1>4 DEF Request, Idle, Statuses
<1>7. Placed(y)
  BY <1>2, <1>5 DEF Placed, Writes, Idle, Countersign
<1>8. Carries(y)'
  BY <1>4 DEF Carries, Idle
<1>9. y.pc \notin {"link", "book"} /\ ~Draws(y)
  BY DEF Idle, Draws
<1>10. QED
  BY <1>1, <1>6, <1>7, <1>8, <1>9, ArriveStep

(* Booking from the card, an edit, a cancellation, the PUT of a status.    *)
LEMMA OthersArrive ==
  ASSUME CardsInv, NEW r \in Requests, NEW i \in DOMAIN trades,
         \/ \E u \in People : BookFromCard(r, u, i)
         \/ \E terms \in Terms : StartEdit(r, i, terms)
         \/ StartCancel(r, i)
         \/ \E status \in Statuses : StartPut(r, i, status)
  PROVE  CardsInv'
<1>0. trades[i] \in Trade /\ i \in 0..Len(trades) /\ 0 \in 0..Len(trades) /\ drawn \in Nat
  BY Rows DEF CardsInv, TypeOK
<1>1. ASSUME NEW u \in People, BookFromCard(r, u, i) PROVE CardsInv'
  <2>. PICK y : y = [Idle EXCEPT !.pc = "mirror", !.by = u, !.src = i]
    OBVIOUS
  <2>1. Arrive(r, y) /\ drawn' = drawn /\ Faces(u, i)
    BY <1>1 DEF BookFromCard
  <2>2. trades' = trades /\ drawn' \in Nat /\ drawn <= drawn'
    BY <1>0, <2>1 DEF Arrive
  <2>3. y \in Request'
    BY <1>0, <2>1, <2>2, IdleOK DEF Request, Idle
  <2>4. Placed(y) /\ Carries(y)' /\ y.pc = "mirror"
    BY <1>0, <2>1, <2>2, Rows DEF CardsInv, Idle, Placed, Carries, Writes
  <2>5. QED
    BY <2>1, <2>2, <2>3, <2>4, ArriveStep DEF Draws
<1>2. ASSUME NEW terms \in Terms, StartEdit(r, i, terms) PROVE CardsInv'
  <2>. PICK y : y = [Idle EXCEPT !.pc = "edit", !.by = trades[i].owner, !.on = i, !.terms = terms]
    OBVIOUS
  <2>1. Arrive(r, y) /\ drawn' = drawn /\ ~Attested(i)
    BY <1>2 DEF StartEdit
  <2>2. trades' = trades /\ drawn' \in Nat /\ drawn <= drawn' /\ trades[i].how = "byHand"
    BY <1>0, <2>1, MirrorRow DEF Arrive
  <2>3. y \in Request'
    BY <1>0, <2>1, <2>2, IdleOK DEF Request, Idle, Trade
  <2>4. Placed(y) /\ Carries(y)' /\ y.pc = "edit"
    BY <1>0, <2>1, <2>2, Rows DEF CardsInv, Idle, Placed, Carries, Writes, Trade
  <2>5. QED
    BY <2>1, <2>2, <2>3, <2>4, ArriveStep DEF Draws
<1>3. CASE StartCancel(r, i)
  <2>. PICK y : y = [Idle EXCEPT !.pc = "cancel", !.by = trades[i].owner, !.on = i]
    OBVIOUS
  <2>1. Arrive(r, y) /\ drawn' = drawn /\ trades[i].status = "PENDING"
    BY <1>3 DEF StartCancel
  <2>2. trades' = trades /\ drawn' \in Nat /\ drawn <= drawn' /\ trades[i].how = "byHand"
    BY <1>0, <2>1, MirrorRow DEF Arrive
  <2>3. y \in Request'
    BY <1>0, <2>1, <2>2, IdleOK DEF Request, Idle, Trade
  <2>4. Placed(y) /\ Carries(y)' /\ y.pc = "cancel"
    BY <1>0, <2>1, <2>2, Rows DEF CardsInv, Idle, Placed, Carries, Writes, Trade
  <2>5. QED
    BY <2>1, <2>2, <2>3, <2>4, ArriveStep DEF Draws
<1>4. ASSUME NEW status \in Statuses, StartPut(r, i, status) PROVE CardsInv'
  <2>. PICK y : y = [Idle EXCEPT !.pc = "put", !.by = trades[i].owner, !.on = i, !.status = status]
    OBVIOUS
  <2>1. Arrive(r, y) /\ drawn' = drawn /\ ~Attested(i)
    BY <1>4 DEF StartPut
  <2>2. trades' = trades /\ drawn' \in Nat /\ drawn <= drawn' /\ trades[i].how = "byHand"
    BY <1>0, <2>1, MirrorRow DEF Arrive
  <2>3. y \in Request'
    BY <1>0, <2>1, <2>2, IdleOK DEF Request, Idle, Trade
  <2>4. Placed(y) /\ Carries(y)' /\ y.pc = "put"
    BY <1>0, <2>1, <2>2, Rows DEF CardsInv, Idle, Placed, Carries, Writes, Trade
  <2>5. QED
    BY <2>1, <2>2, <2>3, <2>4, ArriveStep DEF Draws
<1>5. QED
  BY <1>1, <1>2, <1>3, <1>4


(* A request that goes on as y, or ends.                                   *)
LEMMA PassStep ==
  ASSUME CardsInv, NEW r \in Requests, NEW y, Go(r, y), y \in Request,
         UNCHANGED <<trades, events, cards, drawn, arrived>>,
         anchored \subseteq anchored', anchored' \subseteq Hashes,
         Placed(y), Carries(y)', ~Draws(y),
         Spreads(y) => \E j \in DOMAIN trades : y.uti = trades[j].uti
  PROVE  CardsInv'
<1>1. drawn' \in Nat /\ drawn <= drawn' /\ arrived' \in 0..MaxArrivals
  BY DEF CardsInv, TypeOK
<1>2. Request' = Request /\ Hashes' = Hashes
  BY DEF Request, Hashes, Utis
<1>3. Placed(y)'
  BY DEF Placed, Writes, Faces
<1>4. request' = [request EXCEPT ![r] = y]
  BY DEF Go
<1>5. QED
  BY <1>1, <1>2, <1>3, <1>4, QuietStep

(* A refusal or a failure rolls the session back.                          *)
LEMMA RefuseStep ==
  ASSUME CardsInv, NEW r \in Requests, Refuse(r)
  PROVE  CardsInv'
<1>1. /\ Go(r, Idle) /\ UNCHANGED <<trades, events, cards, drawn, arrived>>
      /\ anchored \subseteq anchored' /\ anchored' \subseteq Hashes
  BY DEF Refuse, CardsInv, TypeOK
<1>2. ~Draws(Idle)
  BY DEF Draws, Idle
<1>3. QED
  BY <1>1, <1>2, IdleOK, PassStep

(* The record reaches the registry before the confirmation.                *)
LEMMA AnchorStep ==
  ASSUME CardsInv, NEW r \in Requests, Anchor(r)
  PROVE  CardsInv'
<1>. PICK x : x = request[r]
  OBVIOUS
<1>. PICK y : y = [x EXCEPT !.pc = "confirm"]
  OBVIOUS
<1>1. x \in Request /\ Placed(x) /\ Carries(x) /\ x.pc = "anchor"
  BY RequestHolds DEF Anchor
<1>2. y \in Request /\ y.pc = "confirm" /\ y.by = x.by /\ y.on = x.on /\ y.hash = x.hash
  BY <1>1 DEF Request
<1>3. x.hash \in Hashes
  BY <1>1 DEF Carries
<1>4. /\ Go(r, y) /\ UNCHANGED <<trades, events, cards, drawn, arrived>>
      /\ anchored' = anchored \union {x.hash}
  BY DEF Anchor
<1>5. anchored \subseteq anchored' /\ anchored' \subseteq Hashes /\ Hashes' = Hashes
  BY <1>3, <1>4 DEF CardsInv, TypeOK, Hashes, Utis
<1>6. Placed(y)
  BY <1>1, <1>2 DEF Placed, Writes
<1>7. Carries(y)'
  BY <1>2, <1>3, <1>4, <1>5 DEF Carries
<1>8. ~Draws(y) /\ ~Spreads(y)
  BY <1>2 DEF Draws, Spreads
<1>9. QED
  BY <1>2, <1>4, <1>5, <1>6, <1>7, <1>8, PassStep

(* A mirror takes UTI, terms and hash from what it was attested with.      *)
LEMMA LookupStep ==
  ASSUME CardsInv, NEW r \in Requests, Lookup(r)
  PROVE  CardsInv'
<1>. PICK x : x = request[r]
  OBVIOUS
<1>. PICK h : h = Attestation(x.src)
  OBVIOUS
<1>1. /\ x \in Request /\ Placed(x) /\ x.pc = "mirror"
      /\ x.by \in People /\ x.src \in DOMAIN trades /\ Faces(x.by, x.src)
  BY RequestHolds DEF Lookup, Placed
<1>2. /\ trades[x.src] \in Trade /\ DOMAIN trades = 1..Len(trades)
      /\ \A i \in DOMAIN trades : i \in 0..Len(trades)
  BY <1>1, Rows DEF CardsInv
<1>3. CASE Refuse(r)
  BY <1>3, RefuseStep
<1>4. ASSUME Attested(x.src), BookAnew(r), ~Refuse(r) PROVE CardsInv'
  <2>. PICK y : y = [x EXCEPT !.pc = "book", !.uti = trades[x.src].uti,
                              !.terms = trades[x.src].terms, !.hash = h]
    OBVIOUS
  <2>1. Fits(trades[x.src].uti, trades[x.src].terms, h) /\ Pass(r, y)
    BY <1>4 DEF BookAnew
  <2>2. h \in Hashes /\ \E m \in DOMAIN events[x.src] : events[x.src][m].hash = h
    BY <1>1, <1>4, Attests
  <2>3. <<trades[x.src].uti, trades[x.src].terms>> = h /\ trades[x.src].uti \in Utis
        /\ trades[x.src].terms \in Terms
    BY <1>2, <2>1, <2>2 DEF Fits, Canonical, Hashes, Trade
  <2>4. /\ y.pc = "book" /\ y.uti = trades[x.src].uti /\ y.terms = trades[x.src].terms /\ y.hash = h
        /\ y.by = x.by /\ y.src = x.src
    BY <1>1 DEF Request
  <2>5. y \in Request
    BY <1>1, <2>2, <2>3 DEF Request
  <2>6. /\ Go(r, y) /\ UNCHANGED <<trades, events, cards, drawn, arrived>>
        /\ anchored' = anchored /\ anchored' \subseteq Hashes /\ Hashes' = Hashes /\ Utis' = Utis
    BY <2>1 DEF Pass, CardsInv, TypeOK, Hashes, Utis
  <2>7. Placed(y)
    BY <1>1, <2>4 DEF Placed, Writes
  <2>8. Carries(y)'
    BY <2>2, <2>3, <2>4, <2>6 DEF Carries, Canonical
  <2>9. ~Draws(y) /\ \E j \in DOMAIN trades : y.uti = trades[j].uti
    BY <1>1, <2>4 DEF Draws
  <2>10. QED
    BY <2>5, <2>6, <2>7, <2>8, <2>9, PassStep
<1>5. ASSUME Attested(x.src), NEW i \in Best(x.by, x.src), Agrees(x.by, i, x.src), TakeOwn(r, i), ~Refuse(r)
      PROVE  CardsInv'
  <2>. PICK y : y = [x EXCEPT !.pc = "link", !.on = i, !.uti = trades[x.src].uti, !.hash = h]
    OBVIOUS
  <2>1. trades[i].status = "PENDING" /\ Fits(trades[x.src].uti, trades[i].terms, h) /\ Pass(r, y)
    BY <1>5 DEF TakeOwn
  <2>2. h \in Hashes /\ \E m \in DOMAIN events[x.src] : events[x.src][m].hash = h
    BY <1>1, <1>5, Attests
  <2>3. i \in DOMAIN trades
    BY DEF Best, Candidates
  <2>4. trades[i].how = "byHand" /\ trades[i].owner = x.by
    BY <1>5, <2>1, <2>3, MirrorRow DEF Agrees
  <2>5. trades[x.src].uti \in Utis
    BY <1>2, <2>1, <2>2, <2>3, Rows DEF Fits, Canonical, Hashes, Trade, CardsInv
  <2>6. /\ y.pc = "link" /\ y.on = i /\ y.uti = trades[x.src].uti /\ y.hash = h
        /\ y.by = x.by /\ y.src = x.src
    BY <1>1 DEF Request
  <2>7. y \in Request
    BY <1>1, <1>2, <2>2, <2>3, <2>5 DEF Request
  <2>8. /\ Go(r, y) /\ UNCHANGED <<trades, events, cards, drawn, arrived>>
        /\ anchored' = anchored /\ anchored' \subseteq Hashes /\ Hashes' = Hashes /\ Utis' = Utis
    BY <2>1 DEF Pass, CardsInv, TypeOK, Hashes, Utis
  <2>9. Placed(y)
    BY <1>1, <2>3, <2>4, <2>6 DEF Placed, Writes
  <2>10. Carries(y)'
    BY <2>2, <2>5, <2>6, <2>8 DEF Carries
  <2>11. ~Draws(y) /\ \E j \in DOMAIN trades : y.uti = trades[j].uti
    BY <1>1, <2>6 DEF Draws
  <2>12. QED
    BY <2>7, <2>8, <2>9, <2>10, <2>11, PassStep
<1>6. QED
  BY <1>3, <1>4, <1>5 DEF Lookup


----------------------------------------------------------------------------
(* An update of part of a row is an update of the row.                     *)
LEMMA RowUpdates ==
  ASSUME TypeOK, NEW i \in DOMAIN trades
  PROVE  /\ trades = [trades EXCEPT ![i] = trades[i]] /\ events = [events EXCEPT ![i] = events[i]]
         /\ \A v : [trades EXCEPT ![i].uti = v] = [trades EXCEPT ![i] = [trades[i] EXCEPT !.uti = v]]
         /\ \A v : [trades EXCEPT ![i].terms = v] = [trades EXCEPT ![i] = [trades[i] EXCEPT !.terms = v]]
         /\ \A v : [trades EXCEPT ![i].status = v] = [trades EXCEPT ![i] = [trades[i] EXCEPT !.status = v]]
         /\ \A e : [events EXCEPT ![i] = Append(@, e)] = [events EXCEPT ![i] = Append(events[i], e)]
<1>1. trades \in [1..Len(trades) -> Trade] /\ events \in [1..Len(events) -> Seq(AttestedEvent)]
  BY LenProperties DEF TypeOK
<1>2. trades = [trades EXCEPT ![i] = trades[i]] /\ events = [events EXCEPT ![i] = events[i]]
  BY <1>1
<1>3. QED
  BY <1>2

(* A request that writes an event to a trade and ends as y.                *)
LEMMA EventAdded ==
  ASSUME TypeOK, NEW i \in DOMAIN trades, NEW e \in AttestedEvent, NEW u, Backed(u, e)
  PROVE  /\ Append(events[i], e) \in Seq(AttestedEvent)
         /\ \A n \in DOMAIN events[i] : /\ n \in DOMAIN Append(events[i], e)
                                        /\ Append(events[i], e)[n] = events[i][n]
         /\ \A n \in DOMAIN Append(events[i], e) : n \in DOMAIN events[i] \/ Backed(u, Append(events[i], e)[n])
<1>. PICK s : s = events[i]
  OBVIOUS
<1>1. s \in Seq(AttestedEvent)
  BY Rows
<1>2. /\ Append(s, e) \in Seq(AttestedEvent) /\ Len(s) \in Nat /\ DOMAIN s = 1..Len(s)
      /\ DOMAIN Append(s, e) = 1..(Len(s) + 1) /\ Append(s, e)[Len(s) + 1] = e
      /\ \A n \in DOMAIN s : n \in DOMAIN Append(s, e) /\ Append(s, e)[n] = s[n]
  BY <1>1, AppendSeq
<1>3. \A n \in DOMAIN Append(s, e) : n \in DOMAIN s \/ n = Len(s) + 1
  BY <1>2
<1>4. \A n \in DOMAIN Append(s, e) : n \in DOMAIN s \/ Append(s, e)[n] = e
  BY <1>2, <1>3
<1>5. QED
  BY <1>2, <1>4

(* A fresh UTI, once committed, is on one trade.                           *)
LEMMA PostStep ==
  ASSUME CardsInv, NEW r \in Requests, Post(r)
  PROVE  CardsInv'
<1>. PICK x : x = request[r]
  OBVIOUS
<1>. PICK i : i = x.on
  OBVIOUS
<1>. PICK row : row = IF x.fresh THEN [trades[i] EXCEPT !.uti = x.uti] ELSE trades[i]
  OBVIOUS
<1>. PICK es : es = events[i]
  OBVIOUS
<1>. DEFINE Card == [trade : 1..Len(trades), hash : Hashes]
            card == [trade |-> x.on, hash |-> x.hash]
<1>1. x \in Request /\ Placed(x) /\ Carries(x) /\ x.pc = "post"
  BY RequestHolds DEF Post
<1>2. /\ i \in DOMAIN trades /\ x.uti \in Utis /\ x.hash \in Hashes /\ x.fresh \in BOOLEAN
      /\ x.fresh => trades[i].how = "byHand"
      /\ ~x.fresh => trades[i].uti # NoUti
  BY <1>1 DEF Placed, Carries, Writes, Request
<1>3. /\ trades[i] \in Trade /\ DOMAIN trades = 1..Len(trades)
      /\ es \in Seq(AttestedEvent) /\ DOMAIN cards = 1..Len(cards)
  BY <1>2, Rows DEF CardsInv
<1>4. row \in Trade /\ row.owner = trades[i].owner /\ row.how = trades[i].how
      /\ (x.fresh => row.uti = x.uti) /\ (~x.fresh => row = trades[i])
  BY <1>2, <1>3 DEF Trade
<1>5. row.uti # NoUti
  BY <1>2, <1>4 DEF Utis, NoUti
<1>6. trades' = [trades EXCEPT ![i] = row] /\ events' = [events EXCEPT ![i] = es]
  <2>1. events' = [events EXCEPT ![i] = es]
    BY <1>2, RowUpdates DEF Post, CardsInv
  <2>2. CASE x.fresh
    BY <1>2, <2>2, RowUpdates DEF Post, CardsInv
  <2>3. CASE ~x.fresh
    BY <1>2, <2>3, RowUpdates DEF Post, CardsInv
  <2>4. QED
    BY <1>2, <2>1, <2>2, <2>3
<1>7. /\ cards' \in Seq(Card)
      /\ \A n \in DOMAIN cards' : \/ n \in DOMAIN cards /\ cards'[n] = cards[n]
                                  \/ cards'[n].trade = i
  <2>1. card \in Card /\ cards \in Seq(Card)
    BY <1>2, <1>3 DEF CardsInv, TypeOK
  <2>2. cards' = Append(cards, card)
    BY DEF Post
  <2>. HIDE DEF Card
  <2>3. /\ Append(cards, card) \in Seq(Card) /\ DOMAIN cards = 1..Len(cards) /\ Len(cards) \in Nat
        /\ DOMAIN Append(cards, card) = 1..(Len(cards) + 1) /\ Append(cards, card)[Len(cards) + 1] = card
        /\ \A n \in DOMAIN cards : Append(cards, card)[n] = cards[n]
    BY <2>1, AppendSeq
  <2>4. \A n \in DOMAIN Append(cards, card) : n \in DOMAIN cards \/ n = Len(cards) + 1
    BY <2>3
  <2>5. QED
    BY <2>2, <2>3, <2>4
<1>8. /\ UNCHANGED <<drawn, arrived>> /\ anchored' = anchored /\ request' = [request EXCEPT ![r] = Idle]
  BY DEF Post, Go
<1>9. \/ row.uti = trades[i].uti
      \/ /\ Spreads(request[r]) /\ row.uti = request[r].uti
         /\ \A j \in DOMAIN trades : j # i /\ trades[j].owner = row.owner => trades[j].uti # row.uti
  <2>1. CASE x.fresh
    <3>1. Draws(request[r]) /\ Spreads(request[r])
      BY <1>1, <2>1 DEF Draws, Spreads
    <3>2. \A j \in DOMAIN trades : trades[j].uti # request[r].uti
      BY <3>1 DEF CardsInv, UncommittedIsOwn
    <3>3. QED
      BY <1>4, <2>1, <3>1, <3>2
  <2>2. CASE ~x.fresh
    BY <1>4, <2>2
  <2>3. QED
    BY <1>2, <2>1, <2>2
<1>10. trades[i].how = "byHand" \/ row = trades[i]
  BY <1>2, <1>4
<1>. HIDE DEF Card
<1>11. WritesRow(r, Idle, i, row, es)
  BY <1>2, <1>3, <1>4, <1>5, <1>6, <1>7, <1>8, <1>9, <1>10, IdleOK DEF WritesRow, Card
<1>12. QED
  BY <1>2, <1>11, WriteStep

(* The confirmation, and the mirror that may follow it.                    *)
LEMMA ConfirmStep ==
  ASSUME CardsInv, NEW r \in Requests, Confirm(r)
  PROVE  CardsInv'
<1>x. PICK x : x = request[r]
  OBVIOUS
<1>i. PICK i : i = x.on
  OBVIOUS
<1>e. PICK e : e = Event(x.hash, "signed", x.on)
  OBVIOUS
<1>s. PICK es : es = Append(events[i], e)
  OBVIOUS
<1>row. PICK row : row = [trades[i] EXCEPT !.status = "CONFIRMED"]
  OBVIOUS
<1>y. PICK y : y = IF x.mirror THEN [Idle EXCEPT !.pc = "mirror", !.by = x.by, !.src = x.on] ELSE Idle
  OBVIOUS
<1>1. x \in Request /\ Placed(x) /\ Carries(x) /\ x.pc = "confirm"
  BY <1>x, RequestHolds DEF Confirm
<1>2. /\ i \in DOMAIN trades /\ trades[i].how = "byHand"
      /\ x.hash \in Hashes /\ x.hash \in anchored /\ x.by \in People /\ x.mirror \in BOOLEAN
  BY <1>1, <1>i DEF Placed, Carries, Writes, Request
<1>3. /\ trades[i] \in Trade /\ DOMAIN trades = 1..Len(trades) /\ i \in 0..Len(trades) /\ 0 \in 0..Len(trades)
  BY <1>2, Rows DEF CardsInv
<1>4. row \in Trade /\ row.owner = trades[i].owner /\ row.how = trades[i].how /\ row.uti = trades[i].uti
  BY <1>3, <1>row DEF Trade, Statuses
<1>5. e \in AttestedEvent /\ Backed(row.owner, e)
  BY <1>2, <1>3, <1>i, <1>e DEF AttestedEvent, Event, Backed
<1>6. /\ es \in Seq(AttestedEvent)
      /\ \A n \in DOMAIN events[i] : n \in DOMAIN es /\ es[n] = events[i][n]
      /\ \A n \in DOMAIN es : n \in DOMAIN events[i] \/ Backed(row.owner, es[n])
  <2>. PICK u : u = row.owner
    OBVIOUS
  <2>1. Backed(u, e) /\ e \in AttestedEvent
    BY <1>5
  <2>2. /\ Append(events[i], e) \in Seq(AttestedEvent)
        /\ \A n \in DOMAIN events[i] : /\ n \in DOMAIN Append(events[i], e)
                                       /\ Append(events[i], e)[n] = events[i][n]
        /\ \A n \in DOMAIN Append(events[i], e) :
             n \in DOMAIN events[i] \/ Backed(u, Append(events[i], e)[n])
    BY <1>2, <2>1, EventAdded DEF CardsInv
  <2>3. QED
    BY <1>s, <2>2
<1>7. /\ trades' = [trades EXCEPT ![i] = row] /\ events' = [events EXCEPT ![i] = es]
  BY <1>s, <1>2, <1>x, <1>i, <1>e, <1>row, RowUpdates DEF Confirm, CardsInv
<1>8. /\ UNCHANGED <<cards, drawn, arrived>> /\ anchored' = anchored /\ request' = [request EXCEPT ![r] = y]
      /\ cards' \in Seq([trade : 1..Len(trades), hash : Hashes])
  BY <1>x, <1>y DEF Confirm, Go, CardsInv, TypeOK
<1>9. y \in Request
  BY <1>2, <1>3, <1>i, <1>y, IdleOK DEF Request, Idle
<1>10. trades'[i].owner = trades[i].owner /\ i \in DOMAIN trades'
  BY <1>2, <1>3, <1>4, <1>7, UpdateSeq DEF CardsInv, TypeOK
<1>11. Placed(y)' /\ Carries(y)' /\ ~Spreads(y)
  <2>1. CASE x.mirror
    <3>1. y = [Idle EXCEPT !.pc = "mirror", !.by = x.by, !.src = i]
      BY <2>1, <1>i, <1>y
    <3>2. Firm[x.by] # Firm[trades'[i].owner]
      BY <1>1, <1>10, <1>i DEF Placed, Faces
    <3>3. Placed(y)'
      BY <1>2, <1>10, <3>1, <3>2 DEF Placed, Writes, Faces, Idle
    <3>4. QED
      BY <3>1, <3>3 DEF Carries, Spreads, Draws, Idle
  <2>2. CASE ~x.mirror
    <3>1. y = Idle
      BY <2>2, <1>y
    <3>2. QED
      BY <3>1, IdleOK
  <2>3. QED
    BY <1>2, <2>1, <2>2
<1>c. \A n \in DOMAIN cards' : n \in DOMAIN cards /\ cards'[n] = cards[n]
  BY <1>8
<1>12. WritesRow(r, y, i, row, es)
  <2>1. /\ UNCHANGED <<drawn, arrived>> /\ anchored' = anchored
        /\ trades' = [trades EXCEPT ![i] = row] /\ events' = [events EXCEPT ![i] = es]
        /\ request' = [request EXCEPT ![r] = y]
    BY <1>7, <1>8
  <2>2. y \in Request /\ Placed(y)' /\ Carries(y)' /\ ~Spreads(y)
    BY <1>9, <1>11
  <2>3. /\ row \in Trade /\ row.owner = trades[i].owner /\ row.how = trades[i].how
        /\ trades[i].how = "byHand" /\ row.uti = trades[i].uti
    BY <1>2, <1>4
  <2>4. cards' \in Seq([trade : 1..Len(trades), hash : Hashes])
    BY <1>8
  <2>5. QED
    BY <1>6, <1>c, <2>1, <2>2, <2>3, <2>4 DEF WritesRow
<1>13. QED
  BY <1>2, <1>12, WriteStep

(* The index keeps a linked booking alone on its UTI.                      *)
LEMMA LinkStep ==
  ASSUME CardsInv, NEW r \in Requests, Link(r)
  PROVE  CardsInv'
<1>x. PICK x : x = request[r]
  OBVIOUS
<1>i. PICK i : i = x.on
  OBVIOUS
<1>e. PICK e : e = Event(x.hash, "linked", x.src)
  OBVIOUS
<1>s. PICK es : es = Append(events[i], e)
  OBVIOUS
<1>row. PICK row : row = [trades[i] EXCEPT !.uti = x.uti, !.status = "CONFIRMED"]
  OBVIOUS
<1>1. x \in Request /\ Placed(x) /\ Carries(x) /\ x.pc = "link"
  BY <1>x, RequestHolds DEF Link
<1>2. /\ i \in DOMAIN trades /\ trades[i].how = "byHand" /\ x.by = trades[i].owner
      /\ x.src \in DOMAIN trades /\ Faces(x.by, x.src)
      /\ x.hash \in Hashes /\ x.uti \in Utis
      /\ \E m \in DOMAIN events[x.src] : events[x.src][m].hash = x.hash
  BY <1>1, <1>i DEF Placed, Carries, Writes
<1>3. trades[i] \in Trade /\ DOMAIN trades = 1..Len(trades)
  BY <1>2, Rows DEF CardsInv
<1>4. row \in Trade /\ row.owner = trades[i].owner /\ row.how = trades[i].how /\ row.uti = x.uti
  BY <1>2, <1>3, <1>row DEF Trade, Statuses
<1>5. x.hash \in anchored
  <2>1. PICK m \in DOMAIN events[x.src] : events[x.src][m].hash = x.hash
    BY <1>2
  <2>2. Backed(trades[x.src].owner, events[x.src][m])
    BY <1>2, EventsBacked DEF CardsInv
  <2>3. QED
    BY <2>1, <2>2 DEF Backed
<1>6. e \in AttestedEvent /\ Backed(row.owner, e)
  BY <1>2, <1>3, <1>4, <1>5, <1>e DEF AttestedEvent, Event, Backed, Faces
<1>7. /\ es \in Seq(AttestedEvent)
      /\ \A n \in DOMAIN events[i] : n \in DOMAIN es /\ es[n] = events[i][n]
      /\ \A n \in DOMAIN es : n \in DOMAIN events[i] \/ Backed(row.owner, es[n])
  <2>. PICK u : u = row.owner
    OBVIOUS
  <2>1. Backed(u, e) /\ e \in AttestedEvent
    BY <1>6
  <2>2. /\ Append(events[i], e) \in Seq(AttestedEvent)
        /\ \A n \in DOMAIN events[i] : /\ n \in DOMAIN Append(events[i], e)
                                       /\ Append(events[i], e)[n] = events[i][n]
        /\ \A n \in DOMAIN Append(events[i], e) :
             n \in DOMAIN events[i] \/ Backed(u, Append(events[i], e)[n])
    BY <1>2, <2>1, EventAdded DEF CardsInv
  <2>3. QED
    BY <1>s, <2>2
<1>8. trades' = [trades EXCEPT ![i] = row] /\ events' = [events EXCEPT ![i] = es]
  <2>1. /\ trades' = [trades EXCEPT ![i].uti = x.uti, ![i].status = "CONFIRMED"]
        /\ events' = [events EXCEPT ![i] = Append(@, e)]
    BY <1>x, <1>i, <1>e DEF Link
  <2>2. [trades EXCEPT ![i].uti = x.uti, ![i].status = "CONFIRMED"]
          = [trades EXCEPT ![i] = [trades[i] EXCEPT !.uti = x.uti, !.status = "CONFIRMED"]]
    BY Zenon
  <2>3. [events EXCEPT ![i] = Append(@, e)] = [events EXCEPT ![i] = Append(events[i], e)]
    BY <1>2, RowUpdates DEF CardsInv
  <2>4. QED
    BY <1>s, <1>row, <2>1, <2>2, <2>3
<1>9. /\ UNCHANGED <<cards, drawn, arrived>> /\ anchored' = anchored /\ request' = [request EXCEPT ![r] = Idle]
      /\ cards' \in Seq([trade : 1..Len(trades), hash : Hashes])
  BY DEF Link, Go, CardsInv, TypeOK
<1>10. /\ Spreads(request[r]) /\ row.uti = request[r].uti
       /\ \A j \in DOMAIN trades : j # i /\ trades[j].owner = row.owner => trades[j].uti # row.uti
  BY <1>1, <1>2, <1>4, <1>x, <1>i DEF Spreads, Link, IndexAllows
<1>11. row.uti # NoUti
  BY <1>2, <1>4 DEF Utis, NoUti
<1>c. \A n \in DOMAIN cards' : n \in DOMAIN cards /\ cards'[n] = cards[n]
  BY <1>9
<1>12. WritesRow(r, Idle, i, row, es)
  <2>1. /\ UNCHANGED <<drawn, arrived>> /\ anchored' = anchored
        /\ trades' = [trades EXCEPT ![i] = row] /\ events' = [events EXCEPT ![i] = es]
        /\ request' = [request EXCEPT ![r] = Idle]
    BY <1>8, <1>9
  <2>2. /\ row \in Trade /\ row.owner = trades[i].owner /\ row.how = trades[i].how
        /\ trades[i].how = "byHand"
    BY <1>2, <1>4
  <2>3. cards' \in Seq([trade : 1..Len(trades), hash : Hashes])
    BY <1>9
  <2>4. QED
    BY <1>7, <1>10, <1>11, <1>c, <2>1, <2>2, <2>3, IdleOK DEF WritesRow
<1>13. QED
  BY <1>2, <1>12, WriteStep

(* A write to a trade's own columns, without an event.                     *)
LEMMA ColumnStep ==
  ASSUME CardsInv, NEW r \in Requests, NEW i \in DOMAIN trades, trades[i].how = "byHand",
         NEW row \in Trade, row.owner = trades[i].owner, row.how = trades[i].how, row.uti = trades[i].uti,
         trades' = [trades EXCEPT ![i] = row], UNCHANGED <<events, cards, anchored, drawn, arrived>>,
         Go(r, Idle)
  PROVE  CardsInv'
<1>1. events' = [events EXCEPT ![i] = events[i]] /\ events[i] \in Seq(AttestedEvent)
  BY RowUpdates, Rows DEF CardsInv
<1>2. cards' \in Seq([trade : 1..Len(trades), hash : Hashes]) /\ request' = [request EXCEPT ![r] = Idle]
      /\ anchored' = anchored /\ UNCHANGED <<drawn, arrived, cards>>
  BY DEF CardsInv, TypeOK, Go
<1>3. WritesRow(r, Idle, i, row, events[i])
  BY <1>1, <1>2, IdleOK DEF WritesRow
<1>4. QED
  BY <1>3, WriteStep

(* Edits, cancellations and PUTs of a status write trades booked by hand.  *)
LEMMA EditStep ==
  ASSUME CardsInv, NEW r \in Requests, Edit(r) \/ Cancel(r) \/ Put(r)
  PROVE  CardsInv'
<1>. PICK x : x = request[r]
  OBVIOUS
<1>. PICK i : i = x.on
  OBVIOUS
<1>1. x \in Request /\ Placed(x) /\ Carries(x) /\ x.pc \in {"edit", "cancel", "put"}
  BY RequestHolds DEF Edit, Cancel, Put
<1>2. i \in DOMAIN trades /\ trades[i].how = "byHand" /\ (x.pc = "edit" => x.terms \in Terms)
  BY <1>1 DEF Placed, Carries, Writes
<1>3. trades[i] \in Trade
  BY <1>2, Rows DEF CardsInv
<1>4. CASE Edit(r)
  <2>. PICK row : row = [trades[i] EXCEPT !.terms = x.terms]
    OBVIOUS
  <2>1. row \in Trade /\ row.owner = trades[i].owner /\ row.how = trades[i].how /\ row.uti = trades[i].uti
    BY <1>2, <1>3, <1>4 DEF Trade, Edit
  <2>2. trades' = [trades EXCEPT ![i] = row] /\ UNCHANGED <<events, cards, anchored, drawn, arrived>> /\ Go(r, Idle)
    BY <1>2, <1>4, RowUpdates DEF Edit, CardsInv
  <2>3. QED
    BY <1>2, <2>1, <2>2, ColumnStep
<1>5. ASSUME NEW status \in Statuses, SetStatus(r, status) PROVE CardsInv'
  <2>. PICK row : row = [trades[i] EXCEPT !.status = status]
    OBVIOUS
  <2>1. row \in Trade /\ row.owner = trades[i].owner /\ row.how = trades[i].how /\ row.uti = trades[i].uti
    BY <1>3 DEF Trade
  <2>2. trades' = [trades EXCEPT ![i] = row] /\ UNCHANGED <<events, cards, anchored, drawn, arrived>> /\ Go(r, Idle)
    BY <1>2, <1>5, RowUpdates DEF SetStatus, CardsInv
  <2>3. QED
    BY <1>2, <2>1, <2>2, ColumnStep
<1>6. x.status \in Statuses /\ "CANCELLED" \in Statuses
  BY <1>1 DEF Request, Statuses
<1>7. QED
  BY <1>4, <1>5, <1>6 DEF Cancel, Put

(* An added leg or a PUT of terms: whatever trade it is, nobody's request  *)
(* is worse for it, and if it is a mirror it is marked.                    *)
LEMMA WriteTermsStep ==
  ASSUME CardsInv, NEW i \in DOMAIN trades, NEW terms \in Terms, WriteTerms(i, terms)
  PROVE  CardsInv'
<1>. PICK row : row = [trades[i] EXCEPT !.terms = terms, !.loose = Attested(i)]
  OBVIOUS
<1>1. /\ trades' = [trades EXCEPT ![i] = row] /\ arrived' \in 0..MaxArrivals
      /\ UNCHANGED <<events, cards, drawn, request>> /\ anchored' = anchored
  <2>1. [trades EXCEPT ![i].terms = terms, ![i].loose = Attested(i)]
          = [trades EXCEPT ![i] = [trades[i] EXCEPT !.terms = terms, !.loose = Attested(i)]]
    BY Zenon
  <2>2. QED
    BY <2>1, TradeCardsAssumption DEF WriteTerms, CardsInv, TypeOK
<1>2. /\ row \in Trade /\ row.owner = trades[i].owner /\ row.how = trades[i].how
      /\ row.uti = trades[i].uti /\ row.status = trades[i].status /\ row.loose = Attested(i)
  BY Rows DEF CardsInv, Trade, Attested
<1>3. /\ trades' \in Seq(Trade) /\ Len(trades') = Len(trades) /\ DOMAIN trades' = DOMAIN trades
      /\ trades'[i] = row /\ \A j \in DOMAIN trades : j # i => trades'[j] = trades[j]
  BY <1>1, <1>2, UpdateSeq DEF CardsInv, TypeOK
<1>4. TypeOK'
  <2>1. Trade' = Trade /\ AttestedEvent' = AttestedEvent /\ Request' = Request /\ Hashes' = Hashes
    BY <1>1, <1>3 DEF Trade, AttestedEvent, Request, Hashes, Utis
  <2>2. QED
    BY <1>1, <1>3, <2>1 DEF CardsInv, TypeOK
<1>5. Grows
  BY <1>1, <1>2, <1>3 DEF Grows, CardsInv, TypeOK
<1>6. RequestsOK'
  <2>1. ASSUME NEW s \in Requests PROVE (Placed(request[s]) /\ Carries(request[s]))'
    <3>. PICK z : z = request[s]
      OBVIOUS
    <3>1. z \in Request /\ Placed(z) /\ Carries(z) /\ z = request'[s]
      BY <1>1, RequestHolds
    <3>2. Placed(z)' /\ Carries(z)'
      BY <1>5, <3>1, RequestKept DEF CardsInv
    <3>3. QED
      BY <3>1, <3>2 DEF Placed, Carries, Writes, Faces
  <2>2. QED
    BY <2>1 DEF RequestsOK
<1>7. \A j \in DOMAIN trades : /\ trades'[j].uti = trades[j].uti /\ trades'[j].owner = trades[j].owner
                              /\ trades'[j].how = trades[j].how /\ trades'[j].status = trades[j].status
  BY <1>2, <1>3
<1>8. UncommittedIsOwn' /\ CardsNamed' /\ OneBookingPerUti'
  <2>1. UncommittedIsOwn'
    BY <1>1, <1>3, <1>7 DEF CardsInv, UncommittedIsOwn, Draws, Spreads
  <2>2. CardsNamed'
    BY <1>1, <1>5, Rows DEF CardsInv, CardsNamed, Grows
  <2>3. OneBookingPerUti'
    BY <1>3, <1>7 DEF CardsInv, OneBookingPerUti
  <2>4. QED
    BY <2>1, <2>2, <2>3
<1>9. MirrorBacked'
  <2>1. ASSUME NEW j \in DOMAIN events', NEW n \in DOMAIN events'[j]
        PROVE  Backed(trades'[j].owner, events'[j][n])
    <3>1. j \in DOMAIN trades /\ n \in DOMAIN events[j]
      BY <1>1, Rows DEF CardsInv
    <3>2. Backed(trades[j].owner, events[j][n])
      BY <3>1, EventsBacked DEF CardsInv
    <3>3. QED
      BY <1>1, <1>7, <3>1, <3>2
  <2>2. QED
    BY <1>1, <1>4, <1>5, <2>1, BackedStep DEF CardsInv
<1>10. MirrorIsTheRecord'
  <2>1. ASSUME NEW j \in DOMAIN trades, trades'[j].how = "mirror"
        PROVE  /\ trades'[j].status = "CONFIRMED" /\ events'[j] # <<>>
               /\ trades'[j].uti = Last(events'[j]).hash[1]
               /\ ~trades'[j].loose => Canonical(trades'[j].uti, trades'[j].terms) = Last(events'[j]).hash
    <3>1. /\ trades[j].status = "CONFIRMED" /\ events[j] # <<>>
          /\ trades[j].uti = Last(events[j]).hash[1]
          /\ ~trades[j].loose => Canonical(trades[j].uti, trades[j].terms) = Last(events[j]).hash
      BY <1>7, <2>1 DEF CardsInv, MirrorIsTheRecord, Attested, Hash, Attestation
    <3>2. j = i => trades'[j].loose
      BY <1>2, <1>3, <3>1 DEF Attested
    <3>3. QED
      BY <1>1, <1>3, <1>7, <3>1, <3>2
  <2>2. QED
    BY <1>3, <2>1 DEF MirrorIsTheRecord, Attested, Hash, Attestation
<1>11. QED
  BY <1>4, <1>6, <1>8, <1>9, <1>10 DEF CardsInv

----------------------------------------------------------------------------
(* A trade booked by hand has no UTI and no event.                         *)
LEMMA BookStep ==
  ASSUME CardsInv, NEW u \in People, NEW terms \in Terms, Book(u, terms)
  PROVE  CardsInv'
<1>. PICK row : row = Row(u, "PENDING", NoUti, terms, "byHand")
  OBVIOUS
<1>. PICK es : es = <<>>
  OBVIOUS
<1>1. row \in Trade /\ row.uti = NoUti /\ row.how = "byHand"
  BY DEF Row, Trade, Statuses
<1>2. /\ trades' = Append(trades, row) /\ events' = Append(events, es)
      /\ UNCHANGED <<drawn, arrived, cards>> /\ anchored' = anchored /\ request' = request
  BY DEF Book
<1>3. es \in Seq(AttestedEvent') /\ \A n \in DOMAIN es : Backed(row.owner, es[n])
  BY EmptySeq
<1>4. /\ trades' \in Seq(Trade) /\ Len(trades') = Len(trades) + 1 /\ Len(trades) \in Nat
      /\ DOMAIN trades = 1..Len(trades) /\ DOMAIN trades' = 1..(Len(trades) + 1)
      /\ trades'[Len(trades) + 1] = row /\ \A j \in DOMAIN trades : trades'[j] = trades[j]
  BY <1>1, <1>2, AppendSeq DEF CardsInv, TypeOK
<1>5. request' \in [Requests -> Request']
  BY <1>2, <1>4, Widens DEF CardsInv, TypeOK
<1>6. TypeOK' /\ Grows
  BY <1>1, <1>2, <1>3, <1>5, Added DEF CardsInv
<1>7. RequestsOK'
  <2>1. ASSUME NEW s \in Requests PROVE (Placed(request[s]) /\ Carries(request[s]))'
    <3>. PICK z : z = request[s]
      OBVIOUS
    <3>1. z \in Request /\ Placed(z) /\ Carries(z) /\ z = request'[s]
      BY <1>2, RequestHolds
    <3>2. Placed(z)' /\ Carries(z)'
      BY <1>6, <3>1, RequestKept DEF CardsInv
    <3>3. QED
      BY <3>1, <3>2 DEF Placed, Carries, Writes, Faces
  <2>2. QED
    BY <2>1 DEF RequestsOK
<1>8. UncommittedIsOwn'
  <2>1. ASSUME NEW q \in Requests, Draws(request[q]) PROVE request[q].uti # NoUti
    BY <2>1, RequestHolds DEF Draws, Carries, Utis, NoUti
  <2>2. \A i \in DOMAIN trades' : trades'[i].uti = NoUti \/ \E j \in DOMAIN trades : trades'[i].uti = trades[j].uti
    BY <1>1, <1>4
  <2>3. QED
    BY <1>2, <2>1, <2>2 DEF UncommittedIsOwn, Draws, Spreads, CardsInv
<1>9. QED
  BY <1>1, <1>2, <1>3, <1>5, <1>7, <1>8, AddStep

(* The index keeps a mirror alone on its UTI; it is what it attests.       *)
LEMMA MirrorStep ==
  ASSUME CardsInv, NEW r \in Requests, Mirror(r)
  PROVE  CardsInv'
<1>. PICK x : x = request[r]
  OBVIOUS
<1>. PICK row : row = Row(x.by, "CONFIRMED", x.uti, x.terms, "mirror")
  OBVIOUS
<1>. PICK e : e = Event(x.hash, "booked", x.src)
  OBVIOUS
<1>. PICK es : es = <<e>>
  OBVIOUS
<1>1. x \in Request /\ Placed(x) /\ Carries(x) /\ x.pc = "book"
  BY RequestHolds DEF Mirror
<1>2. /\ x.by \in People /\ x.src \in DOMAIN trades /\ Faces(x.by, x.src)
      /\ x.hash \in Hashes /\ x.uti \in Utis /\ x.terms \in Terms /\ x.hash = Canonical(x.uti, x.terms)
      /\ \E m \in DOMAIN events[x.src] : events[x.src][m].hash = x.hash
  BY <1>1 DEF Placed, Carries
<1>3. row \in Trade /\ row.owner = x.by /\ row.uti = x.uti /\ row.terms = x.terms
      /\ row.how = "mirror" /\ row.status = "CONFIRMED"
  BY <1>2 DEF Row, Trade, Statuses
<1>4. /\ trades' = Append(trades, row) /\ events' = Append(events, es)
      /\ UNCHANGED <<drawn, arrived, cards>> /\ anchored' = anchored
      /\ request' = [request EXCEPT ![r] = Idle]
  BY DEF Mirror, Go
<1>5. /\ trades' \in Seq(Trade) /\ Len(trades') = Len(trades) + 1 /\ Len(trades) \in Nat
      /\ DOMAIN trades = 1..Len(trades) /\ DOMAIN trades' = 1..(Len(trades) + 1)
      /\ trades'[Len(trades) + 1] = row /\ \A j \in DOMAIN trades : trades'[j] = trades[j]
  BY <1>3, <1>4, AppendSeq DEF CardsInv, TypeOK
<1>6. x.hash \in anchored
  <2>1. PICK m \in DOMAIN events[x.src] : events[x.src][m].hash = x.hash
    BY <1>2
  <2>2. Backed(trades[x.src].owner, events[x.src][m])
    BY <1>2, EventsBacked DEF CardsInv
  <2>3. QED
    BY <2>1, <2>2 DEF Backed
<1>7. e \in AttestedEvent'
  <2>1. Hashes' = Hashes /\ x.src \in 1..Len(trades')
    BY <1>2, <1>4, <1>5 DEF Hashes, Utis
  <2>2. QED
    BY <1>2, <2>1 DEF AttestedEvent, Event
<1>8. Backed(row.owner, e)
  BY <1>2, <1>3, <1>6 DEF Event, Backed, Faces
<1>9. /\ es \in Seq(AttestedEvent') /\ DOMAIN es = {1} /\ es[1] = e /\ es # <<>> /\ Last(es).hash = x.hash
  <2>1. DOMAIN es = {1} /\ es[1] = e /\ Len(es) = 1
    BY SMT
  <2>2. es \in Seq(AttestedEvent') /\ es # <<>>
    BY <1>7
  <2>3. QED
    BY <2>1, <2>2 DEF Last, Event
<1>10. request' \in [Requests -> Request']
  BY <1>4, <1>5, Widens, IdleOK DEF CardsInv, TypeOK
<1>11. TypeOK' /\ Grows
  BY <1>3, <1>4, <1>9, <1>10, Added DEF CardsInv
<1>12. RequestsOK'
  BY <1>4, <1>11, IdleOK, RequestsStep DEF CardsInv
<1>13. UncommittedIsOwn'
  <2>1. \A i \in DOMAIN trades' :
           \/ trades'[i].uti = NoUti
           \/ \E j \in DOMAIN trades : trades'[i].uti = trades[j].uti
           \/ Spreads(request[r]) /\ trades'[i].uti = request[r].uti
    BY <1>1, <1>3, <1>5 DEF Spreads
  <2>2. ~Spreads(Idle) /\ ~Draws(Idle)
    BY IdleOK DEF Spreads
  <2>3. QED
    BY <1>4, <2>1, <2>2, UncommittedStep DEF CardsInv
<1>14. \A j \in DOMAIN trades : trades[j].owner = row.owner => trades[j].uti # row.uti
  BY <1>3, <1>5 DEF Mirror, IndexAllows
<1>15. Canonical(row.uti, row.terms) = Last(es).hash
  BY <1>2, <1>3, <1>9
<1>16. \A n \in DOMAIN es : Backed(row.owner, es[n])
  BY <1>8, <1>9
<1>17. QED
  BY <1>3, <1>4, <1>9, <1>10, <1>12, <1>13, <1>14, <1>15, <1>16, AddStep


----------------------------------------------------------------------------
(* The empty desk.                                                         *)
LEMMA CardsInit == Init => CardsInv
<1>. SUFFICES ASSUME Init PROVE CardsInv
  OBVIOUS
<1>1. /\ DOMAIN trades = {} /\ DOMAIN events = {} /\ DOMAIN cards = {}
      /\ Len(trades) = 0 /\ Len(events) = 0
  BY DEF Init
<1>2. TypeOK
  BY <1>1, EmptySeq, IdleOK, TradeCardsAssumption DEF Init, TypeOK
<1>3. RequestsOK /\ UncommittedIsOwn
  BY IdleOK DEF Init, RequestsOK, UncommittedIsOwn, Spreads
<1>4. QED
  BY <1>1, <1>2, <1>3 DEF CardsInv, CardsNamed, OneBookingPerUti, MirrorBacked, MirrorIsTheRecord

(* One case per action.                                                    *)
LEMMA CardsStep == CardsInv /\ [Next]_vars => CardsInv'
<1>. SUFFICES ASSUME CardsInv, [Next]_vars PROVE CardsInv'
  OBVIOUS
<1>1. ASSUME NEW u \in People, NEW terms \in Terms, Book(u, terms) PROVE CardsInv'
  BY <1>1, BookStep
<1>2. ASSUME NEW r \in Requests, NEW i \in DOMAIN trades,
             \/ Send(r, i)
             \/ \E u \in People, mirror \in BOOLEAN : Countersign(r, u, i, mirror)
             \/ \E u \in People : BookFromCard(r, u, i)
             \/ \E terms \in Terms : StartEdit(r, i, terms)
             \/ StartCancel(r, i)
             \/ \E status \in Statuses : StartPut(r, i, status)
      PROVE  CardsInv'
  BY <1>2, SendStep, CountersignStep, OthersArrive
<1>3. ASSUME NEW r \in Requests, Post(r) \/ Anchor(r) \/ Confirm(r) PROVE CardsInv'
  BY <1>3, PostStep, AnchorStep, ConfirmStep
<1>4. ASSUME NEW r \in Requests, Lookup(r) \/ Link(r) \/ Mirror(r) PROVE CardsInv'
  BY <1>4, LookupStep, LinkStep, MirrorStep
<1>5. ASSUME NEW r \in Requests, Fails(r) PROVE CardsInv'
  BY <1>5, RefuseStep DEF Fails
<1>6. ASSUME NEW r \in Requests, Edit(r) \/ Cancel(r) \/ Put(r) PROVE CardsInv'
  BY <1>6, EditStep
<1>9. ASSUME NEW i \in DOMAIN trades, NEW terms \in Terms, CreateLeg(i, terms) \/ PutTerms(i, terms)
      PROVE  CardsInv'
  BY <1>9, WriteTermsStep DEF CreateLeg, PutTerms
<1>7. CASE UNCHANGED vars
  <2>1. UNCHANGED <<trades, events, cards, anchored, drawn, arrived, request>>
    BY <1>7 DEF vars
  <2>2. TypeOK'
    BY <2>1 DEF CardsInv, TypeOK, Trade, AttestedEvent, Request, Hashes, Utis
  <2>3. RequestsOK'
    BY <2>1 DEF CardsInv, RequestsOK, Placed, Carries, Writes, Faces, Hashes, Utis
  <2>4. UncommittedIsOwn' /\ CardsNamed' /\ OneBookingPerUti'
    BY <2>1 DEF CardsInv, UncommittedIsOwn, Draws, Spreads, CardsNamed, OneBookingPerUti
  <2>5. MirrorBacked' /\ MirrorIsTheRecord'
    BY <2>1 DEF CardsInv, MirrorBacked, MirrorIsTheRecord, Attested, Hash, Attestation
  <2>6. QED
    BY <2>2, <2>3, <2>4, <2>5 DEF CardsInv
<1>8. QED
  BY <1>1, <1>2, <1>3, <1>4, <1>5, <1>6, <1>7, <1>9 DEF Next

(* The strengthening holds of every behaviour.                             *)
LEMMA CardsInvariant == Spec => []CardsInv
<1>1. CardsInv /\ [Next]_vars => CardsInv'
  BY CardsStep
<1>2. QED
  BY CardsInit, <1>1, PTL DEF Spec

(* Tables and sessions stay within their columns and point at rows that    *)
(* exist (TypeOK).                                                         *)
THEOREM CardsTypeCorrect == Spec => []TypeOK
<1>1. CardsInv => TypeOK
  BY DEF CardsInv
<1>2. QED
  BY CardsInvariant, <1>1, PTL

(* However many requests send, countersign, link and mirror at once, no    *)
(* user ends up with two bookings of a UTI.                                *)
THEOREM CardsOneBooking == Spec => []OneBookingPerUti
<1>1. CardsInv => OneBookingPerUti
  BY DEF CardsInv
<1>2. QED
  BY CardsInvariant, <1>1, PTL

(* Every event is of a record on the registry, and one that was not signed *)
(* there copies an event of the other firm's trade.                        *)
THEOREM CardsMirrorBacked == Spec => []MirrorBacked
<1>1. CardsInv => MirrorBacked
  BY DEF CardsInv
<1>2. QED
  BY CardsInvariant, <1>1, PTL

(* A mirror stays confirmed under the anchored UTI, and hashes to what its *)
(* own event attests until its owner adds a leg or PUTs terms: no request  *)
(* under way may still edit, cancel, link, confirm it or PUT its status.   *)
THEOREM CardsMirrorIsTheRecord == Spec => []MirrorIsTheRecord
<1>1. CardsInv => MirrorIsTheRecord
  BY DEF CardsInv
<1>2. QED
  BY CardsInvariant, <1>1, PTL
=============================================================================
