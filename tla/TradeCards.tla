----------------------------- MODULE TradeCards -----------------------------
(***************************************************************************)
(* A trade sent to its counterparty as a card, countersigned from there,   *)
(* and booked into the signer's own book (api/routes/trade_cards.py, with  *)
(* what it calls in chain.py, trade_events.py and booking.py).             *)
(*                                                                         *)
(* A request loads what it needs into its session, decides, and commits in *)
(* one transaction; it locks no row before it writes it, and what others   *)
(* commit in between is not seen again.  A flush writes the columns that   *)
(* changed in the session, whatever the row has become.                    *)
(*                                                                         *)
(* Two firms share one room, whose people have all joined.  Every trade is *)
(* between them, and under record v2 both bookings of it are one record:   *)
(* its hash is a function of the UTI and of the terms.  Not here: record   *)
(* v1, amendments and terminations (module Amendment), off-chain and       *)
(* unattended confirmation (module Confirmation), events posted to a       *)
(* stream (modules Confirmation and Desk), deleting a trade, which the     *)
(* trigger on its events refuses, and the entities and counterparties a    *)
(* mirror may create on its way.                                           *)
(***************************************************************************)
EXTENDS Integers, FiniteSetsExt, SequencesExt

CONSTANTS Requests,
          People, Firm,  \* people, and the firm each belongs to
          Terms,         \* economic terms a trade may have
          Nobody, NoTerms,
          MaxBooked,     \* bound: trades booked by hand
          MaxArrivals    \* bound: requests that pass their first checks

ASSUME TradeCardsAssumption ==
  /\ Firm \in [People -> {"A", "B"}]
  /\ Nobody \notin People /\ NoTerms \notin Terms
  /\ MaxBooked \in Nat /\ MaxArrivals \in Nat

VARIABLES trades,    \* trades and their legs, of both firms, in the order of insertion
          events,    \* attested trade_events, by trade, by event_seq
          cards,     \* chat_messages that carry a trade
          anchored,  \* hashes the registry holds
          drawn,     \* how many UTIs have been drawn
          arrived,   \* how many requests have come
          request    \* the requests under way

vars == <<trades, events, cards, anchored, drawn, arrived, request>>

NoUti == 0
Idle == [pc |-> "idle", by |-> Nobody, on |-> 0, src |-> 0, uti |-> NoUti, fresh |-> FALSE,
         terms |-> NoTerms, status |-> "PENDING", hash |-> <<NoUti, NoTerms>>, mirror |-> FALSE]

(* Both bookings hash to the same record when UTI and terms agree.         *)
Canonical(uti, terms) == <<uti, terms>>
Hash(i) == Canonical(trades[i].uti, trades[i].terms)

Go(r, x) == request' = [request EXCEPT ![r] = x]
Refuse(r) == Go(r, Idle) /\ UNCHANGED <<trades, events, cards, anchored, drawn, arrived>>
Pass(r, x) == Go(r, x) /\ UNCHANGED <<trades, events, cards, anchored, drawn, arrived>>

(* A request is let in by the state it loads, which stays in its session.  *)
Arrive(r, x) ==
  /\ request[r].pc = "idle"
  /\ arrived < MaxArrivals /\ arrived' = arrived + 1
  /\ Go(r, x)
  /\ UNCHANGED <<trades, events, cards, anchored>>

HasCard(i) == \E n \in DOMAIN cards : cards[n].trade = i
Faces(u, i) == Firm[u] # Firm[trades[i].owner]

(* latest_attested_event: what book_mirror copies.                         *)
Attested(i) == events[i] # <<>>
Attestation(i) == Last(events[i]).hash

----------------------------------------------------------------------------
Init ==
  /\ trades = <<>> /\ events = <<>> /\ cards = <<>>
  /\ anchored = {} /\ drawn = 0 /\ arrived = 0
  /\ request = [r \in Requests |-> Idle]

(* loose, a history variable: a route that does not look for the           *)
(* attestation has written other terms to the trade since it was attested. *)
Row(u, status, uti, terms, how) ==
  [owner |-> u, status |-> status, uti |-> uti, terms |-> terms, how |-> how, loose |-> FALSE]

(* POST /api/book/trade, without a UTI.                                    *)
Book(u, terms) ==
  /\ Cardinality({i \in DOMAIN trades : trades[i].how = "byHand"}) < MaxBooked
  /\ trades' = Append(trades, Row(u, "PENDING", NoUti, terms, "byHand"))
  /\ events' = Append(events, <<>>)
  /\ UNCHANGED <<cards, anchored, drawn, arrived, request>>

(***************************************************************************)
(* Sending and sharing.  One is for PENDING trades, the other for all that *)
(* are not cancelled; a trade that has its card is left alone.  ensure_uti *)
(* draws a UTI in the session when the row it loaded has none.             *)
(***************************************************************************)
Send(r, i) ==
  LET t == trades[i]  fresh == t.uti = NoUti IN
  /\ t.status # "CANCELLED" /\ ~HasCard(i)
  /\ drawn' = IF fresh THEN drawn + 1 ELSE drawn
  /\ Arrive(r, [Idle EXCEPT !.pc = "post", !.by = t.owner, !.on = i, !.fresh = fresh,
                            !.uti = IF fresh THEN drawn + 1 ELSE t.uti,
                            !.hash = Canonical(IF fresh THEN drawn + 1 ELSE t.uti, t.terms)])

(* Variant: no index.                                                     *)
IndexAllowsAll(u, uti, i) == TRUE

(* uq_trades_user_uti: a user holds one trade of a UTI, cancelled included. *)
IndexAllows(u, uti, i) ==
  \A j \in DOMAIN trades : j # i /\ trades[j].owner = u => trades[j].uti # uti

Post(r) ==
  LET x == request[r] IN
  /\ x.pc = "post"
  /\ cards' = Append(cards, [trade |-> x.on, hash |-> x.hash])
  /\ trades' = IF x.fresh THEN [trades EXCEPT ![x.on].uti = x.uti] ELSE trades
  /\ Go(r, Idle)
  /\ UNCHANGED <<events, anchored, drawn, arrived>>

(***************************************************************************)
(* Countersigning.  The signature is over the hash of the moment it comes  *)
(* in.  A record the registry already holds may be taken as the anchor, as *)
(* module Confirmation has it.                                             *)
(***************************************************************************)
Countersign(r, u, i, mirror) ==
  /\ HasCard(i) /\ Faces(u, i)
  /\ trades[i].status = "PENDING"
  /\ Arrive(r, [Idle EXCEPT !.pc = "anchor", !.by = u, !.on = i, !.hash = Hash(i), !.mirror = mirror])
  /\ UNCHANGED drawn

(* Variant: a failure of the chain is swallowed.                           *)
AnchorSwallowed(r) ==
  /\ request[r].pc = "anchor"
  /\ anchored' \in {anchored, anchored \union {request[r].hash}}
  /\ Go(r, [request[r] EXCEPT !.pc = "confirm"])
  /\ UNCHANGED <<trades, events, cards, drawn, arrived>>

Anchor(r) ==
  /\ request[r].pc = "anchor"
  /\ anchored' = anchored \union {request[r].hash}
  /\ Go(r, [request[r] EXCEPT !.pc = "confirm"])
  /\ UNCHANGED <<trades, events, cards, drawn, arrived>>

Event(hash, how, src) == [hash |-> hash, how |-> how, src |-> src]

(* _apply_lifecycle_transition: event and status in one commit, whatever   *)
(* the status has become.                                                  *)
Confirm(r) ==
  LET x == request[r] IN
  /\ x.pc = "confirm"
  /\ events' = [events EXCEPT ![x.on] = Append(@, Event(x.hash, "signed", x.on))]
  /\ trades' = [trades EXCEPT ![x.on].status = "CONFIRMED"]
  /\ Go(r, IF x.mirror THEN [Idle EXCEPT !.pc = "mirror", !.by = x.by, !.src = x.on] ELSE Idle)
  /\ UNCHANGED <<cards, anchored, drawn, arrived>>

(***************************************************************************)
(* The counterparty's own booking: book_mirror, after the countersignature *)
(* or from the card.                                                       *)
(***************************************************************************)
BookFromCard(r, u, i) ==
  /\ HasCard(i) /\ Faces(u, i)
  /\ Arrive(r, [Idle EXCEPT !.pc = "mirror", !.by = u, !.src = i])
  /\ UNCHANGED drawn

OwnBooking(u, uti) ==
  {i \in DOMAIN trades : trades[i].owner = u /\ trades[i].uti = uti /\ trades[i].status # "CANCELLED"}

(* UTIs, other than the shared one, that a trade of the booker's firm      *)
(* carries too.                                                            *)
Paired(u, src) ==
  {trades[j].uti : j \in {j \in DOMAIN trades : Faces(u, j)}} \ {NoUti, trades[src].uti}

(* Bookings of the signer's firm that may be the trade of src.             *)
Candidates(u, src) ==
  {i \in DOMAIN trades : /\ ~Faces(u, i)
                         /\ trades[i].status # "CANCELLED"
                         /\ trades[i].uti \notin Paired(u, src)}

Breaks(i, src) == IF trades[i].terms = trades[src].terms THEN 0 ELSE 1

(* The best match is any one with the fewest breaks.                       *)
Best(u, src) ==
  {i \in Candidates(u, src) : \A j \in Candidates(u, src) : Breaks(i, src) <= Breaks(j, src)}

(* Variant: not compared.                                                  *)
FitsUncompared(uti, terms, hash) == TRUE

(* What is saved must hash to the record that was anchored.                *)
Fits(uti, terms, hash) == Canonical(uti, terms) = hash

(* Nothing of the signer's own agrees: a new booking, from the source.     *)
BookAnew(r) ==
  LET src == request[r].src IN
  IF Fits(trades[src].uti, trades[src].terms, Attestation(src))
  THEN Pass(r, [request[r] EXCEPT !.pc = "book", !.uti = trades[src].uti,
                                  !.terms = trades[src].terms, !.hash = Attestation(src)])
  ELSE Refuse(r)

(* The signer's own booking agrees on every term: it takes the UTI.        *)
TakeOwn(r, i) ==
  LET src == request[r].src IN
  IF trades[i].status = "PENDING" /\ Fits(trades[src].uti, trades[i].terms, Attestation(src))
  THEN Pass(r, [request[r] EXCEPT !.pc = "link", !.on = i, !.uti = trades[src].uti,
                                  !.hash = Attestation(src)])
  ELSE Refuse(r)

(* A colleague's booking stays theirs to link.                             *)
Agrees(u, i, src) == trades[i].owner = u /\ Breaks(i, src) = 0

Lookup(r) ==
  LET u == request[r].by  src == request[r].src IN
  /\ request[r].pc = "mirror"
  /\ \/ /\ ~Attested(src) \/ OwnBooking(u, trades[src].uti) # {}
        /\ Refuse(r)
     \/ /\ Attested(src) /\ OwnBooking(u, trades[src].uti) = {}
        /\ \/ Best(u, src) = {} /\ BookAnew(r)
           \/ \E i \in Best(u, src) : IF Agrees(u, i, src) THEN TakeOwn(r, i) ELSE BookAnew(r)

(* _link_booking commits the UTI and the CONFIRMED event together.         *)
Link(r) ==
  LET x == request[r] IN
  /\ x.pc = "link" /\ IndexAllows(x.by, x.uti, x.on)
  /\ trades' = [trades EXCEPT ![x.on].uti = x.uti, ![x.on].status = "CONFIRMED"]
  /\ events' = [events EXCEPT ![x.on] = Append(@, Event(x.hash, "linked", x.src))]
  /\ Go(r, Idle)
  /\ UNCHANGED <<cards, anchored, drawn, arrived>>

(* Variant: the booking is saved without an event.                         *)
MirrorNoEvent(r) ==
  LET x == request[r] IN
  /\ x.pc = "book" /\ IndexAllows(x.by, x.uti, 0)
  /\ trades' = Append(trades, Row(x.by, "CONFIRMED", x.uti, x.terms, "mirror"))
  /\ Go(r, Idle)
  /\ UNCHANGED <<events, cards, anchored, drawn, arrived>>

(* The new booking and its CONFIRMED event, in one commit.                 *)
Mirror(r) ==
  LET x == request[r] IN
  /\ x.pc = "book" /\ IndexAllows(x.by, x.uti, 0)
  /\ trades' = Append(trades, Row(x.by, "CONFIRMED", x.uti, x.terms, "mirror"))
  /\ events' = Append(events, <<Event(x.hash, "booked", x.src)>>)
  /\ Go(r, Idle)
  /\ UNCHANGED <<cards, anchored, drawn, arrived>>

(* The chain or the index refuses, a commit fails, or the process dies:    *)
(* the open transaction is rolled back.                                    *)
Fails(r) == request[r].pc # "idle" /\ Refuse(r)

(***************************************************************************)
(* What the desk does to its own trades meanwhile.  PUT of a leg and of    *)
(* another status is refused to an anchored trade, a cancel to one that is *)
(* not PENDING, by what was loaded.                                        *)
(***************************************************************************)
StartEdit(r, i, terms) ==
  /\ ~Attested(i) /\ terms # trades[i].terms
  /\ Arrive(r, [Idle EXCEPT !.pc = "edit", !.by = trades[i].owner, !.on = i, !.terms = terms])
  /\ UNCHANGED drawn

Edit(r) ==
  /\ request[r].pc = "edit"
  /\ trades' = [trades EXCEPT ![request[r].on].terms = request[r].terms]
  /\ Go(r, Idle)
  /\ UNCHANGED <<events, cards, anchored, drawn, arrived>>

StartCancel(r, i) ==
  /\ trades[i].status = "PENDING"
  /\ Arrive(r, [Idle EXCEPT !.pc = "cancel", !.by = trades[i].owner, !.on = i])
  /\ UNCHANGED drawn

SetStatus(r, status) ==
  /\ trades' = [trades EXCEPT ![request[r].on].status = status]
  /\ Go(r, Idle)
  /\ UNCHANGED <<events, cards, anchored, drawn, arrived>>

Cancel(r) == request[r].pc = "cancel" /\ SetStatus(r, "CANCELLED")

Statuses == {"PENDING", "CONFIRMED", "CANCELLED"}

StartPut(r, i, status) ==
  /\ ~Attested(i) /\ status # trades[i].status
  /\ Arrive(r, [Idle EXCEPT !.pc = "put", !.by = trades[i].owner, !.on = i, !.status = status])
  /\ UNCHANGED drawn

Put(r) == request[r].pc = "put" /\ SetStatus(r, request[r].status)

(***************************************************************************)
(* A leg that is added, and the terms of a PUT of the trade, are for its   *)
(* owner's trades in any state: nobody looks for an attestation, and what  *)
(* is written is in the body of the request.                               *)
(***************************************************************************)
WriteTerms(i, terms) ==
  /\ terms # trades[i].terms
  /\ arrived < MaxArrivals /\ arrived' = arrived + 1
  /\ trades' = [trades EXCEPT ![i].terms = terms, ![i].loose = Attested(i)]
  /\ UNCHANGED <<events, cards, anchored, drawn, request>>

CreateLeg(i, terms) == WriteTerms(i, terms)
PutTerms(i, terms)  == WriteTerms(i, terms)

----------------------------------------------------------------------------
Next ==
  \/ \E u \in People, terms \in Terms : Book(u, terms)
  \/ \E r \in Requests, i \in DOMAIN trades :
       \/ Send(r, i)
       \/ \E u \in People, mirror \in BOOLEAN : Countersign(r, u, i, mirror)
       \/ \E u \in People : BookFromCard(r, u, i)
       \/ \E terms \in Terms : StartEdit(r, i, terms)
       \/ StartCancel(r, i)
       \/ \E status \in Statuses : StartPut(r, i, status)
  \/ \E i \in DOMAIN trades, terms \in Terms : CreateLeg(i, terms) \/ PutTerms(i, terms)
  \/ \E r \in Requests :
       \/ Post(r) \/ Anchor(r) \/ Confirm(r)
       \/ Lookup(r) \/ Link(r) \/ Mirror(r) \/ Fails(r)
       \/ Edit(r) \/ Cancel(r) \/ Put(r)

Spec == Init /\ [][Next]_vars
----------------------------------------------------------------------------
Utis   == 1..drawn
Hashes == Utis \X Terms

Trade == [owner : People, status : Statuses, uti : Utis \union {NoUti}, terms : Terms,
          how : {"byHand", "mirror"}, loose : BOOLEAN]

AttestedEvent == [hash : Hashes, how : {"signed", "linked", "booked"}, src : 1..Len(trades)]

Request == [pc : {"idle", "post", "anchor", "confirm", "mirror", "link", "book",
                  "edit", "cancel", "put"},
            by : People \union {Nobody}, on : 0..Len(trades), src : 0..Len(trades),
            uti : Utis \union {NoUti}, fresh : BOOLEAN, terms : Terms \union {NoTerms},
            status : Statuses, hash : Hashes \union {Idle.hash}, mirror : BOOLEAN]

(* The tables and the requests hold what their columns and parameters are  *)
(* declared to hold; rows point at rows that exist.                        *)
TypeOK ==
  /\ drawn \in Nat /\ arrived \in 0..MaxArrivals
  /\ trades \in Seq(Trade)
  /\ events \in Seq(Seq(AttestedEvent)) /\ Len(events) = Len(trades)
  /\ cards \in Seq([trade : 1..Len(trades), hash : Hashes])
  /\ anchored \subseteq Hashes
  /\ request \in [Requests -> Request]

(* A user holds one booking of a UTI, however many requests book or link   *)
(* their side of a trade at once, and whatever UTIs are drawn meanwhile.   *)
OneBookingPerUti ==
  \A i, j \in DOMAIN trades :
    /\ trades[i].owner = trades[j].owner
    /\ trades[i].uti = trades[j].uti /\ trades[i].uti # NoUti
    => i = j

(* A booking that was not countersigned itself is confirmed only by what   *)
(* the other firm's trade it mirrors was confirmed by, which is on the     *)
(* registry.  A mirror may be the source of a further one: its colleagues'. *)
MirrorBacked ==
  \A i \in DOMAIN events : \A n \in DOMAIN events[i] :
    LET e == events[i][n] IN
    /\ e.hash \in anchored
    /\ e.how # "signed" =>
         /\ Firm[trades[i].owner] # Firm[trades[e.src].owner]
         /\ \E m \in DOMAIN events[e.src] : events[e.src][m].hash = e.hash

(* The counterparty's side, once booked, stays confirmed, with the UTI     *)
(* that was anchored, and is the record that was, whatever has become of   *)
(* the trade it was booked from.  Of the routes that change terms only     *)
(* those that do not look for the attestation part it from its record.     *)
MirrorIsTheRecord ==
  \A i \in DOMAIN trades :
    LET t == trades[i] IN
    t.how = "mirror" =>
      /\ t.status = "CONFIRMED" /\ Attested(i)
      /\ t.uti = Attestation(i)[1]
      /\ ~t.loose => Hash(i) = Attestation(i)
=============================================================================
