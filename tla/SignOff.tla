------------------------------ MODULE SignOff ------------------------------
(***************************************************************************)
(* Closing one day of one book: the end-of-day profit and loss, its        *)
(* signatures, and the independent price verification (IPV) that turns it  *)
(* into the official figure.  pnl/report.py, api/routes/pnl.py, ipv/run.py,*)
(* ipv/store.py, api/routes/ipv.py.                                        *)
(*                                                                         *)
(* A report or an IPV run values the book for minutes and writes at the    *)
(* end, and any number of them overlap: the batch, the cron, the worker and*)
(* the browser's tabs.  Nothing is locked and no row carries a version.    *)
(* A figure is represented by what it was summed from.                     *)
(***************************************************************************)
EXTENDS Integers, Sequences, TLC

CONSTANTS Sessions,
          Owner, Controllers,   \* whose book; who may sign as controller
          Trades, Inputs,       \* trades; curves and surfaces they are valued on
          Uses,                 \* inputs of a trade
          NoSecond,             \* no second order computed yet
          MaxMoves,             \* bound: changes of the market and of the book
          MaxOverrides,         \* bound: overrides put
          MaxSigns,             \* bound: signatures
          MaxArrivals           \* bound: requests and batches begun

ASSUME ConstantsAssumption == /\ Uses \in [Trades -> SUBSET Inputs]
                              /\ MaxMoves \in Nat /\ MaxOverrides \in Nat /\ MaxSigns \in Nat
                              /\ MaxArrivals \in Nat

VARIABLES quote,      \* how often market or book have changed: what a mark is made on
          book,       \* the live trades
          unpriced,   \* trades no pricer can value on this market
          passing,    \* inputs no pillar of which needs a decision
          daily,      \* pnl_daily and eod_marks: the mark stored of a trade
          signs,      \* pnl_signoffs
          overrides,  \* ipv_overrides not withdrawn
          put,        \* overrides ever put
          run,        \* the ipv_runs row
          arrived,    \* how many requests and batches have begun
          session     \* the ones under way

market == <<quote, book, unpriced, passing>>
pnl    == <<daily, signs>>
ipv    == <<overrides, put, run>>
vars   == <<market, pnl, ipv, arrived, session>>

Decisions == {"none", "APPROVED", "WAIVED"}
NoRun == [status |-> "NONE", decisions |-> <<>>, over |-> {}, second |-> NoSecond]
Exists(r) == r.status # "NONE"
Idle == [op |-> "none", pc |-> "idle", by |-> Owner, input |-> "", choice |-> "none", rows |-> <<>>,
         prior |-> NoRun, book |-> {}, over |-> {}, second |-> NoSecond, gate |-> {},
         decisions |-> <<>>, seen |-> {}]

Go(s, x)   == session' = [session EXCEPT ![s] = x] /\ UNCHANGED arrived
At(s, pc)  == session[s].pc = pc
Start(s, x) == /\ At(s, "idle") /\ arrived < MaxArrivals
               /\ session' = [session EXCEPT ![s] = x] /\ arrived' = arrived + 1
Live       == [t \in book \ unpriced |-> quote]
Persisted  == DOMAIN daily # {}

----------------------------------------------------------------------------
Init ==
  /\ quote = 0 /\ book = Trades /\ unpriced = {} /\ passing \in SUBSET Inputs
  /\ daily = <<>>
  /\ signs = <<>>
  /\ overrides = {} /\ put = 0 /\ run = NoRun
  /\ arrived = 0
  /\ session = [s \in Sessions |-> Idle]

(* A trade is booked or closed, a market input is saved, independent marks *)
(* or tolerances change.                                                   *)
Move ==
  /\ quote < MaxMoves
  /\ quote' = quote + 1
  /\ \/ passing' \in SUBSET Inputs /\ UNCHANGED <<book, unpriced>>
     \/ \E t \in Trades : \/ book' = (book \ {t}) \union ({t} \ book) /\ UNCHANGED <<unpriced, passing>>
                          \/ unpriced' = (unpriced \ {t}) \union ({t} \ unpriced) /\ UNCHANGED <<book, passing>>
  /\ UNCHANGED <<pnl, ipv, arrived, session>>

(***************************************************************************)
(* Profit and loss: end of day, the cron's tick, signatures.  Each values  *)
(* the book, then writes.                                                  *)
(***************************************************************************)
EndOfDay(s, op) ==
  /\ op = "tick" => ~Persisted
  /\ Start(s, [Idle EXCEPT !.op = "eod", !.pc = "report"])
  /\ UNCHANGED <<market, pnl, ipv>>

(* policy: risk_settings.signoff_policy, which may be PUT at any time.      *)
SignDay(s, p, role, policy) ==
  /\ role = "TRADER" => p = Owner
  /\ role = "CONTROLLER" => p \in Controllers
  /\ role = "CONTROLLER" /\ policy = "TWO_PERSON"
       => ~\E i \in DOMAIN signs : signs[i].role = "TRADER" /\ signs[i].by = p
  /\ Start(s, [Idle EXCEPT !.op = role, !.pc = "report", !.by = p])
  /\ UNCHANGED <<market, pnl, ipv>>

(* The report of a signature is a new one; whether the day is stored       *)
(* already is read with it.                                                *)
Report(s) ==
  /\ At(s, "report")
  /\ Go(s, [session[s] EXCEPT !.rows = Live,
                              !.pc = IF session[s].op # "eod" /\ Persisted THEN "sign" ELSE "persist"])
  /\ UNCHANGED <<market, pnl, ipv>>

Replacing(rows, old) ==
  [t \in DOMAIN rows \union DOMAIN old |-> IF t \in DOMAIN rows THEN rows[t] ELSE old[t]]

(* Variant of Persist: a signature does not wait for the day to be stored. *)
PersistAfterEndOfDay(s) ==
  /\ At(s, "persist")
  /\ daily' = IF session[s].op = "eod" THEN Replacing(session[s].rows, daily) ELSE daily
  /\ Go(s, IF session[s].op = "eod" THEN Idle ELSE [session[s] EXCEPT !.pc = "sign"])
  /\ UNCHANGED <<market, signs, ipv>>

(* Rows are replaced trade by trade; the rows of trades the report does    *)
(* not have stay.                                                          *)
Persist(s) ==
  /\ At(s, "persist")
  /\ daily' = Replacing(session[s].rows, daily)
  /\ Go(s, IF session[s].op = "eod" THEN Idle ELSE [session[s] EXCEPT !.pc = "sign"])
  /\ UNCHANGED <<market, signs, ipv>>

Signature(role, by, x) == [role |-> role, by |-> by, rows |-> x.rows, over |-> x.over, second |-> x.second]

Sign(s) ==
  /\ At(s, "sign") /\ Len(signs) < MaxSigns
  /\ signs' = Append(signs, Signature(session[s].op, session[s].by, session[s]))
  /\ Go(s, Idle)
  /\ UNCHANGED <<market, daily, ipv>>

(***************************************************************************)
(* The IPV run.  build(): the stored run is read for its decisions, then   *)
(* the trades and the overrides, then the marks and the day's profit and   *)
(* loss; the result replaces the stored run, except its status.            *)
(***************************************************************************)
Build(s, op) ==                \* POST /run and the worker, POST /apply, POST /signoff
  /\ op # "run" => Owner \in Controllers
  /\ Start(s, [Idle EXCEPT !.op = op, !.pc = "assess", !.prior = run])
  /\ UNCHANGED <<market, pnl, ipv>>

ReadPrior(s) ==
  /\ At(s, "prior")
  /\ Go(s, [session[s] EXCEPT !.pc = "assess", !.prior = run])
  /\ UNCHANGED <<market, pnl, ipv>>

Assess(s) ==
  /\ At(s, "assess")
  /\ Go(s, [session[s] EXCEPT !.pc = "value", !.book = book, !.over = overrides])
  /\ UNCHANGED <<market, pnl, ipv>>

DecisionOf(x, c) == IF c \in DOMAIN x.prior.decisions THEN x.prior.decisions[c] ELSE "none"

Dependencies(x) == UNION {Uses[t] : t \in x.book}

(* Neither overridden, nor decided, nor passing on its own.                *)
Pending(x) == {c \in Dependencies(x) : DecisionOf(x, c) = "none" /\ c \notin passing /\ ~\E o \in x.over : o[1] = c}

(* Variant of Applies: the sign-off takes the last revaluation.            *)
AppliesOnRequest(op) == op = "apply"
Applies(op) == op \in {"apply", "sign"}

(* A stored day has no problems: only a day valued now tells the gate what *)
(* could not be.  The second order is revalued when asked, else it is the  *)
(* one of the prior run.                                                   *)
Value(s) ==
  LET x      == session[s]
      failed == x.book \intersect book \intersect unpriced
  IN  /\ At(s, "value")
      /\ Go(s, [x EXCEPT !.pc = "store", !.book = {},
                         !.decisions = [c \in Dependencies(x) |-> DecisionOf(x, c)],
                         !.gate = Pending(x) \union IF Persisted THEN {} ELSE failed,
                         !.second = IF Applies(x.op) THEN x.over ELSE x.prior.second])
      /\ UNCHANGED <<market, pnl, ipv>>

(* Variant of StatusKept: the upsert writes the status the build read.     *)
StatusRead(x) == IF Exists(x.prior) THEN x.prior.status ELSE "OPEN"
StatusKept(x) == IF Exists(run) THEN run.status ELSE "OPEN"

Store(s) ==
  LET x == session[s] IN
  /\ At(s, "store")
  /\ run' = [status |-> StatusKept(x), decisions |-> x.decisions, over |-> x.over, second |-> x.second]
  /\ Go(s, IF x.op = "sign" /\ x.gate = {}
           THEN [x EXCEPT !.pc = "mark", !.prior = NoRun, !.decisions = <<>>] ELSE Idle)
  /\ UNCHANGED <<market, pnl, overrides, put>>

Mark(s) ==
  /\ At(s, "mark") /\ Len(signs) < MaxSigns
  /\ run' = [run EXCEPT !.status = "SIGNED"]
  /\ signs' = Append(signs, Signature("IPV", Owner, session[s]))
  /\ Go(s, Idle)
  /\ UNCHANGED <<market, daily, overrides, put>>

(***************************************************************************)
(* Overrides and decisions, each followed by a build.  An override first   *)
(* withdraws the ones it sees of its pillar.                               *)
(***************************************************************************)
PutOverride(s, c) ==
  /\ Owner \in Controllers
  /\ put < MaxOverrides
  /\ Start(s, [Idle EXCEPT !.op = "override", !.pc = "insert", !.input = c,
                           !.seen = {o \in overrides : o[1] = c}])
  /\ UNCHANGED <<market, pnl, ipv>>

InsertOverride(s) ==
  LET x == session[s] IN
  /\ At(s, "insert") /\ put < MaxOverrides
  /\ put' = put + 1
  /\ overrides' = (overrides \ x.seen) \union {<<x.input, put + 1>>}
  /\ Go(s, [Idle EXCEPT !.op = "run", !.pc = "prior"])
  /\ UNCHANGED <<market, pnl, run>>

Withdraw(s, o) ==
  /\ Owner \in Controllers
  /\ overrides' = overrides \ {o}
  /\ Start(s, [Idle EXCEPT !.op = "run", !.pc = "prior"])
  /\ UNCHANGED <<market, pnl, put, run>>

Decide(s, c, choice) ==
  /\ Owner \in Controllers
  /\ Exists(run) /\ c \in DOMAIN run.decisions
  /\ Start(s, [Idle EXCEPT !.op = "decide", !.pc = "decide", !.input = c, !.choice = choice,
                           !.prior = run])
  /\ UNCHANGED <<market, pnl, ipv>>

(* Variant of Decided: input and decision swapped.                         *)
DecidedSwapped(x) == [x.prior EXCEPT !.decisions = (x.choice :> x.input) @@ @, !.status = run.status]
Decided(x) == [x.prior EXCEPT !.decisions[x.input] = x.choice, !.status = run.status]

(* The whole run it read is written back, with the decision.               *)
StoreDecision(s) ==
  LET x == session[s] IN
  /\ At(s, "decide")
  /\ run' = Decided(x)
  /\ Go(s, [Idle EXCEPT !.op = "run", !.pc = "prior"])
  /\ UNCHANGED <<market, pnl, overrides, put>>

(* A report or a run that raises, or its process, stops where it is: what  *)
(* it has committed stays.                                                 *)
Fail(s) ==
  /\ ~At(s, "idle")
  /\ Go(s, Idle)
  /\ UNCHANGED <<market, pnl, ipv>>

Next ==
  \/ Move
  \/ \E s \in Sessions :
       \/ \E op \in {"eod", "tick"} : EndOfDay(s, op)
       \/ \E p \in Controllers \union {Owner}, role \in {"TRADER", "CONTROLLER"},
             policy \in {"TWO_PERSON", "SINGLE"} : SignDay(s, p, role, policy)
       \/ Report(s) \/ Persist(s) \/ Sign(s)
       \/ \E op \in {"run", "apply", "sign"} : Build(s, op)
       \/ ReadPrior(s) \/ Assess(s) \/ Value(s) \/ Store(s) \/ Mark(s)
       \/ \E c \in Inputs : PutOverride(s, c) \/ \E choice \in {"APPROVED", "WAIVED"} : Decide(s, c, choice)
       \/ \E o \in overrides : Withdraw(s, o)
       \/ InsertOverride(s) \/ StoreDecision(s) \/ Fail(s)

Spec == Init /\ [][Next]_vars

----------------------------------------------------------------------------
Overrides      == Inputs \X (1..MaxOverrides)
SecondOrders   == {NoSecond} \union SUBSET Overrides
Partial(S, T)  == UNION {[D -> T] : D \in SUBSET S}
Marks          == Partial(Trades, 0..MaxMoves)
DecisionsTaken == Partial(Inputs, Decisions)

Runs    == [status : {"NONE", "OPEN", "SIGNED"}, decisions : DecisionsTaken,
            over : SUBSET Overrides, second : SecondOrders]
Signoff == [role : {"TRADER", "CONTROLLER", "IPV"}, by : Controllers \union {Owner}, rows : Marks,
            over : SUBSET Overrides, second : SecondOrders]

(* What is stored is well formed, and so is what a session holds of it: a  *)
(* decision is written on a run that exists, for an input it has.          *)
MarketOK ==
  /\ quote \in 0..MaxMoves /\ book \subseteq Trades /\ unpriced \subseteq Trades /\ passing \subseteq Inputs
  /\ put \in 0..MaxOverrides /\ overrides \subseteq Overrides
StoredOK == daily \in Marks /\ signs \in Seq(Signoff) /\ run \in Runs
Session ==
  [op : {"none", "eod", "TRADER", "CONTROLLER", "run", "apply", "sign", "override", "decide"},
   pc : {"idle", "report", "persist", "sign", "prior", "assess", "value", "store", "mark", "insert", "decide"},
   by : Controllers \union {Owner}, input : Inputs \union {""}, choice : Decisions, rows : Marks,
   prior : Runs, book : SUBSET Trades, over : SUBSET Overrides, second : SecondOrders,
   gate : SUBSET (Inputs \union Trades), decisions : DecisionsTaken, seen : SUBSET Overrides]
SessionOK(x, r) ==
  /\ x.pc \in {"report", "persist"} => x.op \in {"eod", "TRADER", "CONTROLLER"}
  /\ x.pc = "sign" => x.op \in {"TRADER", "CONTROLLER"}
  /\ x.pc = "insert" => x.input \in Inputs
  /\ x.pc = "decide" => /\ Exists(r) /\ Exists(x.prior)
                        /\ x.input \in DOMAIN x.prior.decisions
  /\ x.pc = "mark" => Exists(r) /\ x.op = "sign"
TypeOK ==
  /\ MarketOK /\ StoredOK /\ session \in [Sessions -> Session]
  /\ \A s \in Sessions : SessionOK(session[s], run)

(* A signed run stays signed, though builds that read it before it was     *)
(* signed write it back afterwards.                                        *)
SignedStays == [][run.status = "SIGNED" => run'.status = "SIGNED"]_vars

(* The official figure signed counts each override at both orders or at    *)
(* none: the second order a run carries over from an earlier one is never  *)
(* part of it, whatever overrides are put or withdrawn meanwhile.          *)
OfficialWhole == \A i \in DOMAIN signs : signs[i].role = "IPV" => signs[i].second = signs[i].over

(* A trader or a controller who signs a figure of some trades signs a day  *)
(* that is stored, so that month and year to date count it.                *)
SignedDayIsStored ==
  \A i \in DOMAIN signs : signs[i].role # "IPV" /\ DOMAIN signs[i].rows # {} => Persisted
=============================================================================
