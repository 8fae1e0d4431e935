---------------------------- MODULE SignOffProofs ----------------------------
(* Theorems about closing a day, for every set of sessions, trades and     *)
(* inputs, every owner and controllers, and any number of each bound.      *)
EXTENDS SignOff, SequenceTheorems, TLAPS

(* A partial function is one on its own domain.                            *)
LEMMA PartialDef ==
  ASSUME NEW S, NEW T, NEW f
  PROVE  f \in Partial(S, T) <=> f \in [DOMAIN f -> T] /\ DOMAIN f \subseteq S
<1>1. ASSUME f \in Partial(S, T) PROVE f \in [DOMAIN f -> T] /\ DOMAIN f \subseteq S
  <2>1. PICK D \in SUBSET S : f \in [D -> T]
    BY <1>1 DEF Partial
  <2>2. QED
    BY <2>1
<1>2. ASSUME f \in [DOMAIN f -> T], DOMAIN f \subseteq S PROVE f \in Partial(S, T)
  BY <1>2 DEF Partial
<1>3. QED
  BY <1>1, <1>2

LEMMA EmptyPartial ==
  ASSUME NEW S, NEW T
  PROVE  <<>> \in Partial(S, T)
<1>1. <<>> \in [{} -> T]
  BY SMT
<1>2. QED
  BY <1>1 DEF Partial

LEMMA NothingYet == NoRun \in Runs /\ Idle \in Session /\ ~Exists(NoRun)
<1>1. NoRun \in Runs
  BY EmptyPartial DEF NoRun, Runs, DecisionsTaken, SecondOrders
<1>2. Idle \in Session
  BY <1>1, EmptyPartial DEF Idle, Session, DecisionsTaken, Decisions, Marks, SecondOrders
<1>3. QED
  BY <1>1, <1>2 DEF NoRun, Exists

(* At these points a session has nothing to write yet.                     *)
LEMMA Harmless ==
  ASSUME NEW y, NEW r, y.pc \in {"idle", "prior", "assess", "value", "store"}
  PROVE  SessionOK(y, r)
BY DEF SessionOK

(* What a session turns into is all there is to check of the sessions, as  *)
(* long as the stored run does not vanish.                                 *)
LEMMA SessionsStep ==
  ASSUME TypeOK, NEW s \in Sessions, NEW y \in Session,
         session' = [session EXCEPT ![s] = y],
         SessionOK(y, run'), Exists(run) => Exists(run')
  PROVE  /\ session' \in [Sessions -> Session]
         /\ \A q \in Sessions : SessionOK(session'[q], run')
         /\ session'[s] = y /\ \A q \in Sessions \ {s} : session'[q] = session[q]
<1>1. session \in [Sessions -> Session]
  BY DEF TypeOK
<1>2. session' \in [Sessions -> Session] /\ session'[s] = y /\ \A q \in Sessions \ {s} : session'[q] = session[q]
  BY <1>1
<1>3. ASSUME NEW q \in Sessions PROVE SessionOK(session'[q], run')
  <2>1. CASE q = s
    BY <2>1, <1>2
  <2>2. CASE q # s
    <3>1. session'[q] = session[q] /\ SessionOK(session[q], run)
      BY <2>2, <1>2 DEF TypeOK
    <3>2. QED
      BY <3>1 DEF SessionOK
  <2>3. QED
    BY <2>1, <2>2
<1>4. QED
  BY <1>2, <1>3

(* The parts of TypeOK make up TypeOK in the next state.                   *)
LEMMA TypeStep ==
  ASSUME MarketOK', StoredOK', session' \in [Sessions -> Session],
         \A q \in Sessions : SessionOK(session'[q], run')
  PROVE  TypeOK'
BY DEF TypeOK

(* Actions that only move a session: stored figures and the market stay.   *)
LEMMA SessionOnly ==
  ASSUME TypeOK, NEW s \in Sessions, NEW y \in Session, UNCHANGED <<market, pnl, ipv>>,
         session' = [session EXCEPT ![s] = y], SessionOK(y, run)
  PROVE  TypeOK'
<1>1. MarketOK' /\ StoredOK' /\ run' = run
  BY DEF TypeOK, MarketOK, StoredOK, market, pnl, ipv
<1>2. QED
  BY <1>1, SessionsStep, TypeStep

(* Every action of a session, and what it makes of it.                     *)
LEMMA SessionType ==
  ASSUME TypeOK, NEW s \in Sessions
  PROVE  session[s] \in Session /\ SessionOK(session[s], run)
BY DEF TypeOK

LEMMA LiveType ==
  ASSUME TypeOK
  PROVE  Live \in Marks
<1>1. book \ unpriced \subseteq Trades /\ quote \in 0..MaxMoves
  BY DEF TypeOK, MarketOK
<1>2. Live \in [book \ unpriced -> 0..MaxMoves]
  BY <1>1 DEF Live
<1>3. QED
  BY <1>1, <1>2 DEF Marks, Partial

LEMMA MoveType == TypeOK /\ Move => TypeOK'
<1>. SUFFICES ASSUME TypeOK, Move PROVE TypeOK'
  OBVIOUS
<1>1. UNCHANGED <<pnl, ipv, arrived, session>>
  BY DEF Move
<1>2. quote' \in 0..MaxMoves
  BY ConstantsAssumption DEF Move, TypeOK, MarketOK
<1>3. book' \subseteq Trades /\ unpriced' \subseteq Trades /\ passing' \subseteq Inputs
  BY DEF Move, TypeOK, MarketOK
<1>4. MarketOK'
  BY <1>1, <1>2, <1>3 DEF TypeOK, MarketOK, ipv
<1>5. StoredOK'
  BY <1>1 DEF TypeOK, StoredOK, pnl, ipv
<1>6. session' \in [Sessions -> Session] /\ \A q \in Sessions : SessionOK(session'[q], run')
  BY <1>1 DEF TypeOK, ipv
<1>7. QED
  BY <1>4, <1>5, <1>6, TypeStep

LEMMA BeginsType ==
  ASSUME TypeOK, NEW s \in Sessions,
         \/ \E op \in {"eod", "tick"} : EndOfDay(s, op)
         \/ \E p \in Controllers \union {Owner}, role \in {"TRADER", "CONTROLLER"},
               policy \in {"TWO_PERSON", "SINGLE"} : SignDay(s, p, role, policy)
         \/ \E op \in {"run", "apply", "sign"} : Build(s, op)
         \/ \E c \in Inputs : PutOverride(s, c) \/ \E choice \in {"APPROVED", "WAIVED"} : Decide(s, c, choice)
  PROVE  TypeOK'
<1>0. run \in Runs /\ overrides \subseteq Overrides
  BY DEF TypeOK, MarketOK, StoredOK
<1>1. CASE \E op \in {"eod", "tick"} : EndOfDay(s, op)
  <2>. DEFINE y == [Idle EXCEPT !.op = "eod", !.pc = "report"]
  <2>1. y \in Session /\ SessionOK(y, run)
    BY NothingYet DEF Session, SessionOK
  <2>2. session' = [session EXCEPT ![s] = y] /\ UNCHANGED <<market, pnl, ipv>>
    BY <1>1 DEF EndOfDay, Start
  <2>3. QED
    BY <2>1, <2>2, SessionOnly
<1>2. ASSUME NEW p \in Controllers \union {Owner}, NEW role \in {"TRADER", "CONTROLLER"},
             NEW policy \in {"TWO_PERSON", "SINGLE"}, SignDay(s, p, role, policy)
      PROVE TypeOK'
  <2>. DEFINE y == [Idle EXCEPT !.op = role, !.pc = "report", !.by = p]
  <2>1. y \in Session /\ SessionOK(y, run)
    BY NothingYet DEF Session, SessionOK
  <2>2. session' = [session EXCEPT ![s] = y] /\ UNCHANGED <<market, pnl, ipv>>
    BY <1>2 DEF SignDay, Start
  <2>3. QED
    BY <2>1, <2>2, SessionOnly
<1>3. ASSUME NEW op \in {"run", "apply", "sign"}, Build(s, op)
      PROVE TypeOK'
  <2>. DEFINE y == [Idle EXCEPT !.op = op, !.pc = "assess", !.prior = run]
  <2>1. y \in Session /\ SessionOK(y, run)
    <3>1. y \in Session
      BY <1>0, NothingYet DEF Session
    <3>2. y.pc = "assess"
      BY <1>0, NothingYet DEF Session
    <3>. HIDE DEF y
    <3>3. QED
      BY <3>1, <3>2, Harmless
  <2>2. session' = [session EXCEPT ![s] = y] /\ UNCHANGED <<market, pnl, ipv>>
    BY <1>3 DEF Build, Start
  <2>3. QED
    BY <2>1, <2>2, SessionOnly
<1>4. ASSUME NEW c \in Inputs, PutOverride(s, c)
      PROVE TypeOK'
  <2>. DEFINE y == [Idle EXCEPT !.op = "override", !.pc = "insert", !.input = c,
                                !.seen = {o \in overrides : o[1] = c}]
  <2>1. y \in Session /\ SessionOK(y, run)
    <3>1. y \in Session
      BY <1>0, NothingYet DEF Session
    <3>2. y.pc = "insert" /\ y.input = c
      BY <1>0, NothingYet DEF Session
    <3>3. QED
      BY <3>1, <3>2 DEF SessionOK
  <2>2. session' = [session EXCEPT ![s] = y] /\ UNCHANGED <<market, pnl, ipv>>
    BY <1>4 DEF PutOverride, Start
  <2>3. QED
    BY <2>1, <2>2, SessionOnly
<1>5. ASSUME NEW c \in Inputs, NEW choice \in {"APPROVED", "WAIVED"}, Decide(s, c, choice)
      PROVE TypeOK'
  <2>. DEFINE y == [Idle EXCEPT !.op = "decide", !.pc = "decide", !.input = c, !.choice = choice,
                                !.prior = run]
  <2>1. y \in Session
    BY <1>0, NothingYet DEF Session, Decisions
  <2>2. SessionOK(y, run)
    BY <1>0, <1>5, NothingYet DEF Decide, Session, SessionOK
  <2>3. session' = [session EXCEPT ![s] = y] /\ UNCHANGED <<market, pnl, ipv>>
    BY <1>5 DEF Decide, Start
  <2>4. QED
    BY <2>1, <2>2, <2>3, SessionOnly
<1>6. QED
  BY <1>1, <1>2, <1>3, <1>4, <1>5

(* Reading, valuing and failing change only the session.                   *)
LEMMA ReadsType ==
  ASSUME TypeOK, NEW s \in Sessions,
         Report(s) \/ ReadPrior(s) \/ Assess(s) \/ Value(s) \/ Fail(s)
  PROVE  TypeOK'
<1>0. /\ run \in Runs /\ overrides \subseteq Overrides /\ book \subseteq Trades /\ passing \subseteq Inputs
      /\ session[s] \in Session /\ SessionOK(session[s], run)
  BY SessionType DEF TypeOK, MarketOK, StoredOK
<1>1. CASE Report(s)
  <2>. DEFINE pc == IF session[s].op # "eod" /\ Persisted THEN "sign" ELSE "persist"
              y == [session[s] EXCEPT !.rows = Live, !.pc = pc]
  <2>1. y \in Session
    BY <1>0, LiveType DEF Session
  <2>2. SessionOK(y, run)
    BY <1>0, <1>1 DEF Report, At, Session, SessionOK
  <2>3. session' = [session EXCEPT ![s] = y] /\ UNCHANGED <<market, pnl, ipv>>
    BY <1>1 DEF Report, Go
  <2>4. QED
    BY <2>1, <2>2, <2>3, SessionOnly
<1>2. CASE ReadPrior(s)
  <2>. DEFINE y == [session[s] EXCEPT !.pc = "assess", !.prior = run]
  <2>1. y \in Session /\ SessionOK(y, run)
    <3>1. y \in Session
      BY <1>0 DEF Session
    <3>2. y.pc \in {"assess", "value"}
      BY <1>0 DEF Session
    <3>. HIDE DEF y
    <3>3. QED
      BY <3>1, <3>2, Harmless
  <2>2. session' = [session EXCEPT ![s] = y] /\ UNCHANGED <<market, pnl, ipv>>
    BY <1>2 DEF ReadPrior, Go
  <2>3. QED
    BY <2>1, <2>2, SessionOnly
<1>3. CASE Assess(s)
  <2>. DEFINE y == [session[s] EXCEPT !.pc = "value", !.book = book, !.over = overrides]
  <2>1. y \in Session /\ SessionOK(y, run)
    <3>1. y \in Session
      BY <1>0 DEF Session
    <3>2. y.pc \in {"assess", "value"}
      BY <1>0 DEF Session
    <3>. HIDE DEF y
    <3>3. QED
      BY <3>1, <3>2, Harmless
  <2>2. session' = [session EXCEPT ![s] = y] /\ UNCHANGED <<market, pnl, ipv>>
    BY <1>3 DEF Assess, Go
  <2>3. QED
    BY <2>1, <2>2, SessionOnly
<1>4. CASE Value(s)
  <2>. DEFINE x == session[s]
              d == [c \in Dependencies(x) |-> DecisionOf(x, c)]
              failed == x.book \intersect book \intersect unpriced
              g == Pending(x) \union IF Persisted THEN {} ELSE failed
              o == IF Applies(x.op) THEN x.over ELSE x.prior.second
              y == [x EXCEPT !.pc = "store", !.book = {}, !.decisions = d, !.gate = g, !.second = o]
  <2>1. /\ x.book \subseteq Trades /\ x.prior \in Runs /\ x.over \in SecondOrders
        /\ x.prior.second \in SecondOrders /\ x.prior.decisions \in Partial(Inputs, Decisions)
    BY <1>0 DEF Session, Runs, SecondOrders, DecisionsTaken
  <2>2. Dependencies(x) \subseteq Inputs
    BY <2>1, ConstantsAssumption DEF Dependencies
  <2>3. \A c : DecisionOf(x, c) \in Decisions
    <3>1. x.prior.decisions \in [DOMAIN x.prior.decisions -> Decisions]
      BY <2>1, PartialDef
    <3>2. QED
      BY <3>1 DEF DecisionOf, Decisions
  <2>4. d \in DecisionsTaken
    <3>1. d \in [Dependencies(x) -> Decisions]
      BY <2>3
    <3>2. QED
      BY <2>2, <3>1 DEF DecisionsTaken, Partial
  <2>5. g \subseteq Inputs \union Trades
    BY <2>1, <2>2 DEF Pending
  <2>6. o \in SecondOrders
    BY <2>1
  <2>7. session' = [session EXCEPT ![s] = y] /\ UNCHANGED <<market, pnl, ipv>>
    BY <1>4 DEF Value, Go
  <2>. HIDE DEF d, g, o
  <2>8. y \in Session
    BY <1>0, <2>4, <2>5, <2>6 DEF Session
  <2>9. SessionOK(y, run)
    BY <1>0 DEF Session, SessionOK
  <2>10. QED
    BY <2>7, <2>8, <2>9, SessionOnly
<1>5. CASE Fail(s)
  <2>1. SessionOK(Idle, run)
    BY DEF Idle, SessionOK
  <2>2. session' = [session EXCEPT ![s] = Idle] /\ UNCHANGED <<market, pnl, ipv>>
    BY <1>5 DEF Fail, Go
  <2>3. QED
    BY <2>1, <2>2, NothingYet, SessionOnly
<1>6. QED
  BY <1>1, <1>2, <1>3, <1>4, <1>5

(***************************************************************************)
(* The commits                                                             *)
(***************************************************************************)
LEMMA MergedMarks ==
  ASSUME NEW f \in Marks, NEW g \in Marks
  PROVE  Replacing(f, g) \in Marks /\ DOMAIN Replacing(f, g) = DOMAIN f \union DOMAIN g
<1>. DEFINE T == 0..MaxMoves
<1>1. /\ f \in [DOMAIN f -> T] /\ DOMAIN f \subseteq Trades
      /\ g \in [DOMAIN g -> T] /\ DOMAIN g \subseteq Trades
  BY PartialDef DEF Marks
<1>2. Replacing(f, g) = [t \in DOMAIN f \union DOMAIN g |-> IF t \in DOMAIN f THEN f[t] ELSE g[t]]
  BY DEF Replacing
<1>. HIDE DEF T
<1>3. Replacing(f, g) \in [DOMAIN f \union DOMAIN g -> T]
  BY <1>1, <1>2
<1>4. DOMAIN f \union DOMAIN g \in SUBSET Trades
  BY <1>1
<1>5. Replacing(f, g) \in Partial(Trades, T)
  BY <1>3, <1>4 DEF Partial
<1>6. QED
  BY <1>2, <1>5 DEF Marks, T

LEMMA PersistType ==
  ASSUME TypeOK, NEW s \in Sessions, Persist(s)
  PROVE  TypeOK' /\ DOMAIN daily' = DOMAIN session[s].rows \union DOMAIN daily
<1>. DEFINE y == IF session[s].op = "eod" THEN Idle ELSE [session[s] EXCEPT !.pc = "sign"]
<1>1. session[s] \in Session /\ SessionOK(session[s], run) /\ session[s].pc = "persist"
  BY SessionType DEF Persist, At
<1>2. session' = [session EXCEPT ![s] = y] /\ UNCHANGED <<market, signs, ipv>> /\ run' = run
  BY DEF Persist, Go, ipv
<1>3. y \in Session /\ SessionOK(y, run')
  BY <1>1, <1>2, NothingYet DEF Session, SessionOK, Idle
<1>4. session[s].rows \in Marks /\ daily \in Marks /\ daily' = Replacing(session[s].rows, daily)
  BY <1>1 DEF Session, Persist, TypeOK, StoredOK
<1>5. daily' \in Marks /\ DOMAIN daily' = DOMAIN session[s].rows \union DOMAIN daily
  BY <1>4, MergedMarks
<1>6. MarketOK' /\ StoredOK'
  BY <1>2, <1>5 DEF TypeOK, MarketOK, StoredOK, market, ipv
<1>7. QED
  BY <1>2, <1>3, <1>5, <1>6, SessionsStep, TypeStep

LEMMA SignType ==
  ASSUME TypeOK, NEW s \in Sessions, Sign(s)
  PROVE  TypeOK'
<1>. DEFINE z == Signature(session[s].op, session[s].by, session[s])
<1>1. session[s] \in Session /\ session[s].op \in {"TRADER", "CONTROLLER"}
  BY SessionType DEF Sign, At, SessionOK
<1>2. z \in Signoff
  BY <1>1 DEF Session, Signoff, Signature
<1>3. signs' = Append(signs, z) /\ session' = [session EXCEPT ![s] = Idle]
      /\ UNCHANGED <<market, daily, ipv>> /\ run' = run
  BY DEF Sign, Go, ipv
<1>4. signs' \in Seq(Signoff)
  BY <1>2, <1>3, AppendProperties DEF TypeOK, StoredOK
<1>5. MarketOK' /\ StoredOK'
  BY <1>3, <1>4 DEF TypeOK, MarketOK, StoredOK, market, ipv
<1>6. SessionOK(Idle, run')
  BY DEF SessionOK, Idle
<1>7. QED
  BY <1>3, <1>5, <1>6, NothingYet, SessionsStep, TypeStep

LEMMA StoreType ==
  ASSUME TypeOK, NEW s \in Sessions, Store(s)
  PROVE  /\ TypeOK' /\ run'.status = StatusKept(session[s])
<1>. DEFINE x == session[s]
            y == IF x.op = "sign" /\ x.gate = {}
                 THEN [x EXCEPT !.pc = "mark", !.prior = NoRun, !.decisions = <<>>] ELSE Idle
<1>1. x \in Session /\ run \in Runs
  BY SessionType DEF TypeOK, StoredOK
<1>2. /\ run' = [status |-> StatusKept(x), decisions |-> x.decisions, over |-> x.over, second |-> x.second]
      /\ session' = [session EXCEPT ![s] = y] /\ UNCHANGED <<market, pnl, overrides, put>>
  BY DEF Store, Go
<1>3. StatusKept(x) \in {"OPEN", "SIGNED"}
  BY <1>1 DEF StatusKept, Exists, Runs
<1>4. run' \in Runs /\ Exists(run') /\ run'.status = StatusKept(x)
  BY <1>1, <1>2, <1>3 DEF Session, Runs, Exists
<1>5. y \in Session
  <2>1. NoRun \in Runs /\ <<>> \in DecisionsTaken /\ Idle \in Session
    BY NothingYet, EmptyPartial DEF DecisionsTaken
  <2>2. [x EXCEPT !.pc = "mark", !.prior = NoRun, !.decisions = <<>>] \in Session
    BY <1>1, <2>1 DEF Session
  <2>3. QED
    BY <2>1, <2>2
<1>6. SessionOK(y, run')
  BY <1>1, <1>4 DEF Session, SessionOK, Idle
<1>7. MarketOK' /\ StoredOK'
  BY <1>2, <1>4 DEF TypeOK, MarketOK, StoredOK, market, pnl
<1>8. QED
  BY <1>2, <1>4, <1>5, <1>6, <1>7, SessionsStep, TypeStep

LEMMA MarkType ==
  ASSUME TypeOK, NEW s \in Sessions, Mark(s)
  PROVE  TypeOK' /\ run'.status = "SIGNED"
<1>. DEFINE z == Signature("IPV", Owner, session[s])
<1>1. session[s] \in Session /\ run \in Runs
  BY SessionType DEF TypeOK, StoredOK
<1>2. z \in Signoff
  BY <1>1 DEF Session, Signoff, Signature
<1>3. signs' = Append(signs, z) /\ session' = [session EXCEPT ![s] = Idle]
      /\ UNCHANGED <<market, daily, overrides, put>>
  BY DEF Mark, Go
<1>4. run' \in Runs /\ run'.status = "SIGNED" /\ Exists(run')
  BY <1>1 DEF Mark, Runs, Exists
<1>5. signs' \in Seq(Signoff)
  BY <1>2, <1>3, AppendProperties DEF TypeOK, StoredOK
<1>6. MarketOK' /\ StoredOK'
  BY <1>3, <1>4, <1>5 DEF TypeOK, MarketOK, StoredOK, market
<1>7. SessionOK(Idle, run')
  BY DEF SessionOK, Idle
<1>8. QED
  BY <1>3, <1>4, <1>6, <1>7, NothingYet, SessionsStep, TypeStep

LEMMA OverridesType ==
  ASSUME TypeOK, NEW s \in Sessions, InsertOverride(s) \/ \E o \in overrides : Withdraw(s, o)
  PROVE  TypeOK'
<1>. DEFINE y == [Idle EXCEPT !.op = "run", !.pc = "prior"]
<1>1. y \in Session /\ SessionOK(y, run')
  <2>1. y \in Session
    BY NothingYet DEF Session
  <2>2. y.pc = "prior"
    BY NothingYet DEF Session
  <2>. HIDE DEF y
  <2>3. QED
    BY <2>1, <2>2, Harmless
<1>2. session' = [session EXCEPT ![s] = y] /\ UNCHANGED <<market, pnl, run>>
  BY DEF InsertOverride, Withdraw, Go, Start
<1>3. put' \in 0..MaxOverrides /\ overrides' \subseteq Overrides
  <2>1. put \in 0..MaxOverrides /\ overrides \subseteq Overrides
    BY DEF TypeOK, MarketOK
  <2>2. CASE InsertOverride(s)
    <3>1. session[s].input \in Inputs
      BY <2>2, SessionType DEF InsertOverride, At, SessionOK
    <3>2. put' = put + 1 /\ put + 1 \in 1..MaxOverrides
      BY <2>1, <2>2, ConstantsAssumption DEF InsertOverride
    <3>3. overrides' = (overrides \ session[s].seen) \union {<<session[s].input, put + 1>>}
      BY <2>2 DEF InsertOverride
    <3>4. QED
      BY <2>1, <3>1, <3>2, <3>3, ConstantsAssumption DEF Overrides
  <2>3. CASE \E o \in overrides : Withdraw(s, o)
    BY <2>1, <2>3 DEF Withdraw
  <2>4. QED
    BY <2>2, <2>3
<1>4. MarketOK' /\ StoredOK'
  BY <1>2, <1>3 DEF TypeOK, MarketOK, StoredOK, market, pnl
<1>5. QED
  BY <1>1, <1>2, <1>4, SessionsStep, TypeStep

LEMMA StoreDecisionType ==
  ASSUME TypeOK, NEW s \in Sessions, StoreDecision(s)
  PROVE  TypeOK' /\ run'.status = run.status
<1>. DEFINE x == session[s]
            y == [Idle EXCEPT !.op = "run", !.pc = "prior"]
<1>1. y \in Session /\ SessionOK(y, run')
  <2>1. y \in Session
    BY NothingYet DEF Session
  <2>2. y.pc = "prior"
    BY NothingYet DEF Session
  <2>. HIDE DEF y
  <2>3. QED
    BY <2>1, <2>2, Harmless
<1>2. session' = [session EXCEPT ![s] = y] /\ UNCHANGED <<market, pnl, overrides, put>> /\ run' = Decided(x)
  BY DEF StoreDecision, Go
<1>3. /\ run \in Runs /\ x.prior \in Runs /\ Exists(run) /\ x.choice \in Decisions
      /\ x.input \in DOMAIN x.prior.decisions
  BY SessionType DEF StoreDecision, At, TypeOK, StoredOK, SessionOK, Session
<1>4. x.prior.decisions \in [DOMAIN x.prior.decisions -> Decisions] /\ DOMAIN x.prior.decisions \subseteq Inputs
  BY <1>3, PartialDef DEF Runs, DecisionsTaken
<1>. DEFINE d == [x.prior.decisions EXCEPT ![x.input] = x.choice]
<1>5. d \in [DOMAIN x.prior.decisions -> Decisions]
  BY <1>3, <1>4
<1>6. d \in DecisionsTaken
  BY <1>4, <1>5 DEF DecisionsTaken, Partial
<1>7. run' = [x.prior EXCEPT !.decisions = d, !.status = run.status]
  BY <1>2, <1>3 DEF Decided, Runs
<1>. HIDE DEF d
<1>8. run' \in Runs /\ run'.status = run.status
  BY <1>3, <1>6, <1>7 DEF Runs
<1>9. MarketOK' /\ StoredOK'
  BY <1>2, <1>8 DEF TypeOK, MarketOK, StoredOK, market, pnl
<1>10. Exists(run')
  BY <1>3, <1>8 DEF Exists
<1>11. QED
  BY <1>1, <1>2, <1>8, <1>9, <1>10, SessionsStep, TypeStep

(***************************************************************************)
(* Type correctness                                                        *)
(***************************************************************************)
LEMMA TypeInit == Init => TypeOK
<1>. SUFFICES ASSUME Init PROVE TypeOK
  OBVIOUS
<1>1. MarketOK
  BY ConstantsAssumption DEF Init, MarketOK
<1>2. StoredOK
  <2>1. <<>> \in Marks /\ run \in Runs
    BY EmptyPartial, NothingYet DEF Init, Marks
  <2>2. signs \in Seq(Signoff)
    BY DEF Init
  <2>3. QED
    BY <2>1, <2>2 DEF Init, StoredOK
<1>3. session \in [Sessions -> Session] /\ \A s \in Sessions : SessionOK(session[s], run)
  BY NothingYet DEF Init, SessionOK, Idle
<1>4. QED
  BY <1>1, <1>2, <1>3 DEF TypeOK

LEMMA TypeNext == TypeOK /\ [Next]_vars => TypeOK'
<1>. SUFFICES ASSUME TypeOK, [Next]_vars PROVE TypeOK'
  OBVIOUS
<1>1. CASE UNCHANGED vars
  BY <1>1 DEF vars, market, pnl, ipv, TypeOK, MarketOK, StoredOK, Persisted
<1>2. CASE Next
  <2>1. CASE Move
    BY <2>1, MoveType
  <2>2. ASSUME NEW s \in Sessions,
               \/ \E op \in {"eod", "tick"} : EndOfDay(s, op)
               \/ \E p \in Controllers \union {Owner}, role \in {"TRADER", "CONTROLLER"},
                     policy \in {"TWO_PERSON", "SINGLE"} : SignDay(s, p, role, policy)
               \/ \E op \in {"run", "apply", "sign"} : Build(s, op)
               \/ \E c \in Inputs : PutOverride(s, c)
                                   \/ \E choice \in {"APPROVED", "WAIVED"} : Decide(s, c, choice)
        PROVE  TypeOK'
    BY <2>2, BeginsType
  <2>3. ASSUME NEW s \in Sessions, Report(s) \/ ReadPrior(s) \/ Assess(s) \/ Value(s) \/ Fail(s)
        PROVE  TypeOK'
    BY <2>3, ReadsType
  <2>4. ASSUME NEW s \in Sessions, \/ Persist(s) \/ Sign(s) \/ Store(s) \/ Mark(s) \/ StoreDecision(s)
                                   \/ InsertOverride(s) \/ \E o \in overrides : Withdraw(s, o)
        PROVE  TypeOK'
    BY <2>4, PersistType, SignType, StoreType, MarkType, StoreDecisionType, OverridesType
  <2>5. QED
    BY <1>2, <2>1, <2>2, <2>3, <2>4 DEF Next
<1>3. QED
  BY <1>1, <1>2

(* What is stored of a day and what its sessions hold is well formed,      *)
(* whatever reports, runs, signatures and failures overlap.                *)
THEOREM SignOffTypeCorrect == Spec => []TypeOK
<1>1. QED
  BY TypeInit, TypeNext, PTL DEF Spec

(***************************************************************************)
(* What a step may do to the figures and to the sessions that write them.  *)
(***************************************************************************)
StatusGrows == run.status = "SIGNED" => run'.status = "SIGNED"
DayGrows    == DOMAIN daily \subseteq DOMAIN daily'
SignsGrow   ==
  \/ signs' = signs
  \/ \E s \in Sessions : /\ session[s].pc = "sign"
                         /\ signs' = Append(signs, Signature(session[s].op, session[s].by, session[s]))
  \/ \E s \in Sessions : /\ session[s].pc = "mark"
                         /\ signs' = Append(signs, Signature("IPV", Owner, session[s]))
Moves(s) ==
  LET x == session[s]
      y == session'[s]
  IN  \/ y = x
      \/ y.pc \notin {"store", "mark", "sign"}
      \/ y.pc = "sign" /\ (DOMAIN y.rows # {} => DOMAIN daily' # {})
      \/ y.pc = "store" /\ (Applies(y.op) => y.second = y.over)
      \/ y.pc = "mark" /\ x.pc = "store" /\ x.op = "sign" /\ y.over = x.over /\ y.second = x.second

GrowStep == StatusGrows /\ DayGrows /\ SignsGrow /\ \A q \in Sessions : Moves(q)

LEMMA IdlePc == Idle.pc = "idle"
BY DEF Idle

LEMMA OneMoves ==
  ASSUME NEW s \in Sessions, \A q \in Sessions \ {s} : session'[q] = session[q], Moves(s)
  PROVE  \A q \in Sessions : Moves(q)
<1>1. ASSUME NEW q \in Sessions, q # s PROVE Moves(q)
  BY <1>1 DEF Moves
<1>2. QED
  BY <1>1

LEMMA BeginsMoves ==
  ASSUME TypeOK, NEW s \in Sessions,
         \/ \E op \in {"eod", "tick"} : EndOfDay(s, op)
         \/ \E p \in Controllers \union {Owner}, role \in {"TRADER", "CONTROLLER"},
               policy \in {"TWO_PERSON", "SINGLE"} : SignDay(s, p, role, policy)
         \/ \E op \in {"run", "apply", "sign"} : Build(s, op)
         \/ \E c \in Inputs : PutOverride(s, c) \/ \E choice \in {"APPROVED", "WAIVED"} : Decide(s, c, choice)
         \/ InsertOverride(s) \/ StoreDecision(s) \/ (\E o \in overrides : Withdraw(s, o)) \/ Fail(s)
  PROVE  GrowStep
<1>1. session'[s].pc \notin {"store", "mark", "sign"} /\ UNCHANGED <<daily, signs>>
  <2>1. session \in [Sessions -> Session] /\ session[s] \in Session
    BY DEF TypeOK
  <2>2. CASE \E op \in {"eod", "tick"} : EndOfDay(s, op)
    BY <2>1, <2>2 DEF EndOfDay, Start, Idle, pnl
  <2>3. ASSUME NEW p \in Controllers \union {Owner}, NEW role \in {"TRADER", "CONTROLLER"},
               NEW policy \in {"TWO_PERSON", "SINGLE"}, SignDay(s, p, role, policy)
        PROVE  session'[s].pc \notin {"store", "mark", "sign"} /\ UNCHANGED <<daily, signs>>
    BY <2>1, <2>3 DEF SignDay, Start, Idle, pnl
  <2>4. CASE \E op \in {"run", "apply", "sign"} : Build(s, op)
    BY <2>1, <2>4 DEF Build, Start, Idle, pnl
  <2>5. ASSUME NEW c \in Inputs, PutOverride(s, c)
        PROVE  session'[s].pc \notin {"store", "mark", "sign"} /\ UNCHANGED <<daily, signs>>
    BY <2>1, <2>5 DEF PutOverride, Start, Idle, pnl
  <2>11. ASSUME NEW c \in Inputs, NEW choice \in {"APPROVED", "WAIVED"}, Decide(s, c, choice)
        PROVE  session'[s].pc \notin {"store", "mark", "sign"} /\ UNCHANGED <<daily, signs>>
    BY <2>1, <2>11 DEF Decide, Start, Idle, pnl
  <2>6. CASE InsertOverride(s)
    BY <2>1, <2>6 DEF InsertOverride, Go, Idle, pnl
  <2>7. CASE StoreDecision(s)
    BY <2>1, <2>7 DEF StoreDecision, Go, Idle, pnl
  <2>8. ASSUME NEW o \in overrides, Withdraw(s, o)
        PROVE  session'[s].pc \notin {"store", "mark", "sign"} /\ UNCHANGED <<daily, signs>>
    BY <2>1, <2>8 DEF Withdraw, Start, Idle, pnl
  <2>9. CASE Fail(s)
    BY <2>1, <2>9 DEF Fail, Go, Idle, pnl
  <2>10. QED
    BY <2>2, <2>3, <2>4, <2>5, <2>6, <2>7, <2>8, <2>9, <2>11
<1>2. \A q \in Sessions \ {s} : session'[q] = session[q]
  BY DEF TypeOK, EndOfDay, SignDay, Build, PutOverride, Decide, InsertOverride, StoreDecision, Withdraw,
         Fail, Go, Start
<1>3. run'.status = run.status
  <2>1. CASE StoreDecision(s)
    BY <2>1, StoreDecisionType
  <2>2. CASE ~StoreDecision(s)
    BY <2>2 DEF EndOfDay, SignDay, Build, PutOverride, Decide, InsertOverride, Withdraw, Fail, ipv
  <2>3. QED
    BY <2>1, <2>2
<1>4. \A q \in Sessions : Moves(q)
  <2>1. Moves(s)
    BY <1>1 DEF Moves
  <2>2. QED
    BY <1>2, <2>1, OneMoves
<1>5. QED
  BY <1>1, <1>3, <1>4 DEF GrowStep, StatusGrows, DayGrows, SignsGrow

LEMMA ReadsMoves ==
  ASSUME TypeOK, NEW s \in Sessions, Report(s) \/ ReadPrior(s) \/ Assess(s) \/ Value(s)
  PROVE  GrowStep
<1>. DEFINE x == session[s]
<1>1. session \in [Sessions -> Session] /\ x \in Session
  BY DEF TypeOK
<1>2. UNCHANGED <<daily, signs, run>>
  BY DEF Report, ReadPrior, Assess, Value, pnl, ipv
<1>3. \A q \in Sessions \ {s} : session'[q] = session[q]
  BY <1>1 DEF Report, ReadPrior, Assess, Value, Go
<1>4. Moves(s)
  <2>1. CASE Report(s)
    <3>1. session'[s].pc \in {"sign", "persist"} /\ (session'[s].pc = "sign" => Persisted)
      BY <1>1, <2>1 DEF Report, Go, Session
    <3>2. QED
      BY <1>2, <3>1 DEF Moves, Persisted
  <2>2. CASE ReadPrior(s) \/ Assess(s)
    <3>1. CASE ReadPrior(s)
      BY <1>1, <3>1 DEF ReadPrior, Go, Session, Moves
    <3>2. CASE Assess(s)
      BY <1>1, <3>2 DEF Assess, Go, Session, Moves
    <3>3. QED
      BY <2>2, <3>1, <3>2
  <2>3. CASE Value(s)
    <3>. DEFINE d == [c \in Dependencies(x) |-> DecisionOf(x, c)]
                failed == x.book \intersect book \intersect unpriced
                g == Pending(x) \union IF Persisted THEN {} ELSE failed
                o == IF Applies(x.op) THEN x.over ELSE x.prior.second
                y == [x EXCEPT !.pc = "store", !.book = {}, !.decisions = d, !.gate = g, !.second = o]
    <3>1. session'[s] = y
      BY <1>1, <2>3 DEF Value, Go
    <3>2. Applies(x.op) => o = x.over
      OBVIOUS
    <3>. HIDE DEF d, g, o
    <3>3. y.pc = "store" /\ y.op = x.op /\ y.over = x.over /\ y.second = o
      BY <1>1 DEF Session
    <3>4. QED
      BY <3>1, <3>2, <3>3 DEF Moves
  <2>4. QED
    BY <2>1, <2>2, <2>3
<1>5. \A q \in Sessions : Moves(q)
  BY <1>3, <1>4, OneMoves
<1>6. QED
  BY <1>2, <1>5 DEF GrowStep, StatusGrows, DayGrows, SignsGrow

LEMMA CommitsMove ==
  ASSUME TypeOK, NEW s \in Sessions, Persist(s) \/ Sign(s) \/ Store(s) \/ Mark(s)
  PROVE  GrowStep
<1>. DEFINE x == session[s]
<1>1. session \in [Sessions -> Session] /\ x \in Session /\ run \in Runs
  BY DEF TypeOK, StoredOK
<1>2. \A q \in Sessions \ {s} : session'[q] = session[q]
  BY <1>1 DEF Persist, Sign, Store, Mark, Go
<1>3. CASE Persist(s)
  <2>1. run' = run /\ signs' = signs /\ DOMAIN daily' = DOMAIN x.rows \union DOMAIN daily
    BY <1>3, PersistType DEF Persist, ipv
  <2>2. session'[s] = IF x.op = "eod" THEN Idle ELSE [x EXCEPT !.pc = "sign"]
    BY <1>1, <1>3 DEF Persist, Go
  <2>3. \/ session'[s].pc = "idle"
        \/ session'[s].pc = "sign" /\ session'[s].rows = x.rows
    BY <1>1, <2>2, IdlePc DEF Session
  <2>4. \A q \in Sessions : Moves(q)
    <3>1. Moves(s)
      BY <2>1, <2>3 DEF Moves
    <3>2. QED
      BY <1>2, <3>1, OneMoves
  <2>5. QED
    BY <2>1, <2>4 DEF GrowStep, StatusGrows, DayGrows, SignsGrow
<1>4. CASE Sign(s) \/ Mark(s)
  <2>1. session'[s] = Idle /\ daily' = daily
    BY <1>1, <1>4 DEF Sign, Mark, Go
  <2>2. StatusGrows
    BY <1>4, MarkType DEF Sign, ipv, StatusGrows
  <2>3. SignsGrow
    BY <1>4 DEF Sign, Mark, At, SignsGrow
  <2>4. \A q \in Sessions : Moves(q)
    <3>1. session'[s].pc = "idle"
      BY <2>1, IdlePc
    <3>2. Moves(s)
      BY <3>1 DEF Moves
    <3>3. QED
      BY <1>2, <3>2, OneMoves
  <2>5. QED
    BY <2>1, <2>2, <2>3, <2>4 DEF GrowStep, DayGrows
<1>5. CASE Store(s)
  <2>1. daily' = daily /\ signs' = signs
    BY <1>5 DEF Store, pnl
  <2>2. StatusGrows
    BY <1>5, StoreType DEF StatusKept, Exists, StatusGrows
  <2>3. /\ session'[s] = IF x.op = "sign" /\ x.gate = {}
                         THEN [x EXCEPT !.pc = "mark", !.prior = NoRun, !.decisions = <<>>] ELSE Idle
        /\ x.pc = "store"
    BY <1>1, <1>5 DEF Store, Go, At
  <2>4. \/ session'[s].pc = "idle"
        \/ /\ session'[s].pc = "mark" /\ x.op = "sign"
           /\ session'[s].over = x.over /\ session'[s].second = x.second
    BY <1>1, <2>3, IdlePc DEF Session
  <2>5. \A q \in Sessions : Moves(q)
    <3>1. Moves(s)
      BY <2>3, <2>4 DEF Moves
    <3>2. QED
      BY <1>2, <3>1, OneMoves
  <2>6. QED
    BY <2>1, <2>2, <2>5 DEF GrowStep, DayGrows, SignsGrow
<1>6. QED
  BY <1>3, <1>4, <1>5

LEMMA EveryStep == TypeOK /\ [Next]_vars => GrowStep
<1>. SUFFICES ASSUME TypeOK, [Next]_vars PROVE GrowStep
  OBVIOUS
<1>1. CASE UNCHANGED vars \/ Move
  <2>1. UNCHANGED <<pnl, ipv, session>>
    BY <1>1 DEF vars, Move
  <2>2. QED
    BY <2>1 DEF pnl, ipv, GrowStep, StatusGrows, DayGrows, SignsGrow, Moves
<1>2. CASE Next /\ ~Move
  <2>1. ASSUME NEW s \in Sessions,
               \/ \E op \in {"eod", "tick"} : EndOfDay(s, op)
               \/ \E p \in Controllers \union {Owner}, role \in {"TRADER", "CONTROLLER"},
                     policy \in {"TWO_PERSON", "SINGLE"} : SignDay(s, p, role, policy)
               \/ \E op \in {"run", "apply", "sign"} : Build(s, op)
               \/ \E c \in Inputs : PutOverride(s, c)
                                   \/ \E choice \in {"APPROVED", "WAIVED"} : Decide(s, c, choice)
               \/ InsertOverride(s) \/ StoreDecision(s) \/ (\E o \in overrides : Withdraw(s, o)) \/ Fail(s)
        PROVE  GrowStep
    BY <2>1, BeginsMoves
  <2>2. ASSUME NEW s \in Sessions, Report(s) \/ ReadPrior(s) \/ Assess(s) \/ Value(s)
        PROVE  GrowStep
    BY <2>2, ReadsMoves
  <2>3. ASSUME NEW s \in Sessions, Persist(s) \/ Sign(s) \/ Store(s) \/ Mark(s)
        PROVE  GrowStep
    BY <2>3, CommitsMove
  <2>4. QED
    BY <1>2, <2>1, <2>2, <2>3 DEF Next
<1>3. QED
  BY <1>1, <1>2

(* Once the owner has signed the prices of a day, no run stored later      *)
(* opens it again, not even one that read the day before it was signed.    *)
THEOREM SignOffSignedStays == Spec => SignedStays
<1>1. TypeOK /\ [Next]_vars => [run.status = "SIGNED" => run'.status = "SIGNED"]_vars
  BY EveryStep DEF GrowStep, StatusGrows
<1>2. QED
  BY <1>1, TypeInit, TypeNext, PTL DEF Spec, SignedStays

(***************************************************************************)
(* What is signed.  A signature takes its session's figures, so the        *)
(* invariants say of a session about to sign what they say of a signature. *)
(***************************************************************************)
AboutToSign ==
  \A s \in Sessions :
    LET x == session[s]
    IN  /\ x.pc = "store" /\ Applies(x.op) => x.second = x.over
        /\ x.pc = "mark" => x.second = x.over
        /\ x.pc = "sign" /\ DOMAIN x.rows # {} => Persisted
SignedInv == TypeOK /\ OfficialWhole /\ SignedDayIsStored /\ AboutToSign

LEMMA SignedInit == Init => SignedInv
<1>. SUFFICES ASSUME Init PROVE SignedInv
  OBVIOUS
<1>1. DOMAIN signs = {}
  BY DEF Init
<1>2. AboutToSign
  BY DEF Init, AboutToSign, Idle
<1>3. QED
  BY <1>1, <1>2, TypeInit DEF SignedInv, OfficialWhole, SignedDayIsStored

LEMMA SignedNext == SignedInv /\ [Next]_vars => SignedInv'
<1>. SUFFICES ASSUME SignedInv, [Next]_vars PROVE SignedInv'
  OBVIOUS
<1>1. TypeOK /\ TypeOK' /\ GrowStep
  BY TypeNext, EveryStep DEF SignedInv
<1>2. Persisted => Persisted'
  BY <1>1 DEF GrowStep, DayGrows, Persisted
<1>3. AboutToSign'
  <2>1. SUFFICES ASSUME NEW s \in Sessions
                 PROVE  LET y == session'[s]
                        IN  /\ y.pc = "store" /\ Applies(y.op) => y.second = y.over
                            /\ y.pc = "mark" => y.second = y.over
                            /\ y.pc = "sign" /\ DOMAIN y.rows # {} => Persisted'
    BY DEF AboutToSign, Applies
  <2>2. Moves(s)
    BY <1>1 DEF GrowStep
  <2>3. /\ session[s].pc = "store" /\ Applies(session[s].op) => session[s].second = session[s].over
        /\ session[s].pc = "mark" => session[s].second = session[s].over
        /\ session[s].pc = "sign" /\ DOMAIN session[s].rows # {} => Persisted
    BY DEF SignedInv, AboutToSign
  <2>4. QED
    BY <1>2, <2>2, <2>3 DEF Moves, Persisted, Applies
<1>4. ASSUME NEW i \in DOMAIN signs'
      PROVE  /\ signs'[i].role = "IPV" => signs'[i].second = signs'[i].over
             /\ signs'[i].role # "IPV" /\ DOMAIN signs'[i].rows # {} => Persisted'
  <2>1. signs \in Seq(Signoff)
    BY <1>1 DEF TypeOK, StoredOK
  <2>2. CASE i \in DOMAIN signs /\ signs'[i] = signs[i]
    BY <1>2, <2>2 DEF SignedInv, OfficialWhole, SignedDayIsStored
  <2>3. ASSUME NEW s \in Sessions, session[s].pc = "sign",
               signs' = Append(signs, Signature(session[s].op, session[s].by, session[s]))
        PROVE  \/ i \in DOMAIN signs /\ signs'[i] = signs[i]
               \/ /\ signs'[i].role # "IPV"
                  /\ DOMAIN signs'[i].rows # {} => Persisted
    <3>. DEFINE z == Signature(session[s].op, session[s].by, session[s])
    <3>1. session[s].op \in {"TRADER", "CONTROLLER"} /\ (DOMAIN session[s].rows # {} => Persisted)
      BY <1>1, <2>3, SessionType DEF SessionOK, SignedInv, AboutToSign
    <3>2. z.role # "IPV" /\ (DOMAIN z.rows # {} => Persisted)
      BY <3>1 DEF Signature
    <3>3. z \in Signoff
      BY <1>1, <3>1, SessionType DEF Session, Signoff, Signature
    <3>. HIDE DEF z
    <3>4. (i \in DOMAIN signs /\ signs'[i] = signs[i]) \/ signs'[i] = z
      BY <2>1, <2>3, <3>3, AppendProperties DEF z
    <3>5. QED
      BY <3>2, <3>4
  <2>4. ASSUME NEW s \in Sessions, session[s].pc = "mark",
               signs' = Append(signs, Signature("IPV", Owner, session[s]))
        PROVE  \/ i \in DOMAIN signs /\ signs'[i] = signs[i]
               \/ signs'[i].role = "IPV" /\ signs'[i].second = signs'[i].over
    <3>. DEFINE z == Signature("IPV", Owner, session[s])
    <3>1. session[s].second = session[s].over
      BY <2>4 DEF SignedInv, AboutToSign
    <3>2. z.role = "IPV" /\ z.second = z.over
      BY <3>1 DEF Signature
    <3>3. z \in Signoff
      BY <1>1, SessionType DEF Session, Signoff, Signature
    <3>. HIDE DEF z
    <3>4. (i \in DOMAIN signs /\ signs'[i] = signs[i]) \/ signs'[i] = z
      BY <2>1, <2>4, <3>3, AppendProperties DEF z
    <3>5. QED
      BY <3>2, <3>4
  <2>5. QED
    BY <1>1, <1>2, <2>2, <2>3, <2>4 DEF GrowStep, SignsGrow
<1>5. QED
  BY <1>1, <1>3, <1>4 DEF SignedInv, OfficialWhole, SignedDayIsStored

(* The official figure the owner signs counts every override at both       *)
(* orders or at none: the sign-off revalues, and what it signs is what it  *)
(* valued, whatever is stored between.                                     *)
THEOREM SignOffOfficialWhole == Spec => []OfficialWhole
<1>1. SignedInv => OfficialWhole
  BY DEF SignedInv
<1>2. QED
  BY <1>1, SignedInit, SignedNext, PTL DEF Spec

(* A signature of a trader or a controller is of a day that is stored: no  *)
(* step of another session takes the day away between its two commits.     *)
THEOREM SignOffSignedDayIsStored == Spec => []SignedDayIsStored
<1>1. SignedInv => SignedDayIsStored
  BY DEF SignedInv
<1>2. QED
  BY <1>1, SignedInit, SignedNext, PTL DEF Spec
=============================================================================
