---------------------------- MODULE RelayerProofs ----------------------------
(* Theorems about what guards the two ends of the relayer.  Its budget, for *)
(* every set of requests, of processes, users and firms, every cap, window *)
(* and number of faults; and the registry it calls, for every set of       *)
(* hashes, of addresses and of signatures in the world.                    *)
EXTENDS RelayerBudget, Registry, SequenceTheorems, FiniteSetTheorems, TLAPS

(* The store a request counts in is a store.                               *)
LEMMA StoreOfType ==
  ASSUME NEW r \in Requests
  PROVE  StoreOf(r) \in Stores /\ ProcessOf[r] \in Stores /\ ProcessOf[r] \in Processes
BY BudgetAssumption DEF StoreOf, Stores

(* What a request's step does to the sessions.                             *)
LEMMA Moved ==
  ASSUME TypeOK, NEW r \in Requests, NEW pc \in {"count", "insert", "memory"},
         Goto(r, pc), UNCHANGED clock, request[r].pc # "idle"
  PROVE  /\ SessionsOK'
         /\ \A q \in Requests : /\ request'[q].pc = IF q = r THEN pc ELSE request[q].pc
                                /\ request'[q].at = request[q].at
                                /\ request'[q].user = request[q].user
                                /\ request'[q].firm = request[q].firm
                                /\ q # r => request'[q] = request[q]
<1>1. request \in [Requests -> Session]
  BY DEF TypeOK, SessionsOK
<1>2. request' = [request EXCEPT ![r].pc = pc]
  BY DEF Goto
<1>3. request' \in [Requests -> Session]
  BY <1>1, <1>2 DEF Session
<1>4. \A q \in Requests : /\ request'[q].pc = IF q = r THEN pc ELSE request[q].pc
                          /\ request'[q].at = request[q].at
                          /\ request'[q].user = request[q].user
                          /\ request'[q].firm = request[q].firm
                          /\ q # r => request'[q] = request[q]
  BY <1>1, <1>2 DEF Session
<1>5. \A q \in Requests : request'[q].pc # "idle" => request'[q].user \in Users /\ request'[q].at <= clock'
  BY <1>4 DEF TypeOK, SessionsOK
<1>6. QED
  BY <1>3, <1>4, <1>5 DEF SessionsOK

LEMMA Left ==
  ASSUME TypeOK, NEW r \in Requests, Leave(r), UNCHANGED clock
  PROVE  /\ SessionsOK' /\ HolderOK'
         /\ \A q \in Requests : request'[q] = IF q = r THEN Idle ELSE request[q]
         /\ lock' = IF lock = r THEN NoOne ELSE lock
<1>1. request \in [Requests -> Session] /\ Idle \in Session
  BY DEF TypeOK, SessionsOK, Idle, Session
<1>2. request' = [request EXCEPT ![r] = Idle] /\ lock' = IF lock = r THEN NoOne ELSE lock
  BY DEF Leave, Unlock
<1>3. request' \in [Requests -> Session] /\ \A q \in Requests : request'[q] = IF q = r THEN Idle ELSE request[q]
  BY <1>1, <1>2
<1>4. SessionsOK'
  BY <1>3 DEF TypeOK, SessionsOK, Idle
<1>5. HolderOK'
  BY <1>2, <1>3, BudgetAssumption DEF TypeOK, HolderOK
<1>6. QED
  BY <1>2, <1>3, <1>4, <1>5

LEMMA Arrived ==
  ASSUME TypeOK, NEW r \in Requests, NEW u \in Users, Charge(r, u)
  PROVE  /\ SessionsOK' /\ HolderOK' /\ faults' \in Nat
         /\ \A q \in Requests : q # r => request'[q] = request[q]
         /\ request'[r].pc = "lock"
         /\ request[r].pc = "idle"
<1>1. request \in [Requests -> Session] /\ request[r].pc = "idle" /\ UNCHANGED <<clock, lock>>
  BY DEF TypeOK, SessionsOK, Charge
<1>2. PICK f \in {FirmOf[u], NoFirm} :
        request' = [request EXCEPT ![r] = [pc |-> "lock", at |-> clock, user |-> u, firm |-> f]]
  BY DEF Charge
<1> DEFINE x == [pc |-> "lock", at |-> clock, user |-> u, firm |-> f]
<1>3. x \in Session /\ x.pc = "lock" /\ x.user = u /\ x.at = clock
  BY <1>2, BudgetAssumption DEF Session, TypeOK
<1>4. clock <= clock /\ faults' \in Nat
  BY DEF TypeOK, Charge, Fault
<1>5. request' = [request EXCEPT ![r] = x]
  BY <1>2
<1> HIDE DEF x
<1>6. request' \in [Requests -> Session] /\ \A q \in Requests : request'[q] = IF q = r THEN x ELSE request[q]
  BY <1>1, <1>3, <1>5
<1>7. SessionsOK'
  BY <1>1, <1>3, <1>4, <1>6 DEF TypeOK, SessionsOK
<1>8. HolderOK'
  BY <1>1, <1>6 DEF TypeOK, HolderOK
<1>9. QED
  BY <1>1, <1>3, <1>4, <1>6, <1>7, <1>8

(* What a stored attempt does to the stores.                               *)
Row(r) == [at |-> request[r].at, user |-> request[r].user, firm |-> request[r].firm]

LEMMA Appended ==
  ASSUME TypeOK, NEW r \in Requests, request[r].pc # "idle", NEW s \in Stores,
         Stored(s, r), UNCHANGED clock
  PROVE  /\ Row(r) \in Attempt /\ Row(r).at <= clock
         /\ StoresOK'
         /\ attempts'[s] = Append(attempts[s], Row(r))
         /\ \A q \in Stores : q # s => attempts'[q] = attempts[q]
<1>1. Row(r) \in Attempt /\ Row(r).at <= clock
  BY DEF TypeOK, SessionsOK, Row, Attempt, Session
<1>2. attempts' = [attempts EXCEPT ![s] = Append(@, Row(r))]
  BY DEF Stored, Row
<1>3. attempts \in [Stores -> Seq(Attempt)] /\ Append(attempts[s], Row(r)) \in Seq(Attempt)
  BY <1>1, AppendProperties DEF TypeOK, StoresOK
<1>4. /\ attempts' \in [Stores -> Seq(Attempt)]
      /\ attempts'[s] = Append(attempts[s], Row(r))
      /\ \A q \in Stores : q # s => attempts'[q] = attempts[q]
  BY <1>2, <1>3
<1>5. ASSUME NEW q \in Stores, NEW i \in DOMAIN attempts'[q]
      PROVE  attempts'[q][i].at <= clock
  <2>1. CASE q # s
    BY <1>4, <2>1 DEF TypeOK, StoresOK
  <2>2. CASE q = s
    <3>1. Len(attempts[s]) \in Nat /\ DOMAIN attempts[s] = 1..Len(attempts[s])
      BY <1>3, LenProperties
    <3>2. i \in 1..(Len(attempts[s]) + 1)
      BY <1>3, <1>4, <2>2, <3>1, <1>1, AppendProperties
    <3>3. CASE i = Len(attempts[s]) + 1
      BY <1>1, <1>3, <1>4, <2>2, <3>1, <3>3, AppendProperties
    <3>4. CASE i \in 1..Len(attempts[s])
      <4>1. attempts'[q][i] = attempts[s][i]
        BY <1>1, <1>3, <1>4, <2>2, <3>1, <3>4, AppendProperties
      <4>2. attempts[s][i].at <= clock
        BY <3>1, <3>4 DEF TypeOK, StoresOK
      <4>3. QED
        BY <4>1, <4>2
    <3>5. QED
      BY <3>1, <3>2, <3>3, <3>4
  <2>3. QED
    BY <2>1, <2>2
<1>6. QED
  BY <1>1, <1>4, <1>5 DEF StoresOK

(* Every step keeps the invariant, one action at a time.                   *)
LEMMA TypeStep == TypeOK /\ [Next]_vars => TypeOK'
<1> SUFFICES ASSUME TypeOK, [Next]_vars PROVE TypeOK'
  OBVIOUS
<1>0. /\ clock \in Nat /\ table \in BOOLEAN /\ degraded \in BOOLEAN /\ faults \in Nat
      /\ present \in [Processes -> BOOLEAN] /\ StoresOK /\ SessionsOK /\ HolderOK
  BY DEF TypeOK
<1>1. ASSUME NEW r \in Requests, NEW u \in Users, Charge(r, u) PROVE TypeOK'
  <2>1. UNCHANGED <<clock, table, present, attempts, lock, degraded>>
    BY <1>1 DEF Charge
  <2>2. SessionsOK' /\ HolderOK' /\ faults' \in Nat
    BY <1>1, Arrived
  <2>3. QED
    BY <1>0, <2>1, <2>2 DEF TypeOK, StoresOK
<1>2. ASSUME NEW r \in Requests, Lock(r) PROVE TypeOK'
  <2>1. /\ Goto(r, "count") /\ lock' = r /\ request[r].pc = "lock"
        /\ UNCHANGED <<clock, table, present, attempts, faults, degraded>>
    BY <1>2 DEF Lock
  <2>2. SessionsOK' /\ request'[r].pc = "count"
    BY <2>1, Moved
  <2>3. HolderOK'
    BY <2>1, <2>2 DEF HolderOK
  <2>4. QED
    BY <1>0, <2>1, <2>2, <2>3 DEF TypeOK, StoresOK
<1>3. ASSUME NEW r \in Requests, LockFails(r) PROVE TypeOK'
  <2>1. /\ Goto(r, "count") /\ degraded' = TRUE /\ faults' = faults + 1 /\ request[r].pc = "lock"
        /\ UNCHANGED <<clock, table, present, attempts, lock>>
    BY <1>3 DEF LockFails, Fault
  <2>2. SessionsOK' /\ \A q \in Requests : q # r => request'[q].pc = request[q].pc
    BY <2>1, Moved
  <2>3. HolderOK' /\ faults' \in Nat
    BY <1>0, <2>1, <2>2 DEF HolderOK
  <2>4. QED
    BY <1>0, <2>1, <2>2, <2>3 DEF TypeOK, StoresOK
<1>4. ASSUME NEW r \in Requests, Count(r) PROVE TypeOK'
  <2>1. UNCHANGED <<clock, table, present, attempts, faults, degraded>> /\ request[r].pc = "count"
    BY <1>4 DEF Count
  <2>2. ASSUME Leave(r) PROVE SessionsOK' /\ HolderOK'
    BY <2>1, <2>2, Left
  <2>3. ASSUME Goto(r, "insert"), UNCHANGED lock PROVE SessionsOK' /\ HolderOK'
    <3>1. SessionsOK' /\ \A q \in Requests : request'[q].pc = IF q = r THEN "insert" ELSE request[q].pc
      BY <2>1, <2>3, Moved
    <3>2. QED
      BY <1>0, <2>3, <3>1 DEF HolderOK
  <2>4. SessionsOK' /\ HolderOK'
    BY <1>4, <2>2, <2>3 DEF Count
  <2>5. QED
    BY <1>0, <2>1, <2>4 DEF TypeOK, StoresOK
<1>5. ASSUME NEW r \in Requests, Insert(r) PROVE TypeOK'
  <2>1. UNCHANGED <<clock, table, present, faults, degraded>> /\ request[r].pc # "idle"
    BY <1>5 DEF Insert
  <2>2. Stored(StoreOf(r), r) /\ Leave(r) /\ StoreOf(r) \in Stores
    BY <1>5, StoreOfType DEF Insert
  <2>3. SessionsOK' /\ HolderOK' /\ StoresOK'
    BY <2>1, <2>2, Left, Appended
  <2>4. QED
    BY <1>0, <2>1, <2>3 DEF TypeOK
<1>6. ASSUME NEW r \in Requests, InsertFails(r) PROVE TypeOK'
  <2>1. /\ Goto(r, "memory") /\ Unlock(r) /\ faults' = faults + 1 /\ request[r].pc = "insert"
        /\ UNCHANGED <<clock, table, present, attempts, degraded>>
    BY <1>6 DEF InsertFails, Fault
  <2>2. SessionsOK' /\ \A q \in Requests : q # r => request'[q].pc = request[q].pc
    BY <2>1, Moved
  <2>3. HolderOK' /\ faults' \in Nat
    BY <1>0, <2>1, <2>2, BudgetAssumption DEF HolderOK, Unlock
  <2>4. QED
    BY <1>0, <2>1, <2>2, <2>3 DEF TypeOK, StoresOK
<1>7. ASSUME NEW r \in Requests, Remember(r) PROVE TypeOK'
  <2>1. UNCHANGED <<clock, table, present, faults, degraded>> /\ request[r].pc # "idle"
    BY <1>7 DEF Remember
  <2>2. Stored(ProcessOf[r], r) /\ Leave(r) /\ ProcessOf[r] \in Stores
    BY <1>7, StoreOfType DEF Remember
  <2>3. SessionsOK' /\ HolderOK' /\ StoresOK'
    BY <2>1, <2>2, Left, Appended
  <2>4. QED
    BY <1>0, <2>1, <2>3 DEF TypeOK
<1>8. ASSUME NEW r \in Requests, Unread(r) PROVE TypeOK'
  <2>1. /\ present' = [present EXCEPT ![ProcessOf[r]] = FALSE] \/ present' = present
        /\ faults' = faults + 1 /\ degraded' = TRUE
        /\ UNCHANGED <<clock, table, attempts, request>>
    BY <1>8 DEF Unread, Fault
  <2>2. HolderOK'
    BY <1>0, <1>8, <2>1, BudgetAssumption DEF HolderOK, Unread, Unlock
  <2>3. faults' \in Nat
    BY <1>0, <2>1
  <2>4. present' \in [Processes -> BOOLEAN]
    BY <1>0, <2>1, Zenon
  <2>5. QED
    BY <1>0, <2>1, <2>2, <2>3, <2>4 DEF TypeOK, StoresOK, SessionsOK
<1>9. ASSUME NEW p \in Processes, Reread(p) PROVE TypeOK'
  BY <1>0, <1>9 DEF Reread, TypeOK, StoresOK, SessionsOK, HolderOK
<1>10. ASSUME NEW r \in Requests, Dies(r) PROVE TypeOK'
  <2>1. UNCHANGED <<clock, table, present, attempts, faults, degraded>> /\ Leave(r)
    BY <1>10 DEF Dies
  <2>2. SessionsOK' /\ HolderOK'
    BY <2>1, Left
  <2>3. QED
    BY <1>0, <2>1, <2>2 DEF TypeOK, StoresOK
<1>11. CASE Tick
  <2>1. clock' = clock + 1 /\ UNCHANGED <<table, present, attempts, lock, request, faults, degraded>>
    BY <1>11 DEF Tick
  <2>2. clock' \in Nat /\ \A n \in Nat : n <= clock => n <= clock'
    BY <1>0, <2>1
  <2>3. \A s \in Stores : \A i \in DOMAIN attempts[s] : attempts[s][i] \in Attempt
    BY <1>0, ElementOfSeq DEF StoresOK
  <2>4. StoresOK'
    BY <1>0, <2>1, <2>2, <2>3 DEF StoresOK, Attempt
  <2>5. SessionsOK' /\ HolderOK'
    BY <1>0, <2>1, <2>2 DEF SessionsOK, HolderOK, Session
  <2>6. QED
    BY <1>0, <2>1, <2>2, <2>4, <2>5 DEF TypeOK
<1>12. CASE UNCHANGED vars
  BY <1>0, <1>12 DEF vars, TypeOK, StoresOK, SessionsOK, HolderOK
<1>13. QED
  BY <1>1, <1>2, <1>3, <1>4, <1>5, <1>6, <1>7, <1>8, <1>9, <1>10, <1>11, <1>12 DEF Next

(* The first state is well formed.                                         *)
LEMMA BudgetStarts == Init => TypeOK
<1> SUFFICES ASSUME Init PROVE TypeOK
  OBVIOUS
<1>1. StoresOK
  <2>1. attempts \in [Stores -> Seq(Attempt)]
    BY EmptySeq DEF Init
  <2>2. \A s \in Stores : DOMAIN attempts[s] = {}
    BY EmptySeq DEF Init
  <2>3. QED
    BY <2>1, <2>2 DEF StoresOK
<1>2. SessionsOK
  BY DEF Init, SessionsOK, Session, Idle
<1>3. HolderOK /\ clock \in Nat /\ faults \in Nat /\ degraded = FALSE /\ lock = NoOne
  BY BudgetAssumption DEF Init, HolderOK
<1>4. table \in BOOLEAN /\ present \in [Processes -> BOOLEAN] /\ degraded \in BOOLEAN
  BY DEF Init
<1>5. QED
  BY <1>1, <1>2, <1>3, <1>4 DEF TypeOK

(* The records are well formed in every reachable state, and a request     *)
(* that ends in whatever way gives the lock back (charge, table_present).  *)
THEOREM BudgetTypeCorrect == Spec => []TypeOK
BY BudgetStarts, TypeStep, PTL DEF Spec

----------------------------------------------------------------------------
(* The caps.  Unless the database failed at a point that matters, all      *)
(* processes use the same stores, who counts or inserts holds the lock, a  *)
(* request falls back to memory only if the table counts, and one that     *)
(* inserts has still room below every cap.                                 *)
OneStore    == \A p \in Processes : present[p] = table
Exclusive   == \A r \in Requests : request[r].pc \in {"count", "insert"} => lock = r
Fallen      == \A r \in Requests : request[r].pc = "memory" => table
RoomLeft    == \A r \in Requests : request[r].pc = "insert" => ~Reached(StoreOf(r), request[r])
CapsInv     == ~degraded => OneStore /\ Exclusive /\ Fallen /\ RoomLeft

(* The room a request has is kept by a step that leaves its data, its      *)
(* process's belief and its store alone.                                   *)
LEMMA RoomKept ==
  ASSUME NEW r \in Requests, ~Reached(StoreOf(r), request[r]),
         request'[r].at = request[r].at, request'[r].user = request[r].user,
         request'[r].firm = request[r].firm,
         UNCHANGED present, attempts'[StoreOf(r)] = attempts[StoreOf(r)]
  PROVE  ~Reached(StoreOf(r), request[r])'
<1>1. StoreOf(r)' = StoreOf(r)
  BY DEF StoreOf
<1>2. \A scope \in Scopes :
        Since(StoreOf(r), scope, request[r], request[r].at - Window)' =
        Since(StoreOf(r), scope, request[r], request[r].at - Window)
  BY <1>1 DEF Since, Concerns
<1>3. QED
  BY <1>1, <1>2 DEF Reached

(* A row added behind a store's rows leaves what they are.                 *)
LEMMA RowsKept ==
  ASSUME NEW s \in Seq(Attempt), NEW a \in Attempt
  PROVE  /\ Append(s, a) \in Seq(Attempt) /\ Len(s) \in Nat
         /\ DOMAIN s = 1..Len(s)
         /\ DOMAIN Append(s, a) = (DOMAIN s) \union {Len(s) + 1}
         /\ \A i \in DOMAIN s : Append(s, a)[i] = s[i] /\ i # Len(s) + 1
         /\ Append(s, a)[Len(s) + 1] = a
         /\ IsFiniteSet(DOMAIN s)
<1>1. Len(s) \in Nat /\ DOMAIN s = 1..Len(s)
  BY LenProperties
<1>2. Append(s, a) \in Seq(Attempt) /\ Len(Append(s, a)) = Len(s) + 1
  BY AppendProperties
<1>3. DOMAIN Append(s, a) = 1..(Len(s) + 1)
  BY <1>2, LenProperties
<1>4. \A i \in 1..Len(s) : Append(s, a)[i] = s[i] /\ i # Len(s) + 1
  BY <1>1, AppendProperties
<1>5. Append(s, a)[Len(s) + 1] = a
  BY AppendProperties
<1>6. IsFiniteSet(DOMAIN s)
  BY <1>1, FS_Interval
<1>7. QED
  BY <1>1, <1>2, <1>3, <1>4, <1>5, <1>6

(* Every step but an insertion, a memory and a tick of the clock leaves    *)
(* what CapsHold speaks of alone, or gives it up.                          *)
LEMMA CapsKept ==
  CapsHold /\ UNCHANGED <<clock, table, attempts>> /\ (degraded' = degraded \/ degraded') => CapsHold'
BY DEF CapsHold, Counted, InWindow, Since, Concerns

(* The clock's next window holds nothing the window before it did not.     *)
LEMMA CapsAfterTick == TypeOK /\ CapsHold /\ Tick => CapsHold'
<1> SUFFICES ASSUME TypeOK, CapsHold, Tick, ~degraded',
                    NEW s \in Counted', NEW scope \in Scopes, NEW end \in 0..clock',
                    NEW x \in [user : Users, firm : Firms \union {NoFirm}], Caps[scope] # 0
             PROVE  Cardinality(InWindow(s, scope, x, end)') <= Caps[scope]
  BY DEF CapsHold
<1>1. clock' = clock + 1 /\ UNCHANGED <<table, attempts, degraded>> /\ clock \in Nat
  BY DEF Tick, TypeOK
<1>2. s \in Counted /\ s \in Stores /\ attempts[s] \in Seq(Attempt)
  BY <1>1 DEF Counted, Stores, TypeOK, StoresOK
<1>3. \A i \in DOMAIN attempts[s] : attempts[s][i].at \in Nat /\ attempts[s][i].at <= clock
  <2>1. \A i \in DOMAIN attempts[s] : attempts[s][i] \in Attempt
    BY <1>2, ElementOfSeq
  <2>2. \A i \in DOMAIN attempts[s] : attempts[s][i].at <= clock
    BY <1>2 DEF TypeOK, StoresOK
  <2>3. QED
    BY <2>1, <2>2 DEF Attempt
<1>4. InWindow(s, scope, x, end)' = InWindow(s, scope, x, end)
  BY <1>1 DEF InWindow, Since, Concerns
<1>5. CASE end \in 0..clock
  BY <1>1, <1>2, <1>4, <1>5 DEF CapsHold
<1>6. CASE end = clock + 1
  <2>1. InWindow(s, scope, x, end) \subseteq InWindow(s, scope, x, clock)
    BY <1>1, <1>3, <1>6, BudgetAssumption DEF InWindow, Since
  <2>2. IsFiniteSet(InWindow(s, scope, x, clock))
    <3>1. IsFiniteSet(DOMAIN attempts[s])
      BY <1>2, LenProperties, FS_Interval
    <3>2. QED
      BY <3>1, FS_Subset DEF InWindow, Since
  <2>3. Cardinality(InWindow(s, scope, x, clock)) <= Caps[scope]
    BY <1>1, <1>2 DEF CapsHold
  <2>4. QED
    BY <1>4, <2>1, <2>2, <2>3, FS_Subset, FS_CardinalityType, BudgetAssumption
<1>7. QED
  BY <1>1, <1>5, <1>6

(* The attempt of a request that counted room below every cap fits below   *)
(* them in every window that holds it: the request counted everything      *)
(* since a time no later than that window's start.                         *)
LEMMA CapsAfterInsert ==
  ASSUME TypeOK, CapsHold, ~degraded, NEW r \in Requests, Insert(r),
         ~Reached(StoreOf(r), request[r])
  PROVE  CapsHold'
<1>1. /\ UNCHANGED <<clock, table, degraded>> /\ request[r].pc = "insert" /\ Stored(StoreOf(r), r)
      /\ UNCHANGED clock /\ StoreOf(r) \in Stores /\ clock \in Nat
  BY StoreOfType DEF Insert, TypeOK
<1> SUFFICES ASSUME NEW s \in Counted, NEW scope \in Scopes, NEW end \in 0..clock,
                    NEW x \in [user : Users, firm : Firms \union {NoFirm}], Caps[scope] # 0
             PROVE  Cardinality(InWindow(s, scope, x, end)') <= Caps[scope]
  BY <1>1 DEF CapsHold, Counted
<1>2. s \in Stores /\ attempts[s] \in Seq(Attempt)
  BY DEF Counted, Stores, TypeOK, StoresOK
<1>3. /\ Row(r) \in Attempt
      /\ attempts'[StoreOf(r)] = Append(attempts[StoreOf(r)], Row(r))
      /\ \A q \in Stores : q # StoreOf(r) => attempts'[q] = attempts[q]
  BY <1>1, Appended
<1>4. Cardinality(InWindow(s, scope, x, end)) <= Caps[scope]
  BY DEF CapsHold
<1>5. CASE s # StoreOf(r)
  <2>1. InWindow(s, scope, x, end)' = InWindow(s, scope, x, end)
    BY <1>2, <1>3, <1>5 DEF InWindow, Since, Concerns
  <2>2. QED
    BY <1>4, <2>1
<1>6. CASE s = StoreOf(r)
  <2> DEFINE old == InWindow(s, scope, x, end)
             n   == Len(attempts[s]) + 1
             all == Since(s, scope, request[r], request[r].at - Window)
  <2>1. attempts'[s] = Append(attempts[s], Row(r))
    BY <1>3, <1>6
  <2>2. /\ DOMAIN attempts'[s] = (DOMAIN attempts[s]) \union {n}
        /\ \A i \in DOMAIN attempts[s] : attempts'[s][i] = attempts[s][i] /\ i # n
        /\ attempts'[s][n] = Row(r)
        /\ IsFiniteSet(DOMAIN attempts[s])
    BY <1>2, <1>3, <2>1, RowsKept
  <2>3. IsFiniteSet(old) /\ IsFiniteSet(all)
    BY <2>2, FS_Subset DEF InWindow, Since
  <2>4. CASE Row(r).at > end - Window /\ Row(r).at <= end /\ Concerns(Row(r), scope, x)
    <3>1. InWindow(s, scope, x, end)' = old \union {n} /\ n \notin old
      BY <2>2, <2>4 DEF InWindow, Since, Concerns
    <3>2. old \subseteq all
      <4>1. SUFFICES ASSUME NEW i \in old PROVE i \in all
        OBVIOUS
      <4>2. /\ i \in DOMAIN attempts[s] /\ attempts[s][i] \in Attempt
            /\ attempts[s][i].at > end - Window /\ Concerns(attempts[s][i], scope, x)
        BY <1>2, <4>1, ElementOfSeq DEF InWindow, Since
      <4>3. request[r].at \in Nat /\ attempts[s][i].at \in Nat /\ end \in Nat /\ Window \in Nat
        BY <4>2, BudgetAssumption DEF TypeOK, SessionsOK, Session, Attempt
      <4>4. attempts[s][i].at > request[r].at - Window
        BY <2>4, <4>2, <4>3 DEF Row
      <4>5. Concerns(attempts[s][i], scope, request[r])
        BY <2>4, <4>2 DEF Concerns, Row
      <4>6. QED
        BY <4>2, <4>4, <4>5 DEF Since
    <3>3. Cardinality(all) < Caps[scope]
      BY <1>6, <2>3, FS_CardinalityType, BudgetAssumption DEF Reached
    <3>4. Cardinality(old) <= Cardinality(all) /\ Cardinality(old) \in Nat /\ Cardinality(all) \in Nat
      BY <2>3, <3>2, FS_Subset, FS_CardinalityType
    <3>5. Cardinality(old \union {n}) = Cardinality(old) + 1
      BY <2>3, <3>1, FS_AddElement
    <3>6. Caps[scope] \in Nat
      BY BudgetAssumption
    <3>7. QED
      BY <3>1, <3>3, <3>4, <3>5, <3>6
  <2>5. CASE ~(Row(r).at > end - Window /\ Row(r).at <= end /\ Concerns(Row(r), scope, x))
    <3>1. InWindow(s, scope, x, end)' = old
      BY <2>2, <2>5 DEF InWindow, Since, Concerns
    <3>2. QED
      BY <1>4, <3>1
  <2>6. QED
    BY <2>4, <2>5
<1>7. QED
  BY <1>5, <1>6

(* The parts that make room lasting are kept by every step, the caps with  *)
(* them: only the holder of the lock inserts where attempts are counted.   *)
LEMMA CapsStep == TypeOK /\ CapsInv /\ CapsHold /\ [Next]_vars => CapsInv' /\ CapsHold'
<1> SUFFICES ASSUME TypeOK, CapsInv, CapsHold, [Next]_vars PROVE CapsInv' /\ CapsHold'
  OBVIOUS
<1>1. CASE degraded'
  BY <1>1 DEF CapsInv, CapsHold
<1>2. CASE ~degraded'
  <2>0. ~degraded
    BY <1>2 DEF Next, vars, Charge, Lock, LockFails, Count, Insert, InsertFails, Remember, Unread, Reread, Dies, Tick
  <2>01. OneStore /\ Exclusive /\ Fallen /\ RoomLeft
    BY <2>0 DEF CapsInv
  <2>02. request \in [Requests -> Session]
    BY DEF TypeOK, SessionsOK
  <2>1. ASSUME NEW r \in Requests, NEW u \in Users, Charge(r, u) PROVE CapsInv' /\ CapsHold'
    <3>1. UNCHANGED <<clock, table, present, attempts, lock, degraded>>
      BY <2>1 DEF Charge
    <3>2. request'[r].pc = "lock" /\ \A q \in Requests : q # r => request'[q] = request[q]
      BY <2>1, Arrived
    <3>3. (OneStore /\ Exclusive /\ Fallen)'
      BY <2>01, <3>1, <3>2 DEF OneStore, Exclusive, Fallen
    <3>4. RoomLeft'
      BY <2>01, <3>1, <3>2, RoomKept DEF RoomLeft
    <3>5. QED
      BY <3>1, <3>3, <3>4, CapsKept DEF CapsInv
  <2>2. ASSUME NEW r \in Requests, Lock(r) PROVE CapsInv' /\ CapsHold'
    <3>1. /\ Goto(r, "count") /\ lock' = r /\ lock = NoOne /\ request[r].pc = "lock"
          /\ UNCHANGED <<clock, table, present, attempts, degraded>>
      BY <2>2 DEF Lock
    <3>2. request'[r].pc = "count" /\ \A q \in Requests : q # r => request'[q] = request[q]
      BY <3>1, Moved
    <3>3. (OneStore /\ Fallen)'
      BY <2>01, <3>1, <3>2 DEF OneStore, Fallen
    <3>4. Exclusive'
      BY <2>01, <3>1, <3>2, BudgetAssumption DEF Exclusive
    <3>5. RoomLeft'
      BY <2>01, <3>1, <3>2, RoomKept DEF RoomLeft
    <3>6. QED
      BY <3>1, <3>3, <3>4, <3>5, CapsKept DEF CapsInv
  <2>3. ASSUME NEW r \in Requests, Count(r) PROVE CapsInv' /\ CapsHold'
    <3>1. UNCHANGED <<clock, table, present, attempts, degraded>> /\ request[r].pc = "count" /\ lock = r
      BY <2>01, <2>3 DEF Count, Exclusive
    <3>2. ASSUME Leave(r) PROVE CapsInv'
      <4>1. request'[r] = Idle /\ \A q \in Requests : q # r => request'[q] = request[q]
        BY <3>1, <3>2, Left
      <4>2. OneStore' /\ Fallen'
        BY <2>01, <3>1, <4>1 DEF OneStore, Fallen, Idle
      <4>3. Exclusive'
        BY <2>01, <3>1, <4>1 DEF Exclusive, Idle
      <4>4. RoomLeft'
        BY <2>01, <3>1, <4>1, RoomKept DEF RoomLeft, Idle
      <4>5. QED
        BY <4>2, <4>3, <4>4 DEF CapsInv
    <3>3. ASSUME ~Reached(StoreOf(r), request[r]), Goto(r, "insert"), UNCHANGED lock PROVE CapsInv'
      <4>1. /\ request'[r].pc = "insert" /\ request'[r].at = request[r].at
            /\ request'[r].user = request[r].user /\ request'[r].firm = request[r].firm
            /\ \A q \in Requests : q # r => request'[q] = request[q]
        BY <3>1, <3>3, Moved
      <4>2. OneStore' /\ Fallen'
        BY <2>01, <3>1, <4>1 DEF OneStore, Fallen
      <4>3. Exclusive'
        BY <2>01, <3>1, <3>3, <4>1 DEF Exclusive
      <4>4. ~Reached(StoreOf(r), request[r])'
        BY <3>1, <3>3, <4>1, RoomKept
      <4>5. RoomLeft'
        BY <2>01, <3>1, <4>1, <4>4, RoomKept DEF RoomLeft
      <4>6. QED
        BY <4>2, <4>3, <4>5 DEF CapsInv
    <3>4. CapsInv'
      BY <2>3, <3>2, <3>3 DEF Count
    <3>5. QED
      BY <3>1, <3>4, CapsKept
  <2>4. ASSUME NEW r \in Requests, Insert(r) PROVE CapsInv' /\ CapsHold'
    <3>1. UNCHANGED <<clock, table, present, degraded>> /\ request[r].pc = "insert" /\ Leave(r) /\ lock = r
      BY <2>01, <2>4 DEF Insert, Exclusive
    <3>2. request'[r] = Idle /\ \A q \in Requests : q # r => request'[q] = request[q]
      BY <3>1, Left
    <3>3. OneStore' /\ Fallen'
      BY <2>01, <3>1, <3>2 DEF OneStore, Fallen, Idle
    <3>4. \A q \in Requests : request'[q].pc \notin {"count", "insert"}
      BY <2>01, <3>1, <3>2 DEF Exclusive, Idle
    <3>5. Exclusive' /\ RoomLeft'
      BY <3>4 DEF Exclusive, RoomLeft
    <3>6. CapsHold'
      BY <2>0, <2>01, <2>4, <3>1, CapsAfterInsert DEF RoomLeft
    <3>7. QED
      BY <3>3, <3>5, <3>6 DEF CapsInv
  <2>5. ASSUME NEW r \in Requests, InsertFails(r) PROVE CapsInv' /\ CapsHold'
    <3>1. /\ Goto(r, "memory") /\ lock = r /\ request[r].pc = "insert" /\ StoreOf(r) = DB
          /\ UNCHANGED <<clock, table, present, attempts, degraded>>
      BY <2>01, <2>5 DEF InsertFails, Exclusive
    <3>2. request'[r].pc = "memory" /\ \A q \in Requests : q # r => request'[q] = request[q]
      BY <3>1, Moved
    <3>3. table
      BY <2>01, <3>1, StoreOfType, BudgetAssumption DEF OneStore, StoreOf
    <3>4. (OneStore /\ Fallen)'
      BY <2>01, <3>1, <3>2, <3>3 DEF OneStore, Fallen
    <3>5. \A q \in Requests : request'[q].pc \notin {"count", "insert"}
      BY <2>01, <3>1, <3>2 DEF Exclusive
    <3>6. Exclusive' /\ RoomLeft'
      BY <3>5 DEF Exclusive, RoomLeft
    <3>7. QED
      BY <3>1, <3>4, <3>6, CapsKept DEF CapsInv
  <2>6. ASSUME NEW r \in Requests, Remember(r) PROVE CapsInv' /\ CapsHold'
    <3>1. /\ UNCHANGED <<clock, table, present, degraded>> /\ request[r].pc = "memory"
          /\ Leave(r) /\ Stored(ProcessOf[r], r) /\ ProcessOf[r] \in Stores /\ ProcessOf[r] # DB
      BY <2>6, StoreOfType, BudgetAssumption DEF Remember
    <3>2. /\ request'[r] = Idle /\ \A q \in Requests : q # r => request'[q] = request[q]
          /\ lock' = IF lock = r THEN NoOne ELSE lock
      BY <3>1, Left
    <3>3. table /\ attempts'[DB] = attempts[DB] /\ Counted' = {DB} /\ Counted = {DB}
      BY <2>01, <3>1, Appended DEF Fallen, Counted, Stores
    <3>4. OneStore' /\ Fallen'
      BY <2>01, <3>1, <3>2 DEF OneStore, Fallen, Idle
    <3>5. Exclusive'
      BY <2>01, <3>2 DEF Exclusive, Idle
    <3>6. \A q \in Requests : StoreOf(q) = DB
      BY <2>01, <3>3, StoreOfType DEF StoreOf, OneStore
    <3>7. RoomLeft'
      BY <2>01, <3>1, <3>2, <3>3, <3>6, RoomKept DEF RoomLeft, Idle
    <3>8. CapsHold'
      BY <3>1, <3>3 DEF CapsHold, InWindow, Since, Concerns
    <3>9. QED
      BY <3>4, <3>5, <3>7, <3>8 DEF CapsInv
  <2>7. ASSUME NEW r \in Requests, Unread(r) PROVE FALSE
    BY <1>2, <2>7 DEF Unread
  <2>8. ASSUME NEW r \in Requests, LockFails(r) PROVE FALSE
    BY <1>2, <2>8 DEF LockFails
  <2>9. ASSUME NEW p \in Processes, Reread(p) PROVE FALSE
    BY <2>01, <2>9 DEF Reread, OneStore
  <2>10. ASSUME NEW r \in Requests, Dies(r) PROVE CapsInv' /\ CapsHold'
    <3>1. UNCHANGED <<clock, table, present, attempts, degraded>> /\ Leave(r)
      BY <2>10 DEF Dies
    <3>2. /\ request'[r] = Idle /\ \A q \in Requests : q # r => request'[q] = request[q]
          /\ lock' = IF lock = r THEN NoOne ELSE lock
      BY <3>1, Left
    <3>3. OneStore' /\ Fallen'
      BY <2>01, <3>1, <3>2 DEF OneStore, Fallen, Idle
    <3>4. Exclusive'
      BY <2>01, <3>2 DEF Exclusive, Idle
    <3>5. RoomLeft'
      BY <2>01, <3>1, <3>2, RoomKept DEF RoomLeft, Idle
    <3>6. QED
      BY <3>1, <3>3, <3>4, <3>5, CapsKept DEF CapsInv
  <2>11. CASE Tick
    <3>1. UNCHANGED <<table, present, attempts, lock, request, degraded>>
      BY <2>11 DEF Tick
    <3>2. (OneStore /\ Exclusive /\ Fallen)'
      BY <2>01, <3>1 DEF OneStore, Exclusive, Fallen
    <3>3. RoomLeft'
      BY <2>01, <3>1, RoomKept DEF RoomLeft
    <3>4. QED
      BY <2>11, <3>2, <3>3, CapsAfterTick DEF CapsInv
  <2>12. CASE UNCHANGED vars
    <3>1. UNCHANGED <<clock, table, present, attempts, lock, request, degraded>>
      BY <2>12 DEF vars
    <3>2. (OneStore /\ Exclusive /\ Fallen)'
      BY <2>01, <3>1 DEF OneStore, Exclusive, Fallen
    <3>3. RoomLeft'
      BY <2>01, <3>1, RoomKept DEF RoomLeft
    <3>4. QED
      BY <3>1, <3>2, <3>3, CapsKept DEF CapsInv
  <2>13. QED
    BY <2>1, <2>2, <2>3, <2>4, <2>5, <2>6, <2>7, <2>8, <2>9, <2>10, <2>11, <2>12 DEF Next
<1>3. QED
  BY <1>1, <1>2

(* No rolling window of any user, firm or of everyone ever holds more      *)
(* attempts than its cap (charge), however many requests run at once.      *)
THEOREM BudgetCapsHold == Spec => []CapsHold
<1>1. Init => TypeOK /\ CapsInv /\ CapsHold
  <2> SUFFICES ASSUME Init PROVE TypeOK /\ CapsInv /\ CapsHold
    OBVIOUS
  <2>1. TypeOK
    BY BudgetStarts
  <2>2. CapsInv
    BY DEF Init, CapsInv, OneStore, Exclusive, Fallen, RoomLeft, Idle
  <2>3. CapsHold
    <3>1. SUFFICES ASSUME NEW s \in Counted, NEW scope \in Scopes, NEW end \in 0..clock,
                          NEW x \in [user : Users, firm : Firms \union {NoFirm}], Caps[scope] # 0
                   PROVE  Cardinality(InWindow(s, scope, x, end)) <= Caps[scope]
      BY DEF CapsHold
    <3>2. attempts[s] = <<>>
      BY DEF Init, Counted, Stores
    <3>3. DOMAIN attempts[s] = {}
      BY <3>2, EmptySeq
    <3>4. InWindow(s, scope, x, end) = {}
      BY <3>3 DEF InWindow, Since
    <3>5. QED
      BY <3>4, FS_EmptySet, BudgetAssumption
  <2>4. QED
    BY <2>1, <2>2, <2>3
<1>2. TypeOK /\ CapsInv /\ CapsHold /\ [Next]_vars => (TypeOK /\ CapsInv /\ CapsHold)'
  BY TypeStep, CapsStep
<1>3. QED
  BY <1>1, <1>2, PTL DEF Spec

-----------------------------------------------------------------------------

(* Every step of the contract keeps the records well formed and the zero   *)
(* hash empty.                                                             *)
LEMMA RecordsStep == RecordsOK /\ [Called]_registryVars => RecordsOK'
<1> SUFFICES ASSUME RecordsOK, [Called]_registryVars PROVE RecordsOK'
  OBVIOUS
<1> USE DEF RecordsOK, Bytes32, Confirmation, NoRecord, Recorded, Status
<1>1. CASE UNCHANGED registryVars
  BY <1>1 DEF registryVars
<1>2. ASSUME NEW h \in Bytes32, NEW a \in Addresses \union {ZeroAddress},
             NEW b \in Addresses \union {ZeroAddress}, Confirm(h, a, b)
      PROVE RecordsOK'
  BY <1>2, ZeroAssumption DEF Confirm, ConfirmAccepted, CheckParties
<1>3. ASSUME NEW prev \in Bytes32, NEW new \in Bytes32, Amend(prev, new)
      PROVE RecordsOK'
  <2>1. prev # ZeroHash /\ new # ZeroHash
    BY <1>3 DEF Amend
  <2>2. confirmations[prev] \in Confirmation
    OBVIOUS
  <2>3. QED
    BY <1>3, <2>1, <2>2, ZeroAssumption DEF Amend
<1>4. ASSUME NEW h \in Bytes32, Terminate(h) PROVE RecordsOK'
  <2>1. h # ZeroHash
    BY <1>4 DEF Terminate
  <2>2. QED
    BY <1>4, <2>1, ZeroAssumption DEF Terminate
<1>5. QED
  BY <1>1, <1>2, <1>3, <1>4 DEF Called

(* Records are well formed in every reachable state.                       *)
THEOREM RegistryTypeCorrect == RegistrySpec => []RecordsOK
<1>1. Deployed => RecordsOK
  BY ZeroAssumption DEF Deployed, RecordsOK, Bytes32, Confirmation, NoRecord, Status
<1>2. QED
  BY <1>1, RecordsStep, PTL DEF RegistrySpec

(* The contract's control flow lets no record appear without both parties' *)
(* signatures over exactly what it says.                                   *)
THEOREM RegistryConsented == RegistrySpec => []Consented
<1>1. Deployed => Consented
  BY DEF Deployed, Consented, Recs, NoRecord
<1>2. RecordsOK /\ Consented /\ [Called]_registryVars => Consented'
  <2> SUFFICES ASSUME RecordsOK, Consented, [Called]_registryVars PROVE Consented'
    OBVIOUS
  <2> USE DEF Consented, Recs
  <2>1. CASE UNCHANGED registryVars
    BY <2>1 DEF registryVars
  <2>2. ASSUME NEW h \in Bytes32, NEW a \in Addresses \union {ZeroAddress},
               NEW b \in Addresses \union {ZeroAddress}, Confirm(h, a, b)
        PROVE Consented'
    BY <2>2 DEF Confirm, ConfirmAccepted, RequireSigner, Recorded, RecordsOK
  <2>3. ASSUME NEW prev \in Bytes32, NEW new \in Bytes32, Amend(prev, new)
        PROVE Consented'
    <3>1. prev # new /\ prev # ZeroHash
      BY <2>3 DEF Amend, RecordsOK, NoRecord
    <3>2. \A h \in Bytes32 \ {prev, new} : confirmations'[h] = confirmations[h]
      BY <2>3 DEF Amend, RecordsOK
    <3>3. confirmations'[prev] = [confirmations[prev] EXCEPT !.status = "Superseded"]
      BY <2>3, <3>1 DEF Amend, RecordsOK
    <3>4. confirmations'[new] = Recorded(confirmations[prev].partyA, confirmations[prev].partyB, prev)
      BY <2>3, <3>1 DEF Amend, RecordsOK
    <3>5. confirmations[prev] \in Confirmation
      BY DEF RecordsOK
    <3> SUFFICES ASSUME NEW h \in Bytes32, confirmations'[h].status # "None"
                 PROVE  LET c == confirmations'[h] IN
                        /\ c.prevHash = ZeroHash =>
                             /\ <<c.partyA, ConfirmMsg(h, c.partyB)>> \in Signed
                             /\ <<c.partyB, ConfirmMsg(h, c.partyA)>> \in Signed
                        /\ c.prevHash # ZeroHash =>
                             /\ <<c.partyA, AmendMsg(c.prevHash, h, c.partyB)>> \in Signed
                             /\ <<c.partyB, AmendMsg(c.prevHash, h, c.partyA)>> \in Signed
                        /\ c.status = "Terminated" =>
                             /\ <<c.partyA, TerminateMsg(h, c.partyB)>> \in Signed
                             /\ <<c.partyB, TerminateMsg(h, c.partyA)>> \in Signed
      OBVIOUS
    <3>6. CASE h = prev
      <4>1. /\ confirmations'[h].prevHash = confirmations[h].prevHash
            /\ confirmations'[h].partyA = confirmations[h].partyA
            /\ confirmations'[h].partyB = confirmations[h].partyB
            /\ confirmations'[h].status = "Superseded"
            /\ confirmations[h].status # "None"
        <5>1. confirmations[prev].status # "None"
          BY <2>3 DEF Amend
        <5>2. confirmations'[h] = [confirmations[h] EXCEPT !.status = "Superseded"]
          BY <3>3, <3>6
        <5>3. QED
          BY <3>5, <3>6, <5>1, <5>2 DEF Confirmation
      <4>2. QED
        BY <4>1
    <3>7. CASE h = new
      <4>1. /\ confirmations'[h].prevHash = prev
            /\ confirmations'[h].partyA = confirmations[prev].partyA
            /\ confirmations'[h].partyB = confirmations[prev].partyB
            /\ confirmations'[h].status = "Confirmed"
        BY <3>4, <3>7 DEF Recorded
      <4>2. /\ <<confirmations[prev].partyA, AmendMsg(prev, new, confirmations[prev].partyB)>> \in Signed
            /\ <<confirmations[prev].partyB, AmendMsg(prev, new, confirmations[prev].partyA)>> \in Signed
        BY <2>3 DEF Amend, RequireSigner
      <4>3. QED
        BY <3>1, <3>7, <4>1, <4>2
    <3>8. CASE h \notin {prev, new}
      BY <3>2, <3>8
    <3>9. QED
      BY <3>6, <3>7, <3>8
  <2>4. ASSUME NEW h \in Bytes32, Terminate(h) PROVE Consented'
    <3>1. \A k \in Bytes32 \ {h} : confirmations'[k] = confirmations[k]
      BY <2>4 DEF Terminate, RecordsOK
    <3>2. confirmations[h] \in Confirmation
      BY DEF RecordsOK
    <3>3. /\ confirmations[h].status = "Confirmed"
          /\ confirmations'[h].prevHash = confirmations[h].prevHash
          /\ confirmations'[h].partyA = confirmations[h].partyA
          /\ confirmations'[h].partyB = confirmations[h].partyB
      BY <2>4, <3>2 DEF Terminate, RecordsOK, Confirmation
    <3>4. /\ <<confirmations[h].partyA, TerminateMsg(h, confirmations[h].partyB)>> \in Signed
          /\ <<confirmations[h].partyB, TerminateMsg(h, confirmations[h].partyA)>> \in Signed
      BY <2>4 DEF Terminate, RequireSigner
    <3>5. \A k \in Bytes32 :
            /\ confirmations'[k].status # "None" => confirmations[k].status # "None"
            /\ confirmations'[k].prevHash = confirmations[k].prevHash
            /\ confirmations'[k].partyA = confirmations[k].partyA
            /\ confirmations'[k].partyB = confirmations[k].partyB
            /\ confirmations'[k].status = "Terminated" => k = h \/ confirmations[k].status = "Terminated"
      BY <3>1, <3>3
    <3>6. QED
      BY <3>4, <3>5
  <2>5. QED
    BY <2>1, <2>2, <2>3, <2>4 DEF Called
<1>3. QED
  BY <1>1, <1>2, RegistryTypeCorrect, PTL DEF RegistrySpec

(* The amendment chain neither forks nor breaks, however calls interleave. *)
THEOREM RegistryLineageSound == RegistrySpec => []LineageSound
<1>1. Deployed => LineageSound
  BY DEF Deployed, LineageSound, Recs, NoRecord
<1>2. RecordsOK /\ LineageSound /\ [Called]_registryVars => LineageSound'
  <2> SUFFICES ASSUME RecordsOK, LineageSound, [Called]_registryVars PROVE LineageSound'
    OBVIOUS
  <2> USE DEF LineageSound, Recs
  <2>1. CASE UNCHANGED registryVars
    BY <2>1 DEF registryVars
  <2>2. ASSUME NEW h \in Bytes32, NEW a \in Addresses \union {ZeroAddress},
               NEW b \in Addresses \union {ZeroAddress}, Confirm(h, a, b)
        PROVE LineageSound'
    BY <2>2 DEF Confirm, ConfirmAccepted, CheckParties, Recorded, RecordsOK, Confirmation
  <2>3. ASSUME NEW prev \in Bytes32, NEW new \in Bytes32, Amend(prev, new)
        PROVE LineageSound'
    <3>1. prev # new /\ prev # ZeroHash /\ new # ZeroHash
      BY <2>3 DEF Amend, RecordsOK, NoRecord
    <3>2. \A h \in Bytes32 \ {prev, new} : confirmations'[h] = confirmations[h]
      BY <2>3 DEF Amend, RecordsOK
    <3>3. confirmations'[prev] = [confirmations[prev] EXCEPT !.status = "Superseded"]
      BY <2>3, <3>1 DEF Amend, RecordsOK
    <3>4. confirmations'[new] = Recorded(confirmations[prev].partyA, confirmations[prev].partyB, prev)
      BY <2>3, <3>1 DEF Amend, RecordsOK
    <3>5. /\ confirmations[prev] \in Confirmation
          /\ confirmations[prev].status = "Confirmed"
          /\ confirmations[new].status = "None"
      BY <2>3 DEF Amend, RecordsOK
    <3>6. \A h \in Recs : confirmations[h].prevHash # prev /\ confirmations[h].prevHash # new
      BY <3>1, <3>5
    <3>7. \A h \in Recs \ {prev} : h # new
      BY <3>5
    <3>8. /\ confirmations'[prev].prevHash = confirmations[prev].prevHash
          /\ confirmations'[prev].partyA = confirmations[prev].partyA
          /\ confirmations'[prev].partyB = confirmations[prev].partyB
          /\ confirmations'[prev].status = "Superseded"
          /\ confirmations'[new].prevHash = prev
          /\ confirmations'[new].partyA = confirmations[prev].partyA
          /\ confirmations'[new].partyB = confirmations[prev].partyB
          /\ confirmations'[new].status = "Confirmed"
      BY <3>3, <3>4, <3>5 DEF Confirmation, Recorded
    <3>9. Recs' = Recs \union {new}
      BY <3>1, <3>2, <3>5, <3>8
    <3>10. confirmations[prev].prevHash # prev /\ confirmations[prev].prevHash # new
      BY <3>5, <3>6
    <3>11. \A h \in Recs' :
             LET c == confirmations'[h] IN
             /\ c.partyA # c.partyB
             /\ c.prevHash # ZeroHash =>
                  /\ confirmations'[c.prevHash].status = "Superseded"
                  /\ confirmations'[c.prevHash].partyA = c.partyA
                  /\ confirmations'[c.prevHash].partyB = c.partyB
             /\ c.status = "Superseded" => \E n \in Recs' : confirmations'[n].prevHash = h
      <4> SUFFICES ASSUME NEW h \in Recs'
                   PROVE /\ confirmations'[h].partyA # confirmations'[h].partyB
                         /\ confirmations'[h].prevHash # ZeroHash =>
                              /\ confirmations'[confirmations'[h].prevHash].status = "Superseded"
                              /\ confirmations'[confirmations'[h].prevHash].partyA = confirmations'[h].partyA
                              /\ confirmations'[confirmations'[h].prevHash].partyB = confirmations'[h].partyB
                         /\ confirmations'[h].status = "Superseded" => \E n \in Recs' : confirmations'[n].prevHash = h
        OBVIOUS
      <4>1. CASE h = prev
        BY <4>1, <3>1, <3>2, <3>5, <3>8, <3>9, <3>10 DEF RecordsOK, Confirmation
      <4>2. CASE h = new
        BY <4>2, <3>1, <3>5, <3>8, <3>9
      <4>3. CASE h \notin {prev, new}
        <5>1. h \in Recs /\ confirmations'[h] = confirmations[h]
          BY <4>3, <3>2, <3>9
        <5>2. confirmations[h].prevHash \in Bytes32 \ {prev, new}
          BY <5>1, <3>6 DEF RecordsOK, Confirmation
        <5>3. ASSUME NEW n \in Recs, confirmations[n].prevHash = h
              PROVE n \in Recs' /\ confirmations'[n].prevHash = h
          BY <5>3, <3>2, <3>8, <3>9, <3>5
        <5>4. QED
          BY <5>1, <5>2, <5>3, <3>2
      <4>4. QED
        BY <4>1, <4>2, <4>3
    <3>12. \A h1, h2 \in Recs' :
             confirmations'[h1].prevHash = confirmations'[h2].prevHash
               => h1 = h2 \/ confirmations'[h1].prevHash = ZeroHash
      <4>1. \A h \in Recs : confirmations'[h].prevHash = confirmations[h].prevHash
        BY <3>2, <3>5, <3>8
      <4>2. QED
        BY <4>1, <3>6, <3>8, <3>9
    <3>13. QED
      BY <3>11, <3>12
  <2>4. ASSUME NEW h \in Bytes32, Terminate(h) PROVE LineageSound'
    <3>1. confirmations[h] \in Confirmation
      BY DEF RecordsOK
    <3>2. \A k \in Bytes32 \ {h} : confirmations'[k] = confirmations[k]
      BY <2>4 DEF Terminate, RecordsOK
    <3>3. /\ confirmations[h].status = "Confirmed"
          /\ confirmations'[h].status = "Terminated"
          /\ confirmations'[h].prevHash = confirmations[h].prevHash
          /\ confirmations'[h].partyA = confirmations[h].partyA
          /\ confirmations'[h].partyB = confirmations[h].partyB
      BY <2>4, <3>1 DEF Terminate, RecordsOK, Confirmation
    <3>4. Recs' = Recs
      BY <3>2, <3>3
    <3>5. QED
      BY <3>1, <3>2, <3>3, <3>4 DEF RecordsOK, Confirmation
  <2>5. QED
    BY <2>1, <2>2, <2>3, <2>4 DEF Called
<1>3. QED
  BY <1>1, <1>2, RegistryTypeCorrect, PTL DEF RegistrySpec

(* Once closed, a record stays exactly as it was closed: no interleaving   *)
(* of calls rewrites, reopens or erases it.                                *)
THEOREM RegistryRecordsOnlyClose == RegistrySpec => RecordsOnlyClose
<1>1. RecordsOK /\ [Called]_registryVars =>
        [\A h \in Bytes32 :
           confirmations[h].status # "None" =>
             \/ confirmations'[h] = confirmations[h]
             \/ /\ confirmations[h].status = "Confirmed"
                /\ \E s \in {"Superseded", "Terminated"} :
                     confirmations'[h] = [confirmations[h] EXCEPT !.status = s]]_registryVars
  BY DEF RecordsOK, Called, registryVars, Confirm, ConfirmAccepted, Amend, Terminate
<1>2. QED
  BY <1>1, RegistryTypeCorrect, PTL DEF RegistrySpec, RecordsOnlyClose
=============================================================================
