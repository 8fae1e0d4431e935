---------------------------- MODULE RelayerBudget ----------------------------
(***************************************************************************)
(* The caps on what the relayer spends (chain/budget.py): every anchoring  *)
(* attempt is charged before the chain is called, against three caps over  *)
(* a rolling window, one of the user, one of the firm and one of everyone. *)
(*                                                                         *)
(* charge() fixes its time first, then takes an advisory lock, counts,     *)
(* checks, inserts and commits; other requests, of this process and of     *)
(* others, run between any two of these.  Attempts are rows of the table   *)
(* chain_attempts, or of a process's memory where the table is missing.    *)
(***************************************************************************)
EXTENDS Integers, FiniteSets, Sequences

CONSTANTS Requests, Processes,
          ProcessOf,        \* the process a request runs in
          Users, Firms, NoFirm,
          FirmOf,           \* firm_members
          Caps,             \* the limits by scope; 0 is no limit
          Window,           \* 24 hours, in ticks of the clock
          NoOne,            \* nobody holds the advisory lock
          MaxTime,          \* bound: ticks of the clock
          MaxAttempts,      \* bound: attempts charged
          MaxFaults         \* bound: failures of the database

Scopes == {"user", "firm", "global"}
DB     == "chain_attempts"
Stores == Processes \union {DB}

ASSUME BudgetAssumption ==
  /\ ProcessOf \in [Requests -> Processes]
  /\ FirmOf \in [Users -> Firms \union {NoFirm}]
  /\ NoFirm \notin Firms
  /\ Caps \in [Scopes -> Nat]
  /\ Window \in Nat
  /\ NoOne \notin Requests
  /\ DB \notin Processes

VARIABLES clock,
          table,      \* has the migration that makes the table been applied?
          present,    \* what each process believes of that (_table)
          attempts,   \* the attempts of each store, as they were stored
          lock,       \* who holds the advisory lock
          request,
          faults,
          degraded    \* history: the lock or the table could not be read

vars == <<clock, table, present, attempts, lock, request, faults, degraded>>

Attempt == [at : Nat, user : Users, firm : Firms \union {NoFirm}]
Session == [pc : {"idle", "lock", "count", "insert", "memory"}, at : Nat,
            user : Users \union {NoOne}, firm : Firms \union {NoFirm}]
Idle    == [pc |-> "idle", at |-> 0, user |-> NoOne, firm |-> NoFirm]

Init ==
  /\ clock = 0
  /\ table \in BOOLEAN
  /\ present = [p \in Processes |-> table]
  /\ attempts = [s \in Stores |-> <<>>]
  /\ lock = NoOne
  /\ request = [r \in Requests |-> Idle]
  /\ faults = 0
  /\ degraded = FALSE

StoreOf(r) == IF present[ProcessOf[r]] THEN DB ELSE ProcessOf[r]

Goto(r, pc) == request' = [request EXCEPT ![r].pc = pc]
(* Variant: a lock of the session, which a rollback does not give back.    *)
UnlockKept(r) == lock' = lock

(* The end of the transaction gives the lock back.                         *)
Unlock(r) == lock' = IF lock = r THEN NoOne ELSE lock
Leave(r) == request' = [request EXCEPT ![r] = Idle] /\ Unlock(r)
Fault == faults < MaxFaults /\ faults' = faults + 1

(* The caller is charged at the time the request arrived, not when it got  *)
(* the lock.  A membership that cannot be read leaves out the firm's cap.  *)
Charge(r, u) ==
  /\ request[r].pc = "idle"
  /\ \E s \in Scopes : Caps[s] # 0
  /\ \/ /\ request' = [request EXCEPT ![r] = [pc |-> "lock", at |-> clock, user |-> u, firm |-> FirmOf[u]]]
        /\ UNCHANGED faults
     \/ /\ request' = [request EXCEPT ![r] = [pc |-> "lock", at |-> clock, user |-> u, firm |-> NoFirm]]
        /\ Fault
  /\ UNCHANGED <<clock, table, present, attempts, lock, degraded>>

(* Variant: the lock is a session's own row lock, so nobody waits.         *)
LockFree(r) ==
  /\ request[r].pc = "lock"
  /\ Goto(r, "count")
  /\ UNCHANGED <<clock, table, present, attempts, lock, faults, degraded>>

Lock(r) ==
  /\ request[r].pc = "lock" /\ lock = NoOne
  /\ lock' = r
  /\ Goto(r, "count")
  /\ UNCHANGED <<clock, table, present, attempts, faults, degraded>>

(* The lock could not be taken: the charge goes on without it.             *)
LockFails(r) ==
  /\ request[r].pc = "lock"
  /\ Goto(r, "count")
  /\ Fault /\ degraded' = TRUE
  /\ UNCHANGED <<clock, table, present, attempts, lock>>

(* counts(): the attempts of a store since a time, by scope.               *)
Concerns(a, scope, x) ==
  \/ scope = "user" /\ a.user = x.user
  \/ scope = "firm" /\ x.firm # NoFirm /\ a.firm = x.firm
  \/ scope = "global"

Since(s, scope, x, time) ==
  {i \in DOMAIN attempts[s] : attempts[s][i].at > time /\ Concerns(attempts[s][i], scope, x)}

(* Variant: one attempt too many passes.                                   *)
ReachedLate(s, x) ==
  \E scope \in Scopes : Caps[scope] # 0 /\ Cardinality(Since(s, scope, x, x.at - Window)) > Caps[scope]

Reached(s, x) ==
  \E scope \in Scopes : Caps[scope] # 0 /\ Cardinality(Since(s, scope, x, x.at - Window)) >= Caps[scope]

(* 429 rolls back, which releases the lock.                                *)
Count(r) ==
  /\ request[r].pc = "count"
  /\ \/ Reached(StoreOf(r), request[r]) /\ Leave(r)
     \/ ~Reached(StoreOf(r), request[r]) /\ Goto(r, "insert") /\ UNCHANGED lock
  /\ UNCHANGED <<clock, table, present, attempts, faults, degraded>>

(* The attempt is stored in the transaction that holds the lock.           *)
Stored(s, r) ==
  /\ Len(attempts[s]) < MaxAttempts
  /\ attempts' = [attempts EXCEPT ![s] =
       Append(@, [at |-> request[r].at, user |-> request[r].user, firm |-> request[r].firm])]

Insert(r) ==
  /\ request[r].pc = "insert"
  /\ Stored(StoreOf(r), r)
  /\ Leave(r)
  /\ UNCHANGED <<clock, table, present, faults, degraded>>

(* The row could not be written: rolled back, which gives the lock back,   *)
(* and then kept in memory.                                                *)
InsertFails(r) ==
  /\ request[r].pc = "insert" /\ StoreOf(r) = DB
  /\ Goto(r, "memory") /\ Unlock(r)
  /\ Fault
  /\ UNCHANGED <<clock, table, present, attempts, degraded>>

Remember(r) ==
  /\ request[r].pc = "memory"
  /\ Stored(ProcessOf[r], r)
  /\ Leave(r)
  /\ UNCHANGED <<clock, table, present, faults, degraded>>

(* table_present() fails: it rolls back, and for five minutes the process  *)
(* believes that there is no table.  Without the table the user's stored   *)
(* events are counted as well; if that fails it rolls back too.            *)
Unread(r) ==
  /\ \/ /\ request[r].pc \in {"count", "insert"} /\ StoreOf(r) = DB
        /\ present' = [present EXCEPT ![ProcessOf[r]] = FALSE]
     \/ /\ request[r].pc = "count" /\ StoreOf(r) # DB
        /\ UNCHANGED present
  /\ Unlock(r)
  /\ Fault /\ degraded' = TRUE
  /\ UNCHANGED <<clock, table, attempts, request>>

Reread(p) ==
  /\ present[p] # table
  /\ present' = [present EXCEPT ![p] = table]
  /\ UNCHANGED <<clock, table, attempts, lock, request, faults, degraded>>

(* The request dies or its query fails: its transaction is rolled back.    *)
Dies(r) ==
  /\ request[r].pc # "idle"
  /\ Leave(r)
  /\ UNCHANGED <<clock, table, present, attempts, faults, degraded>>

Tick ==
  /\ clock < MaxTime
  /\ clock' = clock + 1
  /\ UNCHANGED <<table, present, attempts, lock, request, faults, degraded>>

Next ==
  \/ Tick
  \/ \E p \in Processes : Reread(p)
  \/ \E r \in Requests :
       \/ \E u \in Users : Charge(r, u)
       \/ Lock(r) \/ LockFails(r) \/ Count(r) \/ Insert(r) \/ InsertFails(r)
       \/ Remember(r) \/ Unread(r) \/ Dies(r)

Spec == Init /\ [][Next]_vars

----------------------------------------------------------------------------
(* Times are past, rows are whole, and the holder of the lock is a request *)
(* that is counting or storing: a lock is never left behind by a request   *)
(* that was refused, failed or died.                                       *)
StoresOK ==
  /\ attempts \in [Stores -> Seq(Attempt)]
  /\ \A s \in Stores : \A i \in DOMAIN attempts[s] : attempts[s][i].at <= clock
SessionsOK ==
  /\ request \in [Requests -> Session]
  /\ \A r \in Requests : request[r].pc # "idle" => request[r].user \in Users /\ request[r].at <= clock
HolderOK ==
  /\ lock \in Requests \union {NoOne}
  /\ lock \in Requests => request[lock].pc \in {"count", "insert"}
TypeOK ==
  /\ clock \in Nat /\ table \in BOOLEAN /\ degraded \in BOOLEAN /\ faults \in Nat
  /\ present \in [Processes -> BOOLEAN]
  /\ StoresOK /\ SessionsOK /\ HolderOK

(* However many requests arrive at once, in whichever processes, wait for  *)
(* the lock and fail, no window of 24 hours holds more attempts of a user, *)
(* of a firm or of everyone than the cap: in the table, or without it in   *)
(* each process.  Unless the lock or the table's presence could not be read.*)
Counted == IF table THEN {DB} ELSE Processes
InWindow(s, scope, x, end) == {i \in Since(s, scope, x, end - Window) : attempts[s][i].at <= end}
CapsHold ==
  ~degraded =>
    \A s \in Counted, scope \in Scopes, end \in 0..clock, x \in [user : Users, firm : Firms \union {NoFirm}] :
      Caps[scope] # 0 => Cardinality(InWindow(s, scope, x, end)) <= Caps[scope]
=============================================================================
