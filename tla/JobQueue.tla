------------------------------- MODULE JobQueue -------------------------------
(***************************************************************************)
(* Background runs: the jobs table as a queue (backend/jobs/queue.py), the *)
(* worker processes that drain it (backend/worker.py) and the routes that  *)
(* enqueue (POST /run of api/routes/ccr, ipv, capital and risk).           *)
(*                                                                         *)
(* Every function of the queue commits its own small transaction, so each  *)
(* is one step; a worker is split between claiming a job, the handler's    *)
(* commit and recording the outcome.  Rows are kept in creation order.     *)
(* Progress writes and heartbeats change nothing that is read here.        *)
(***************************************************************************)
EXTENDS Naturals, Sequences, FiniteSets

CONSTANTS Users,
          Kinds,        \* kinds with a handler
          SiteKinds,    \* of these, the runs there is one of per site
          Workers,      \* worker processes
          Handles,      \* kinds a worker takes (RIJEKA_WORKER_KINDS)
          Requests,     \* request threads of the API
          MaxAttempts,  \* requeue_stale's max_attempts
          Overruns,     \* kinds whose handler may still run after 90 minutes
          NoOne,
          MaxJobs,      \* bound: rows in the table
          MaxFaults     \* bound: stopped and killed workers, failed outcome writes

ASSUME JobQueueAssumption ==
  /\ SiteKinds \subseteq Kinds
  /\ Handles \in [Workers -> SUBSET Kinds]
  /\ MaxAttempts \in Nat \ {0}
  /\ Overruns \subseteq Kinds
  /\ NoOne \notin Workers
  /\ MaxJobs \in Nat /\ MaxFaults \in Nat

VARIABLES jobs,         \* the rows, by created_at
          workers,      \* what each process is doing
          requests,     \* what each request thread is about to enqueue
          faults

vars == <<jobs, workers, requests, faults>>

Active == {"QUEUED", "RUNNING"}

(* old: started more than 90 minutes ago.                                  *)
Job == [user : Users, kind : Kinds, status : Active \union {"DONE", "FAILED"},
        attempts : Nat, worker : Workers \union {NoOne}, old : BOOLEAN]

NewJob(u, k) == [user |-> u, kind |-> k, status |-> "QUEUED",
                 attempts |-> 0, worker |-> NoOne, old |-> FALSE]

Off == [pc |-> "off", job |-> 0, stopping |-> FALSE]

NoRequest == <<>>

(* latest: the newest row of the user and kind, of the kind alone for a    *)
(* run there is one of per site.  as_status: running while it is active.   *)
Seen(u, k) == {j \in DOMAIN jobs : jobs[j].kind = k /\ (k \in SiteKinds \/ jobs[j].user = u)}

InProgress(u, k) == \E j \in Seen(u, k) : /\ \A i \in Seen(u, k) : i <= j
                                          /\ jobs[j].status \in Active

Working(w, j) == workers[w].pc \in {"run", "finish", "fail"} /\ workers[w].job = j

Init == /\ jobs = << >>
        /\ workers = [w \in Workers |-> Off]
        /\ requests = [r \in Requests |-> NoRequest]
        /\ faults = 0

-----------------------------------------------------------------------------
(* POST /run: nothing is started while the latest run is in progress.      *)
RunArrives(r, u, k) ==
  /\ requests[r] = NoRequest
  /\ ~InProgress(u, k)
  /\ requests' = [requests EXCEPT ![r] = <<u, k>>]
  /\ UNCHANGED <<jobs, workers, faults>>

Enqueue(r) ==
  /\ requests[r] # NoRequest
  /\ Len(jobs) < MaxJobs
  /\ jobs' = Append(jobs, NewJob(requests[r][1], requests[r][2]))
  /\ requests' = [requests EXCEPT ![r] = NoRequest]
  /\ UNCHANGED <<workers, faults>>

(* Variants: a fourth attempt; every RUNNING row; failed runs as well; a    *)
(* status the table does not have.                                         *)
RequeuedOnceMore(job) ==
  IF job.status = "RUNNING" /\ job.old
  THEN [job EXCEPT !.status = IF job.attempts <= MaxAttempts THEN "QUEUED" ELSE "FAILED",
                   !.worker = NoOne]
  ELSE job

RequeuedYoung(job) ==
  IF job.status = "RUNNING"
  THEN [job EXCEPT !.status = IF job.attempts < MaxAttempts THEN "QUEUED" ELSE "FAILED",
                   !.worker = NoOne]
  ELSE job

RequeuedFailed(job) ==
  IF job.status = "FAILED" /\ job.attempts < MaxAttempts
  THEN [job EXCEPT !.status = "QUEUED", !.worker = NoOne]
  ELSE job

RequeuedAsStale(job) ==
  IF job.status = "RUNNING" /\ job.old
  THEN [job EXCEPT !.status = IF job.attempts < MaxAttempts THEN "QUEUED" ELSE "STALE",
                   !.worker = NoOne]
  ELSE job

(* requeue_stale: RUNNING rows started long ago go back to the queue while *)
(* attempts remain, else they failed.                                      *)
Requeued(job) ==
  IF job.status = "RUNNING" /\ job.old
  THEN [job EXCEPT !.status = IF job.attempts < MaxAttempts THEN "QUEUED" ELSE "FAILED",
                   !.worker = NoOne]
  ELSE job

(* loop(): stale rows are looked for once, when the process starts.        *)
Start(w) ==
  /\ workers[w].pc = "off"
  /\ workers' = [workers EXCEPT ![w] = [Off EXCEPT !.pc = "idle"]]
  /\ jobs' = [j \in DOMAIN jobs |-> Requeued(jobs[j])]
  /\ UNCHANGED <<requests, faults>>

(* Variant: the oldest QUEUED row, taken only if its kind is handled.      *)
ClaimHeadOfLine(w) ==
  LET Q == {j \in DOMAIN jobs : jobs[j].status = "QUEUED"} IN
  /\ workers[w].pc = "idle" /\ ~workers[w].stopping
  /\ \E j \in Q :
       /\ \A i \in Q : j <= i
       /\ jobs[j].kind \in Handles[w]
       /\ jobs' = [jobs EXCEPT ![j].status = "RUNNING", ![j].attempts = @ + 1,
                               ![j].worker = w, ![j].old = FALSE]
       /\ workers' = [workers EXCEPT ![w].pc = "run", ![w].job = j]
  /\ UNCHANGED <<requests, faults>>

(* claim: the oldest QUEUED row of a kind this worker takes.               *)
Claim(w) ==
  LET Q == {j \in DOMAIN jobs : jobs[j].status = "QUEUED" /\ jobs[j].kind \in Handles[w]} IN
  /\ workers[w].pc = "idle" /\ ~workers[w].stopping
  /\ \E j \in Q :
       /\ \A i \in Q : j <= i
       /\ jobs' = [jobs EXCEPT ![j].status = "RUNNING", ![j].attempts = @ + 1,
                               ![j].worker = w, ![j].old = FALSE]
       /\ workers' = [workers EXCEPT ![w].pc = "run", ![w].job = j]
  /\ UNCHANGED <<requests, faults>>

(* run_job: the handler commits its own work and returns, or raises.       *)
HandlerEnds(w) ==
  /\ workers[w].pc = "run"
  /\ \E outcome \in {"finish", "fail"} : workers' = [workers EXCEPT ![w].pc = outcome]
  /\ UNCHANGED <<jobs, requests, faults>>

(* finish, fail: the row takes the outcome whatever its status is by now.  *)
Record(w, status) ==
  /\ jobs' = [jobs EXCEPT ![workers[w].job].status = status]
  /\ workers' = [workers EXCEPT ![w].pc = "idle", ![w].job = 0]
  /\ UNCHANGED <<requests, faults>>

Finish(w) == workers[w].pc = "finish" /\ Record(w, "DONE")

Fail(w) == workers[w].pc = "fail" /\ Record(w, "FAILED")

(* A finish that cannot be written is recorded as a failure; a failure     *)
(* that cannot be written ends the process.                                *)
RecordFails(w) ==
  /\ faults < MaxFaults
  /\ \/ /\ workers[w].pc = "finish"
        /\ workers' = [workers EXCEPT ![w].pc = "fail"]
     \/ /\ workers[w].pc = "fail"
        /\ workers' = [workers EXCEPT ![w] = Off]
  /\ faults' = faults + 1
  /\ UNCHANGED <<jobs, requests>>

(* SIGTERM: the job in hand is finished first.                             *)
Signal(w) ==
  /\ workers[w].pc # "off" /\ ~workers[w].stopping
  /\ faults < MaxFaults
  /\ faults' = faults + 1
  /\ workers' = [workers EXCEPT ![w].stopping = TRUE]
  /\ UNCHANGED <<jobs, requests>>

Exit(w) ==
  /\ workers[w].pc = "idle" /\ workers[w].stopping
  /\ workers' = [workers EXCEPT ![w] = Off]
  /\ UNCHANGED <<jobs, requests, faults>>

Kill(w) ==
  /\ workers[w].pc # "off"
  /\ faults < MaxFaults
  /\ faults' = faults + 1
  /\ workers' = [workers EXCEPT ![w] = Off]
  /\ UNCHANGED <<jobs, requests>>

(* Ninety minutes pass; unless its kind overruns no worker is still at it. *)
Age(j) ==
  /\ jobs[j].status = "RUNNING" /\ ~jobs[j].old
  /\ jobs[j].kind \in Overruns \/ \A w \in Workers : ~Working(w, j)
  /\ jobs' = [jobs EXCEPT ![j].old = TRUE]
  /\ UNCHANGED <<workers, requests, faults>>

Process(w) == \/ Start(w)
              \/ Claim(w)
              \/ HandlerEnds(w)
              \/ Finish(w)
              \/ Fail(w)
              \/ Exit(w)

Next ==
  \/ \E r \in Requests : \/ \E u \in Users, k \in Kinds : RunArrives(r, u, k)
                         \/ Enqueue(r)
  \/ \E w \in Workers : Process(w) \/ RecordFails(w) \/ Signal(w) \/ Kill(w)
  \/ \E j \in DOMAIN jobs : Age(j)

Spec == Init /\ [][Next]_vars

(* The platform restarts a worker that exits, and a worker keeps polling,  *)
(* working and recording; handlers end.                                    *)
FairSpec == Spec /\ \A w \in Workers : WF_vars(Process(w))

-----------------------------------------------------------------------------
(* Rows, processes and request threads are well formed; a busy worker's    *)
(* job exists.                                                             *)
TypeOK ==
  /\ jobs \in Seq(Job)
  /\ workers \in [Workers -> [pc : {"off", "idle", "run", "finish", "fail"},
                              job : Nat, stopping : BOOLEAN]]
  /\ requests \in [Requests -> {NoRequest} \union (Users \X Kinds)]
  /\ faults \in 0..MaxFaults
  /\ \A w \in Workers : workers[w].pc \in {"run", "finish", "fail"} => workers[w].job \in DOMAIN jobs

(* However often workers die, are requeued or overlap, a job is started at *)
(* most MaxAttempts times, and one still queued has an attempt left.       *)
AttemptsBounded ==
  \A j \in DOMAIN jobs : /\ jobs[j].attempts <= MaxAttempts
                         /\ jobs[j].status = "QUEUED" => jobs[j].attempts < MaxAttempts

(* A job in hand of a kind whose handlers end within 90 minutes is RUNNING *)
(* under its worker's name until that worker records the outcome: no       *)
(* restart requeues it, and no second worker writes its row, whatever      *)
(* happens to jobs of other kinds.                                         *)
ExclusiveRun ==
  \A w \in Workers, j \in DOMAIN jobs :
    Working(w, j) /\ jobs[j].kind \notin Overruns
      => jobs[j].status = "RUNNING" /\ jobs[j].worker = w

(* What a page has shown as DONE or FAILED of such a kind stays so.        *)
OutcomeIsFinal ==
  [][\A j \in DOMAIN jobs :
       jobs[j].status \in {"DONE", "FAILED"} /\ jobs[j].kind \notin Overruns
         => jobs'[j] = jobs[j]]_vars

(* A queued job that some worker takes does not wait forever.              *)
QueuedIsTaken ==
  \A j \in 1..MaxJobs :
    (j \in DOMAIN jobs /\ jobs[j].status = "QUEUED" /\ \E w \in Workers : jobs[j].kind \in Handles[w])
      ~> (j \in DOMAIN jobs /\ jobs[j].status # "QUEUED")
=============================================================================
